# ohlc-toolkit in TLA+

A verification project for `ohlc-toolkit`, a Python library that fetches a published history
of one-minute candles, verifies it, and aggregates it into windows, returns and indicators.
The modules here model what the code under `src/src/ohlc_toolkit/` does; TLC checks them on
small instances, and TLAPS proves the main results for every value of the constants.
Source paths below are relative to `src/src/ohlc_toolkit/`.

`PROJECT.json` lists the components, the runs, the lines each definition models, the hazards
the properties are for, the theorems, and, for every property of a passing run, a *mutant*: a
plausible bug in the code under which TLC finds that property violated. The bugs are the
definitions marked "Faulty variant" in the modules; no specification uses them.

## 1. Inventory

The library has two halves. `snapshot/` does input and output, keeps files in a directory that
any number of processes may share, takes no lock, and can be killed at any instant. Everything
else is a pure function of Polars frames: what is hard there is boundaries, order, gaps, and
two implementations of one promise that must not drift apart.

| component | state | operations | how it meets the others |
|---|---|---|---|
| **snapshot fetch** `snapshot/fetcher.py`, `transport.py` | the destination directory: one file per asset and `manifest.json`; per call, a temporary file, the parsed manifest and the assets resolved so far | `fetch_snapshot`; `HttpAssetTransport.download`; temporary file, digest, size, `os.replace` | calls of any number of processes share the directory; the release host is untrusted |
| **snapshot verification** `snapshot/fetcher.py` | none kept; a call reads the directory step by step | `verify_snapshot_on_disk` | reads what fetches write, without coordination |
| **snapshot manifest** `snapshot/manifest.py` | none | `parse_manifest` | accepts or refuses the bytes that fetch and verification act on |
| **release identity** `snapshot/release.py` | none | tag and revision formats, URLs | gives a fetch its tag |
| **snapshot continuity** `snapshot/continuity.py` | none; the result held by the caller may be old | `read_snapshot_frame`, `verify_snapshot_continuity` | opens a result's path again; runs source validation; compares with the manifest |
| **source profile and reader** `source/profile.py`, `reader.py` | none | column names, dtypes, cadence and phase; CSV input | hands frames to validation |
| **source validation** `source/validation.py` | the findings so far | `validate_source_frame`, strict and report mode | decides what every later part may assume |
| **window engine and oracle** `windows/engine.py`, `reference.py`, `resolution.py` | the candles held, the ticks resolved | `compute_windows`, `compute_reference_windows` | the first is what callers use, the second what it is tested against |
| **window quality, annotations** `windows/quality.py`, `annotations.py` | none | pass, filter or gate windows by coverage; per-window seconds of annotated intervals | any order after the engine |
| **returns** `returns/alignment.py`, `primitives.py` | none | backward and forward returns, excursions | joins on the close time of window frames |
| **schedules** `schedules/*.py` | none in the program; the payloads a caller stores outside it | generators of windows, horizons and lookbacks; cadence rules; the registry; `to_dict`, `schedule_id`, `from_dict` of each | produce the windows and emit cadences the engine resolves; payloads come back edited |
| **indicators** `indicators/*.py` | none | phased lookback joins and their oracle; formulas | read window frames, filtered or not |
| **temporal** `temporal/*.py` | none | durations and their text, calendar fields | vocabulary of all the others |
| **configuration** `config/logging.py` | the logger | set-up | none that a property is about |

What is hard, and what makes each part correct:

* **Fetch.** Every file-system step of a call can fall between any two steps of another, in
  another process; the release may be re-cut under its tag between two requests; a body may be
  truncated, too long or somebody else's; a file operation may fail; a call may be interrupted
  (inside its `try`, before it or in the `finally` itself) or killed. Correct means: whatever is at a final path is whole and is what some
  accepted manifest declares; a path once resolved stays so while the manifests agree on it; the
  cap holds while bytes arrive; a temporary file stays behind only where no `finally` could remove
  it; a result is what was asked for; REFUSE never overwrites; every call ends.
* **Verification.** It looks at one path up to three times (`is_file`, `stat`, digest) while
  fetches replace files. Correct means that an `ok` still describes the directory unless some
  fetch placed a manifest that says otherwise, that it accepts what a fetch returned, and ends.
* **Continuity.** Reading is cut off one row past the stated row count, and the seam checks
  repeat guards that the grid checks have. Correct means: a history passes exactly when it is,
  in full, the one its manifest states.
* **Validation.** Later checks assume what earlier ones established, and the sequence is left
  early where they would read nonsense. Correct means: what passes is a complete grid; no gap
  finding names a candle that is there; no missing candle goes unreported below the cap.
* **Windows.** Two implementations, one by binary search and rolling sums over a sorted frame,
  one by scanning, must agree on unsorted, duplicated, off-phase and gapped frames, and refuse
  alike; full coverage is a count in one and a sum of durations in the other.
* **Quality, annotations, returns, indicators.** A window at exactly the threshold
  passes and one second below does not; a null is an offender and not a row that vanishes; a
  second covered by two intervals counts once; no value depends on rows after it is available;
  a value over a filtered frame is the one the full history gives, or null. A phased lookback
  measures its frame's cadence from a frame that may have holes, and by it accepts or refuses; two
  implementations must give the same windows and the same nulls, and a null must be the history's.
* **Schedules.** A recurrence that rounds stops at one term past its maximum, caps its length a
  moment before that term is added, and drops in silence what rounding moves over a bound. Correct
  means: the members are those the endless recurrence has within the bounds; a point the caller
  names is not dropped; no generator's answer is refused by the constructor it is handed to; every
  window gets an emit cadence that is allowed and that the source can keep up with. And what is
  written is read back as it was, in whatever spelling, while anything else is refused.

## 2. The plan

Order: what destroys a user's files comes first, then what decides whether data may be trusted
at all, then the aggregation every later number rests on, then the steps after it.

| # | module | composes | status |
|---|---|---|---|
| 1 | `SnapshotFiles`, `SnapshotDirectory` | vocabulary and shared state | done |
| 2 | `SnapshotStore`, abstract: final paths are registers | implemented by 3 | done |
| 3 | `SnapshotFetch` | 1 | done, proved |
| 4 | `SnapshotVerify`, `SnapshotRead` | 1 | done |
| 5 | `SnapshotSystem` | 3, 4 | done, proved |
| 6 | `SourceValidation` | | done, proved |
| 7 | `SnapshotContinuity` | 6 | done, proved |
| 8 | `WindowContract`, abstract: the answer by comprehension | implemented by 9 | done |
| 9 | `WindowResolution`, `WindowReference`, `WindowEngine`, `Windows` | one another | done, proved, the refinement of 8 included |
| 10 | `FrameQuality`, `FrameAnnotations`, `FrameReturns`, `FrameSteps`: quality policy, annotations, returns and excursions over a window frame in any order | one another; 9's rows as input | done, proved |
| 11 | `PhasedGrid`, `PhasedLookback`, `IndicatorReadings`, `PhasedIndicators`: the joins of `indicators/phased.py`, the scans of `indicators/reference.py`, and what indicators compute of either | one another; 9's rows as input | done, proved |
| 12 | `DurationText`, `ScheduleArithmetic`, `ScheduleRecords`, `Schedules`: generators, cadence rules and their written form | one another; 9's `Resolvable` | done, proved |
| 13 | `ManifestParsing`: the demands of `parse_manifest` and the manifest that results | gives 1 its `Manifest` | done, proved |

Every invariant and every action property that a passing run checks is also the statement of a
theorem; what a run alone shows is that calls end. What a proof takes for granted is named with it in
section 6.

## 3. The modules and the code

### Files and the store

`SnapshotFiles` has the data: a byte string is a member of `Body`, a file is a prefix of one
(`bytes`, `len`), a path holds a file, nothing, or something that is not a regular file.
SHA-256 is taken to be collision-free, so a digest *is* the byte string it belongs to.
`Manifest` says which bodies `parse_manifest` accepts and what they declare; a manifest's tag
may be outside the grammar of a release (`BadTag`), which `parse_manifest` does not check.
`ManifestParsing` has the demands of `parse_manifest` on a decoded payload and the manifest it
makes of one that meets them (`ParsedManifest`); the instances of the fetch modules serve payloads
and let it decide which of them are manifests, so that one which declares its own name
(`"selfish"`) or an asset above every cap (`"lavish"`) is refused by what it says.
`SnapshotDirectory` holds the two variables everybody shares, `directory` and `disk`.

`SnapshotStore` is the abstract specification: a manifest is placed whole; an asset's path goes
in one step to the whole of bytes an already placed manifest declares; nothing is removed.

### Fetch

`SnapshotFetch` has one program counter per caller:

| `pc` | the code it stands at | actions |
|---|---|---|
| `idle` | outside `fetch_snapshot` | `Start` (`_prepare_directory`) |
| `temp` | `_make_temp_path`, before `mkstemp` | `MakeTemp` |
| `made` | after `mkstemp`, before the `try` | `CloseTemp` |
| `get` | `requests.get` | `RequestAnswered`, `RequestFails` |
| `stream` | `_stream_to` | `AcceptChunk`, `RefuseChunk`, `StreamEnds`, `StreamBreaks` |
| `landed` | after the download, up to `os.replace` | `RefuseManifest`, `ManifestPathOccupied`, `PlaceManifest`; `RefuseDownload`, `PlaceAsset` |
| `cleanup` | the `finally`, with an exception on its way out | `Unlink` |
| `pin` | `expected_manifest_sha256` | `PinRefused`, `PinAccepted` |
| `asset` | `_resolve_asset`, the loop | `AssetPathOccupied`, `KeepAsset`, `RefuseAsset`, `DownloadAsset`, `Finish` |

An exception inside the `try` (`InTry`: from `get` to `landed`) goes to `cleanup` (`Raise`); anywhere
else it ends the call as it stands (`Leave`). `Kill` and `Interrupt` may happen at any `pc` but `idle`,
and `FileOperationFails` wherever the code calls the file system. A kill leaves the temporary file.
So does an interrupt or a failing operation between `mkstemp` and the `try`, and in the `finally`
before the file is unlinked; one inside the `try` goes through the `finally` (`Strike`). The host is a choice: a request fails, or some
body is served, and a prefix of it arrives in chunks of any length up to `ChunkBytes`. A step is
one file-system call another process can come between. Reading and checking a temporary file is
one step with its `os.replace`, as nobody else knows its name. An asset's look-up and its
replacement are different steps, with the whole download between them.

Auxiliary variables: `before` (the directory at the start), `accepted` (every manifest placed) and
`found` (the assets at whose paths something was when a call began).

### Verification, reading, the system

`SnapshotVerify` has `vpc` with one point for each look at a path; `SnapshotRead` a result that
is kept and opened later; `SnapshotSystem` interleaves them with `SnapshotFetch`. `promised`
remembers which fetch had returned when a verification began.

### Validation and continuity

`SourceValidation` runs the checks of `_run_checks` in order, one action each, over a frame with
its columns, kinds and cells; `Usable` and the early exits are the code's. Differences are
`Int64` (`Wrap`). `SnapshotContinuity` extends it: the frame is the whole history or its first
`row_count + 1` rows, and `CheckSeams` follows the checks; `entry` says which function was called,
and is `"validate"` for a caller of `validate_source_frame` alone. A history may have columns the
profile does not declare: no check looks at them, and a history that passes may have them.

### Windows

`WindowResolution` has the demands of `resolve_schedule` and the emit grid shared by both
implementations. `WindowReference` is the oracle: scan all candles for each tick. `WindowEngine`
is the engine: a stable sort, two binary searches, a rolling aggregate per tick. `Windows` is a
call of either: `Resolve`, `ExtractCandles`, `ResolveRange` or `ResolveWarmup`, `Build`, with
the refusals at each. `WindowContract` states the answer by comprehension over the caller's
rows, with no order, no sort and no search.

A cell may be null or NaN. The oracle compares and adds cells one by one, and a null stops it with
a bare `TypeError` (`RaiseOnNull`); polars' aggregates pass over it, and carry a NaN. The contract lets
a call raise that has such a null in a window, and leaves open only that column of that
window: its other columns, its counts and every other window are still promised.

### Steps over window frames

`FrameQuality`, `FrameAnnotations` and `FrameReturns` have what each step computes of a frame and what
it demands of one; `FrameSteps` has a caller who makes the steps in any order. Each action is a whole
call, from its demands to the frame it returns, and a refused call leaves the frame alone. A policy is
given as it was written: one from before there was a threshold of trading has none (`TradedDemand`).
`ApplyQualityPolicy` has an action for each mode and one for each way of failing: a policy that cannot
be made (`RefusePolicy`), columns that are missing (`RefuseUnmeasured`) and an offender with no close
time to name it by (`CannotReport`: `int(None)` raises `TypeError`, in every mode). The values a step
adds are kept in each row's `added`, so that a row stays recognisable: the rows of a history the caller
begins with are any of `WindowRow`, with nulls in any cell and close times of `Int64`. `ReadAnnotations`
reads a file, one row past the caller's cap at most, into a `sidecar` that is joined later, beside
sidecars of the caller's own.

A return is the *pair* of prices it is taken of: the formulas are floating-point arithmetic, and
of them the model has only when they have a finite value. Look-ahead is a property of two runs:
the same calls are made on `frame` and on `known`, its rows that had closed by `Now`.

### Phased lookbacks and indicators

`PhasedGrid` has the demands of `resolve_phased_grid` and the ticks it emits. `PhasedLookback` is a
call of either implementation: `RefuseGrid` or `ResolveGrid`; then, for `phased_lookback`, one
`JoinPhase` for each phase and one `MaskIncomplete` over all of them, and for
`phased_lookback_reference` one `AssembleTick` for each tick and `AssembleFrame`. A row's cells
identify it, so a wrong window shows. `Lawful` states what must be accepted without measuring
a cadence as the code does: one of the commonest steps must measure every step, the window, the
emit cadence and the anchor; that the code looks only at the least of them makes no difference,
which the run shows and reading does not.

`PhasedIndicators` is a caller who adds indicators, one `AddIndicator` a call, to the answer
(`KeepAnswer`) or to a record of the caller's own (`BuiltByHand`, an initial state: the record is a
public type, and `has_missing_input` is there for it). A reading says whether it is `null`; one that
is not is the lists it is computed from beside its value, which `IndicatorReadings` computes as `values` does in the four modules: lists reversed,
differenced, packed and sliced as there, aggregates that pass over nulls as polars' do.
The arithmetic is exact, a value a fraction; rounding, logarithms and the refusal of overflowing
intermediates are left out.

### Schedules

`DurationText` has the text of a duration as the sequence of its components, `ScheduleArithmetic` the
exact arithmetic of generators and of `_resolve_emit`, `ScheduleRecords` what a constructor demands and
what `to_dict` and `from_dict` make of a record. `Schedules` is a caller of all of them:

| `pc` | the code it stands at | actions |
|---|---|---|
| `idle` | nothing made | the six generators (`MetallicRecurrence`, ..., `LogSpacedLookback`), `Explicit` and its like, `BuildByHand` (the constructors are public), `NamedSchedule`, `AskRule` |
| `recur` | the loop of `recurrence_values` | `AppendTerm`, `PassMaximum`, `RefuseSlowGrowth` |
| `resolve` | the loop of `resolve_values` and what follows it | `ResolveValue`, `RefuseNothingLeft`, `RefuseAllExcluded`, `FinishGeneration` |
| `made` | a record at hand | `PairWithItself` (a `w_over_k` of its own windows), `ToDict` |
| `written` | a payload somewhere | `Respell`, `RestateRatio`, `Change`, then one of the four `from_dict` |

Windows, horizons and periods share the code and the actions; a record's `role` says which it is, and
decides the keys, the text and the demands. The recurrence is exact rational arithmetic, as it is in
the code. The points of a ladder are computed with 50 digits: here an interior point is any multiple of
`1 / PointDen` next to the exact one, so that what holds does not rest on their last digit. An id is
the hash of the record's contents, and is the contents here. Reading looks at the keys, the kind, each
value, the constructor and then the id, and the order does not matter, as nothing is kept of a refusal.

## 4. The runs

Each passing run asks one question of one instance; every action of the modules fires in some
passing run.

| run | instance | checks |
|---|---|---|
| `fetch_alone` | one caller, two calls, both policies, with and without a pin, a host that may also serve manifests to be refused; directory missing, empty, a file, or holding the right file, a wrong one, or a non-file at either kind of path | coherence of the call (the cap with it), no temporary file left that a `finally` could remove, the result is what was asked, REFUSE, and that every call ends |
| `fetch_pair` | two callers, one call each, a release re-cut under its tag | types, only verified bytes land, resolved paths stay verified, a REFUSE call changes nothing that was there when it began, the directory implements `SnapshotStore` |
| `system_found` | a fetch, a verification and a reader over eleven directories as they may be found | an `ok` stands, verification ends |
| `system_refetch` | two fetches of a re-cut release, a verification and a reader, from an empty directory or one with a history in it; one manifest misstates that history's length, and only keeping the file can resolve it | fetched is then verified as itself, or always refused for the misstated length; an undisputed frame is of verified bytes |
| `source_checks` | every frame of up to four rows over twelve instants at cadence 3, phase 1, in words of 28 instants, so that one step wraps to a cadence; two-row frames with every kind of bad column; gap cap 1; every history of up to four rows against every statement of one to three | complete grids, true gap findings, no missing candle unreported, a history passes exactly when faithful |
| `frame_steps` | any three calls, readings of five annotation files under five caps among them, over some hundred frames: windows that meet a bar, miss it or state nothing in every pattern, and odd ones (no price, no close time, inverted, out of order, repeated, holes, missing columns) | filters keep the passing rows, reports state their verdict, overlaps are of the union of all the intervals there are, values are the full history's, nothing looks ahead |
| `phased_indicators` | either implementation over frames of every set of closes among six instants, frames lacking one cell, and odd ones (unsorted, repeated, null times, a wrong span, a missing column); windows of 2 and 3 seconds, every small schedule and unusable ones; then two indicators, also of 88 records built by hand: lists with nulls or of a wrong length, and prices that rise, fall, stay and gap in every way over four windows | the answer is the promised one, nulls are the history's, readings read whole windows and have the value of their indicator's definition |
| `schedules_round` | some 600 requests to the six generators around ties, bounds and a cap of 11 terms; as many for cadence rules; 75 lists, pairs and records by hand, refused ones among them; each written, edited in every way of one step, and read by all four readers | members are the endless recurrence's, named points stay, no answer is refused by its own constructor, emit cadences are the promised ones, grow with the window and are taken by the engine, records read back, changes are noticed, every generation ends |
| `windows_contract` | every frame of up to three rows in any order over seven instants, sorted frames of four, frames with a null or NaN in any column; aligned, shifted, tumbling and overlapping schedules; ranges, warmup and refusals | both implementations implement `WindowContract`; coverage is time; warmup ends at the first full window |

### Bounds, and why they are enough

* *Callers and calls.* The hazards of the directory need one caller and one other: a step that
  is undone needs somebody to undo it. Two calls of one caller cover what a later call finds of
  an earlier one. `MaxCalls` and `MaxChecks` appear only in the guards of `Start` and
  `StartVerify`; the theorems hold for any value of them and for any set of callers.
* *Bodies.* Two manifests of one tag with different bytes for one asset and the same for the
  other, one manifest of another tag, and `bogus` for every byte string nobody declares, longer
  than any cap. Sizes of 1 to 3 and chunks of up to 2 let a body arrive in several chunks, be
  cut off inside, and overrun. `fetch_pair` keeps what its two callers tell apart: the two manifests
  and what they declare, of one byte each, so that a temporary file is empty before it is whole; its
  callers are interchangeable, and the run takes them so (`SYMMETRY`; it checks no liveness). `selfish` and `lavish` are manifests by shape and none by content.
* *Rows.* Each check of validation looks at one row or two neighbours; four rows hold a gap
  between two rows that are fine, two gaps against a cap of one, and a duplicate beside a gap.
  At cadence 3 and phase 1, the instants -1 to 7, 10 and 13 hold steps below, at and above the cadence,
  on and off the phase, and gaps of one, two and three candles; -12 is a wrapped step from 13.
* *Windows.* Windows of one, two and three candles, cadence 2 so that off-phase opens exist,
  emit cadences equal to and below the window; four candles so that a window has candles before
  and after it. Prices identify rows, so that taking a wrong row for open or close shows.
* *Steps.* Three calls allow two filters and then a value, or a value before and after one.
  Windows of 4 seconds every 2 and a threshold of 2/3 put the exact threshold between two whole
  seconds. Close times have 5 bits, and the last of five cannot be moved on by a horizon of 4,
  so that a shift that would wrap is tried; horizons of 2 and 4 give an excursion an interior.
  The cadence stated to a call is the frame's own: a column's name does not include it, and a
  filtered frame can be a complete grid at a coarser cadence that the caller states wrongly.

* *Schedules.* Grains of 1, 4 and 10 against bounds of 9, 10, 12, 20 and 62 put a tie on a bound, a
  seed below its own floor, and terms past the maximum that round back to it. `MaxTerms` stands for the
  code's 512 (`MAX_RESOLVED_WINDOWS`) and is 11, the length of the registered schedule; the slow
  recurrence with coefficient 1/2 meets it at 11 and at 12 terms. The reference for a recurrence looks
  `MaxTerms + 3` terms ahead. One edit is enough to distinguish payloads: the id covers all contents.
* *Phases.* Six instants allow a gap in every place of a lookback of three, frames more hole than
  grid, ties between commonest steps, and steps, windows and emit cadences that divide one another
  or do not. `MaxLookback` 3 stands for the code's 512 (`MAX_LOOKBACK`), with 4 as the first refused.
  Two additions let an indicator be added twice, or two be added to one record.

### Fairness

`FairSpec` assumes `WF_vars(Step(f))`: a call that has begun keeps running. The code justifies it: reads
of the network are bounded by `timeout_seconds`, a file-system call returns, and no call waits for
another. Nothing obliges anyone to begin a call, to kill one, to interrupt one or to make its file operations
fail, so `Start`, `Kill`, `Interrupt` and `FileOperationFails` have no fairness. `FairSystemSpec` assumes the same of a verification's steps, and
`FairSpec` of `Schedules` of a generation, which is one call that waits for nobody: it ends because the
cap bounds the terms. Under these `EveryCallEnds` and `EveryVerificationEnds` hold because a call never
goes back: each chunk lengthens the temporary file, each asset leaves `Remaining`.

Deadlock is not checked: callers whose calls are over may simply make no more, and the bounds on
calls make that a final state; the sequential modules end with their answer.

## 5. Where the code and its words differ

Three runs expect a violation; the finding in `PROJECT.json` quotes the text.

| run | what happens |
|---|---|
| `stream_breaks` | a connection that breaks during the body raises `requests`' own exception out of `fetch_snapshot`: only `requests.get` is inside the `try` of `download` |
| `shared_refuse` | two REFUSE calls of a release re-cut between their manifest requests: the second replaces the asset the first placed, for the path was looked at before the download |
| `reread_frame` | bytes put in place of a history between the fetch and the reading come back as that result's frame, unhashed |

Met while modelling, and without a run of their own:

* "On any failure the temporary file is removed" (`fetcher.py:7`): `mkstemp` and `os.close` come before
  the `try` (`fetcher.py:427` and 523), and an interrupt there, an `os.close` that fails, or an interrupt
  in the `finally` before the `unlink` leaves the file. `NoTempAfterReturn` excepts these, and a kill;
* a file already there is kept on its digest alone, and the result reports the manifest's
  `size_bytes`, which nobody compared with it (`fetcher.py:471`, against `fetcher.py:86`); a
  verification of that result then refuses it (`FetchedThenVerified`);
* a policy's `min_traded_seconds` of 0 "admits everything" (`quality.py:234`): a window that states no
  traded seconds misses it (`quality.py:680`), as the module's own introduction has it;
* a null `close_time` on the first offending row raises `TypeError` out of `apply_quality_policy`
  in every mode (`CannotReport`), where only the package's own errors are documented;
* a timestamp column of text, or a NaN at an end of it, reaches `int()` in the seam checks and
  raises `ValueError` (`continuity.py:325`, `BoundsNotNumbers`), where a continuity error is
  documented (`continuity.py:172`);
* a frame that states some but not all open times makes `resolve_phased_grid` sort a null among
  numbers for its message: `TypeError` (`frames.py:336`, `UnsortableSpans`), not `ConfigError`;
* `_require_regular_grid` is documented to take the smallest step as the cadence (`frames.py:257`) and
  takes the commonest (`frames.py:304`): a frame that steps by 1, 2 and 2 is refused, although its
  smallest step divides them all;
* `cadence.py:204` calls `source_cadence` "the floor no resolved cadence may fall below"; the
  constructor of a rule (`cadence.py:353`) asks only that a cadence is in the allowed set, so a rule
  built by hand or read back may emit below it, which `PairsResolve` therefore asks of resolved rules;
* an `ExplicitLookbackSpec` records periods of its own, and nothing compares them with the schedule's
  (`lookback.py:556`): a record whose parameters and members differ is accepted, written and read back;
* `reference.py:183` says that the engine "carries the null into `volume`": it sums each slice with
  `Series.sum()` (`engine.py:645`), which passes over nulls, and reports the volume of the others;
* highs and lows are said to be, beside a null, "the maximum and minimum of the rows that remain"
  (`tests/test_windows/test_engine_equivalence.py:627`): where none remains, what is reported is the
  neutral `-inf` or `inf` of the tick's own row (`engine.py:565`), not a null;
* `cadence.py:24` explains rounding down by "rounding up would emit more often than the caller asked
  for": a greater cadence emits less often, and it is rounding down that emits more often;
* the two excursion columns are said to be "always null on the same rows" (`primitives.py:719`);
  under the logarithmic formula a lowest price at or below zero makes one of them null alone, so
  `ValuesAreTheHistorys` asks it of simple returns only.

## 6. What is proved

TLAPS checks every step; nothing is assumed but the named `ASSUME`s of the modules (types of the
constants, and what the constructors of the code refuse). TLC evaluates those in every run.

**`SnapshotFetchProofs`**, for any callers, jobs, manifests, sizes and initial directories. The
type invariant is not inductive by itself: that `cur[f]` is a name the manifest declares, and
hence that its cap exists, depends on no asset being resolved before a manifest is placed.
`CallsAreCoherent` adds, for each `pc`, what a call knows there; each action is shown to keep it
for its own call, `OthersUntouched` and `AcceptedGrows` give it for the others. From it follow
the cap, the rightness of results, and `TempIsRemoved`: which of the steps that end a call may leave
its temporary file. The properties of the disk
rest on one lemma, `HowAStepChangesTheDisk`: a path changes only by `PlaceManifest` or
`PlaceAsset`, to whole verified bytes, by a call whose manifest was accepted. From that follow
`VerifiedBytesOnly`, `ManifestReadable`, `ResolvedIsStable`, and
`DirectoryIsAStore`, the refinement of `SnapshotStore`. Of REFUSE, `shared_refuse` refutes for two
callers that it never overwrites; two weaker promises hold. `RefuseKeepsItsWordAlone` has it for a single
caller. `RefuseSparesFound` has it among any number for what was there when the call began, since no step
of anybody empties a path (`NothingIsRemoved`), so that the call still finds the path taken when it looks
(`FoundIsSpared`).

**`SnapshotSystemProofs`**: a step of the system is a step of a fetch or leaves its variables
alone (`SystemFetches`), so the theorems above carry over. `SystemKnows` says what verifiers and
readers know; `VerificationIsStable` adds that what a verification has checked stays as recorded
while no manifest with another record is placed (a path changes only to bytes of an accepted
manifest, and all of those agree); `FramesAreVerified` and `FetchThenVerify` follow the same way.

**`SourceValidationProofs`**: `ChecksSoFar` says, for each stage, that every defect an earlier
check looks for was reported or is absent. At the end it gives `PassedFramesAreComplete`, with
no bound on rows; `GapFindingsAreTrue` needs the order that the early exits ensure (`InOrder`).
Rows 2^63 seconds apart can make a difference that wraps to look regular. The second assumes `NoWrap`;
the first needs it only at a cadence that divides 2^64, for at any other a row across the wrap is off
the phase (`PhaseCatchesTheWrap`). `NoAbsenceIsMissed` needs more than soundness: `RowsSoFar` says that
as long as no row was found fault with, each row check that has run saw nothing and the gap findings are
exactly those of the reported gaps. Then an absent instant lies between two neighbours whose step is a
multiple of the cadence, which is one gap, and its finding is the one that covers it or is cut off by
the cap after earlier ones. `OnlyTheStatedHistoryPasses` is the composition with `SnapshotContinuity`, in
both directions: of a faithful history nothing is found (`FaithfulIsClean`), and a history nothing was
found of has, row by row, the timestamps its manifest states, and no row after those that were read. It
assumes a cadence below 2^63 seconds, which is what the code can compare a difference of `Int64`s with
and more than the constructor of a profile asks. `ChecksHoldUnderAManifest`: the three promises above,
of the validation that runs inside the continuity check.

**`WindowsProofs`**: `TicksAreOnTheGrid`, from the arithmetic of `%` up, for every schedule and
frame, either implementation, and both ways of resolving ticks: the anchor reduced modulo the
emit cadence describes the caller's grid, and one test of one tick stands for all.
`SortIsStable` is what the engine's binary searches presuppose.

`BothImplementTheContract` is the refinement of `WindowContract`, in which a call's answer changes once,
from none to one the contract allows. `CallSoFar` says what a call holds at each stage: the frame
arranged as its maker arranges it, then the contract's ticks, then an answer as `Promised`.
  * *Which calls are answered*: what `resolve_schedule` demands is what the contract calls a legal schedule
    (`LegalIsResolvable`), and the ticks of a range or of a warmup, sought between two bounds, are the
    contract's, which searches nothing.
  * *The oracle's row* (`OracleRowIsTheWindow`): its loop over the candles is a function of their number, and
    that it has, after each candle, accounted for just the contained ones among those is shown by induction
    over a set of indices (`UpTo`). Where a null cell stops it, the contract lets the call raise.
  * *The engine's row* (`EngineRowIsTheWindow`): the candles it holds are the caller's rows under a
    permutation in the order of open times (`Places`), so the contained ones are a contiguous slice, which
    the two searches delimit (`SliceIsTheWindow`). Differences of prefix sums are then counts of the slice,
    the start of the tied run that ends the slice is its earliest row, whose close the contract reports,
    and the rolling aggregate reaches just the slice.

No order of rows and no repetition is excluded. A cell is an integer, null or NaN, and the neutral extremes
are beyond every price (`MakerAssumption`): they stand for `-inf` and `inf`. `CoverageIsMeasured` and
`WarmupEndsWhereItCan` follow from the contract for both implementations: over a validated frame the
candles are a cadence each and disjoint, so those inside a window span as many seconds as it reports, a
window of full coverage is one whose every second is covered, and the ticks begin at the first of them.

**`FrameStepsProofs`**, for histories of any length, in any row order, with nulls, repeated close times
and missing columns. `LeastPassingIsExact`: the whole second `_least_passing_seconds` rounds up to
decides every count of seconds as the exact fraction would; `OffendersMissABar`: the offenders are
the rows that fail to state a measure reaching either bar.
  * The rows: `RowsSoFar` says that the frame lists, upwards, the history's rows that passed every
    policy, and `known` those of them that had closed. Columns leave that alone (`GrownShows`), a filter
    drops just the rows that no longer pass (`FilteredShows`, `WithoutKeepsTheOthers`). In
    `PoliciesKeepThePassing` a row's place is the number that passed before it, which a list that goes
    upwards takes by counting (`PlacesList`). `ReportsStateTheirVerdict` follows from the same threshold.
  * The values: a column of a step is old, and then as it was in the row it came from, or new. A new
    return's counterpart is found by close time, so it is the history's whatever rows are missing
    (`CounterpartIsTheHistorys`), unless the shift wrapped, which `RepresentableShift` excludes
    (`ShiftsAreExact`). A new excursion reads rows by position: on a total grid the k-th following row is
    the one k cadences on (`GridSteps`, where a difference that wraps around to a cadence would leave
    no room for the horizon), so the rows that follow are the interval, whole (`IntervalIsFollowing`).
    `ValuesStayTheHistorys` assumes `CallsStateTheCadence`: a call's `cadence` is the frame's, as
    its documentation has it ("The cadence the frame's rows are emitted at"); it is a hypothesis
    because the code cannot tell: a filtered frame can be total at a multiple of its cadence. For the same
    reason the property speaks of excursions in histories that are on one grid (`OnItsGrid`).
  * Look-ahead: `NothingIsReadAhead` needs no such hypothesis. A row of `known` is a row of `frame`, its
    counterpart is there if it had closed (`CounterpartsAgree`), and on a total grid `known` is a prefix of
    `frame` (`KnownIsFirst`), so that the rows a complete interval reads are in both (`ExtremaAgree`).
    That a call which is refused on the frame's part of a group of columns is refused on all of it needs an
    invariant, `Together`: of the columns one call adds, all were added to `known` or none.
  * Overlaps: `AnnotationsCountTheUnion`, for annotation files and sidecars of any length (their bounds are
    `Int64` or null: `SidecarAssumption`). After each of the sorted intervals the merge holds disjoint ones in
    order that cover what those read so far cover, by induction over the index; then the shares of a window,
    added up, are the number of its seconds in any of them, as each share is of seconds no other has.
    `AnnotationsSoFar` remembers which intervals each column was joined from, and that what was read of a
    file is all of it or was refused at the cap.

**`PhasedProofs`**, for any frames, requests and records: `LookbackSoFar` says that what the joins have
gathered is, phase by phase, the row of cells joined at each tick, and what the scan has gathered is,
tick by tick, the lists of that tick. `LookbackKeepsItsPromise`: a cell joined is the cell of the one
window that closes there (a time that is repeated was refused), masking one incomplete phase nulls the
tick's every list as the scan does, and `Lawful`, which asks that some commonest step measures everything,
is what the code tests of the least of them. `NullsComeFromTheHistory`: an instant of the lookback that is
neither a close nor before the first lies between two neighbouring closes, and it is a whole number of
cadences from the earlier of them, because the anchor, the emit cadence and the window are.
`IndicatorsReadWholeWindows` adds to it `ChainSoFar`: a record not built by hand is the lookback's answer,
and each column is the reading of its record.
`IndicatorsReadTheirDefinitions`, for lists of any length: a sum taken of the reversed or of the packed list
is the sum of the lags, by induction over its length; the true ranges, which the code takes of two slices, are
those of neighbouring lags; a median's middle elements are those with as many others at either side, by
counting ranks; and the denominators are positive, so that an RSI lies between 0 and 100 and a
logarithm is taken of what has one. `ChainAssumption` says that lists are sequences or absent and that cells
are integers or null: the arithmetic is exact, and integers stand for the numbers that are exact in the code.

**`SchedulesProofs`**, for any requests, rules, edits and cap. The inductive invariant `SoFar` says
what is known of the terms, of the values kept and of the record at each `pc`. That no generator's
answer is refused by its own constructor (`ConstructorsAgree`) needs the values kept to be ascending
multiples of the grain within the bounds, and no more of them than the cap: the loop holds the cap
before it adds its last term, and there is room for that term because the seed comes twice. The
cadence a rule gives is the promised one (`EmitsAreThePromised`), grows with the window
(`EmitsGrow`), and the engine accepts every pair of a resolved rule (`PairsAreResolvable`): least and
greatest elements of the allowed set carry these, from the least element of a set of naturals.
`SchedulesAreTheSequences` and `NamedPointsStay` need `ValuesSoFar`, that the terms are the first of the
recurrence up to the one past the maximum, or a ladder from bound to bound, and `MembersSoFar`, that what
is kept is, in order, every value so far within the bounds. The recurrence never falls after its seed and
quantizing is monotone, so no term past the one generated last rounds to a value within the bounds that an
earlier one did not give. That the recurrence exists, as a function of its index, is shown by
its least counterexample, as the library's theorem on recursive functions takes an operator.

What is written is covered by four theorems. `FormatParsesBack`: the text of a number of seconds, its
components from the largest unit down with the zeros left out, parses, and to that number; the limit on the
digits of a duration is left out. `IdentityIsInjective`: two records that are accepted and have one id
are one record, of one role; the hash is taken to be collision-free. `WrittenIsReadBack` and `NoChangeIsTaken`
rest on the invariant `RecordsSoFar`: the payload has the id of the record it was written from, and as long as
its contents were only respelled or its ratio restated, its reader makes the record of it again. Whatever
else was changed, a reader that takes it has derived the id of what it read and found it equal, so by
injectivity it read the record there was. The records a caller may have built are any with the fields of
their kind (`IsArtifact`).

**`ManifestParsingProofs`**: `ParsedManifestsAreFetchable`, that whatever a host serves, what
`parse_manifest` accepts is as the fetch and continuity modules assume of a manifest; it assumes only
that what is decoded as an integer is one.

Recursion is written as functions of an index (`f[n] == ... f[n - 1] ...`), and what they compute is
proved by induction over sets: a set that has the first index and with each the next has all of them
(`UpTo`, itself shown by the least element that is missing). The library's induction theorems take an
operator as a parameter, which none of the installed provers can instantiate.

Only model-checked:
* liveness under fairness (`EveryCallEnds`, `EveryVerificationEnds`, `EveryGenerationEnds`) and anything
  with ENABLED, which the prover does not handle;
* the findings of section 5, which are counterexamples;
* that the states the theorems speak of occur: the passing runs fire every action, and a mutant of the
  code breaks every property.

## 7. What is not modelled

* String formats (tags, revisions, URLs, canonical JSON, feature names, messages), the limit on the
  digits of a duration, the HTTP library behind the transport, and the CSV parser: no state, no order,
  and no property here is about wording.
* Floating-point arithmetic of returns, rounding and logarithms of indicators and their refusal of
  what is not finite, the rounding of sums of volumes, and infinite prices. A
  logarithmic return of a price ratio at or below 2^-54 is null in the code for rounding alone,
  and stated in the model.
* What a CSV file parses into, and the constructors of durations: what they let through is assumed of
  the constants (`StepsAssumption`).
* The parsing of a CSV file, and the probe for an empty one before it: the frame validation starts from
  stands for what they hand over. What the constructor of a source profile refuses is assumed of the
  constants (`ProfileAssumption`).
* A crash of the operating system with unwritten buffers: the code calls no `fsync` and promises
  nothing about it; `os.replace` is taken to be atomic, as its documentation says.
* Calendar fields, and the order in which `parse_manifest` makes its demands: one error type, and
  nothing is kept of a refusal.
* The floating-point `limiting_ratio` of a schedule (what it is computed from stands for it), the upper
  limit on a coefficient, and `dedup`, of which there is one rule.
