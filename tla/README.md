# Inkbite: specification, model checking and proofs

Inkbite turns a document (file, bytes, reader, data URI or URL) into Markdown
and a sealed envelope of facts, warnings and artifacts, under a policy of
limits. This directory specifies the parts of it that are hard to test: what
happens to one request's budget, its errors, its references and its warnings
when conversion nests, falls back and runs concurrently; how untrusted bytes are
read; and what an envelope that was handed out, stored and reloaded is worth.

Paths are relative to the repository (`src/` in `PROJECT.json`). "spec.md" is
`kitty-specs/inkbite-ingestion-contract-01M0M3HW/spec.md`.

## The system

| Part | State it keeps | Operations | Interacts with |
|---|---|---|---|
| Request budget (`internal/ingestion/budget.go`) | seven counters under one mutex, immutable limits | `AdmitSource`, `AdmitPrimary`, `AdmitArtifact`, `EnterContainer`, `LeaveContainer`, `AdmitContainerEntry`, `Snapshot`, `RemainingExpandedBytes` | every acquisition, converter and the sealing step, through the context |
| Bounded reading (`internal/ingestion/bounded.go`) | the accepted bytes of one read, a scratch buffer | `OwnBounded`, `ReadBounded` | every reader of untrusted bytes |
| Source acquisition (`source.go`) | a watcher goroutine per closable reader | `acquireSource`, `readSourceBounded` | bounded reading, remote acquisition |
| Remote acquisition (`internal/ingestion/remote.go`) | redirect count, pinned addresses, body watcher | `AcquireRemote`, `readRemoteBody` | resolver, transport, bounded reading |
| Dispatch (`ingestion.go`, `engine.go`) | attempts, warnings and failures of one conversion; the registered converters | `Ingest`, `Convert*`, `RegisterConverter` | all converters |
| Container converters (`converters/zip`, `converters/epub`, `internal/ooxml`) | member loop position, names seen, one level of container depth | open, preflight, read, admit, leave | the budget; the zip converter calls `Engine.Ingest` again |
| Sealing (`ingestion.go`) | drafts, numbers, the envelope | `sealIngestionEnvelope` | the budget, the verifier |
| Verification (`ingestion_verify.go`) | none | `VerifyEnvelope` | the sealer, and any host that reloads an envelope |
| Metadata canonicalisation (`internal/ingestion/sanitize.go`) | none | `CanonicalArchivePath`, `CanonicalLogicalName`, `NewFact`, ... | converters, sealing |
| Components manager (`internal/components`) | files under the components root, a JSON configuration | install, doctor, list | file system, child processes; other invocations of the program |
| Command line (`cmd/inkbite/main.go`) | a conversion goroutine and a timer | `convert`, `components ...` | engine, components manager |
| Document converters (pdf, docx, pptx, xlsx, epub) | none beyond one call | `Accepts`, `Convert`, `ConvertDetailed` | bounded reading; the members of a package and the relationships between them (`internal/ooxml`) |
| Text-like converters (text, csv, html, ipynb, rss, xls) | none beyond one call | `Accepts`, `Convert` | bounded reading |

A request creates one budget and puts it in the context. Everything below the
request charges that ledger: the acquisition of the source, every container
member at every nesting level, every artifact, the rendered Markdown. A
converter may call the engine again with the same context, and a host may use
one request's context from several goroutines, so the ledger is shared.

What is hard about each part, and what makes it correct:

- *Budget.* Preflight, read and admission are separate critical sections, so a
  check can be stale when it is used; int64 sums can wrap around; depth is the
  only counter that is ever given back. Correct: no limit is passed, a refusal
  changes nothing, depth counts exactly the open containers, and a request that
  fits is never refused.
- *Dispatch and containers.* Errors of members cross several levels of nesting
  and fallback on their way up. Correct: terminal failures stay what they are,
  nothing is dropped in silence, cancellation beats success, every walk ends.
- *Nested requests.* Each member of an archive is a request of its own: its
  Markdown is taken over, its artifacts are not, its failures become warnings or
  end the archive, and its warnings get a place on their way up. Correct: every
  member is shown, empty or reported, under its name, and a request fails only
  for something in the source that calls for that failure.
- *References.* Converters, and the text of documents, refer to artifacts by
  number. Correct: a reference in an envelope leads to an artifact of that
  envelope, and to the one it was written for.
- *Documents.* Lines become tables by a loop of loops; slides, notes and chapters
  are found through relationships and manifests. Correct: no line is shown twice,
  none of plain text is lost, every part is shown, empty or reported.
- *Reading.* A watcher goroutine closes a reader somebody else owns, racing with
  the end of the read. Correct: whole streams or none, at most one byte past the
  limit, the reader is handed back, a cancelled read returns.
- *Sealing and verification.* Artifacts are sorted and renumbered while the
  Markdown still uses the converter's numbers; the sealer must agree with a
  verifier that knows nothing but the envelope. Correct: references keep their
  meaning, an envelope stays valid, damage shows, there is one canonical order.
- *Names.* A name may be encoded several times over, and is compared, checked and
  shown in different forms. Correct: however often a location is decoded, it stays
  inside the archive, and no two members share one.
- *Remote acquisition.* Redirects are followed by hand, each hop is admitted
  anew, and resolver and servers may change their answers in between. Correct:
  only what was admitted for a hop is contacted, the chain is bounded, every body
  is closed, what is delivered is the last reply, a failure is what it says, and
  a fetch ends.
- *Components.* Invocations share a directory and a configuration without a lock,
  replace files in place, and may be killed. Correct: what is selected is there
  and was tested, an undisturbed command does what it reports, a successful
  installation repairs what came before.
- *Intake.* What a source says of itself, what the caller says of it and what its
  bytes look like are merged field by field, and recorded field by field
  elsewhere. Correct: what routes the conversion is what is on record, hints win,
  and a source is refused for what it is.
- *Command line.* With a timeout the conversion runs in a goroutine that nobody
  waits for. Correct: the command ends whatever the source does, the goroutine is
  not left blocked, an output is touched only by a conversion that succeeded, and
  the exit status tells whether all of it was written.

`PROJECT.json` lists the hazards one by one, each at its line, with the
properties that cover it.

## Modules

| Module | Models | Built on |
|---|---|---|
| `RequestBudget` | every method of `RequestBudget` as an operator from the ledger it locks to the ledger it unlocks and the class of its error | |
| `RequestLedger` | the budget as a service: any method, any argument, in any order | `RequestBudget`; implements `CappedMeter` |
| `CappedMeter` | abstract: amounts that stay under caps, of which only some may fall | |
| `Conversion` | what a converter answers: a class of error, or parts, artifacts and warnings | |
| `PdfDocument` | `pdf.go`: layout of lines, fate of images, the three forms of conversion | `Conversion` |
| `PackageLinks` | `internal/ooxml`: relationship parts as `Open` checks them and as they are read later | `Conversion` |
| `OfficeDocument` | `docx.go`, `pptx.go`, `xlsx.go` | `PackageLinks` |
| `Book` | `epub.go`, from the container to the chapters | `Conversion` |
| `Pipeline` | one request through the converters: dispatch, the zip converter with a request for each member, sealing | the five above, `ArchiveNames` |
| `PipelineProperties` | what such a request promises | `Pipeline` |
| `ContainerWalk` | goroutines that convert archives on one ledger: dispatch, open, member loop, nested `Ingest`, deferred leave, cancellation | `RequestBudget`; implements `CappedMeter` |
| `WatchedRead` | `ReadBounded` and `OwnBounded` with their buffers, `readSourceBounded` and `readRemoteBody` with their watchers | implements `Acquisition` |
| `Acquisition` | abstract: one decision about a whole stream | |
| `RemoteFetch` | `AcquireRemote`: redirects, admission of destinations, registry of addresses, replies, classes of errors | reads the body as `Acquisition` allows |
| `Envelope` | the envelope and what `VerifyEnvelope` accepts | `RequestBudget` (the limits) |
| `Seal` | `sealIngestionEnvelope`, from the converter's result to the envelope or an error | `Envelope`; implements `Sealing` |
| `Sealing` | abstract: everything is delivered or nothing is, for a reason that holds | |
| `Custody` | a host that stores, damages or renumbers an envelope and verifies it again | `Envelope` |
| `ArchiveNames` | `CanonicalArchivePath` and `safePublicText`, for the names of members | |
| `SourceIntake` | `runIngestionPipeline` up to dispatch: `acquireSource`, `acquireURI`, the facts, `enrichStreamInfo` | reads as `Acquisition` allows |
| `ConvertCommand` | `runConvert` and `runConversion` around one conversion, or a library call | `SourceIntake` |
| `ComponentsManager` | installations and doctor as processes on one file system, with failures and kills at every step | |
| `*Proofs` | the theorems about the module of that name; `CommandProofs` has those about `SourceIntake`, `ConvertCommand` and `ComponentsManager`, `PipelineProofs` those about `PipelineProperties` | |
| `MC*` | small instances for TLC | |

How state and actions correspond to the code:

- **RequestBudget.** The ledger record is `BudgetSnapshot`; each method body is
  one critical section of `b.mu`, hence one operator and, where it is used, one
  step. Integers are int64: `Int64Add` wraps, and the guard of `checkedAdd` is
  part of the model. The float `MaxExpansionRatio` is a fraction.
- **ContainerWalk.** `stack[w]` is the Go call stack of a walker, one frame per
  nested `Ingest`; `pc[w]` names the next lock, checkpoint or read. An action is
  the code between two points at which another goroutine can be noticed.
  Archives come from a catalog; a member says what is declared, what is really
  there, whether it is sound and what its content does. zip, epub and the OOXML
  packages differ in the order of their checks, and the model keeps the order.
- **Pipeline.** The source is a forest of documents, an archive before what it
  holds; `stack` is the stack of `runIngestionPipeline` calls, a frame with the
  attempts and fallbacks of `dispatchIngestion` and, once the zip converter has
  begun, the variables of its member loop; `answer` is the result on its way to
  the caller. One step is one converter that declines or answers (`Decline`,
  `Attempt`), the loop for one member up to its ingestion (`Member`), what becomes
  of the member's result (`Answered`), or the end (`Pack`, `Exhaust`); what wins is
  sealed in the same step (`Sealed`). Markdown is a sequence of parts, each tagged
  with the document it shows; a reference is a part with a number and, if a
  converter wrote it, the image it is meant for. Converters a host has registered
  do to a document what its `whims` say.
- **PdfDocument.** A line is the widths of its columns. `Layout` is
  `layoutToMarkdown` as a function of the place in the text, `Retained` the images
  that can be had, in the order of pages.
- **PackageLinks, OfficeDocument, Book.** A package is a function from paths to
  what its parts hold, with its `.rels` parts, and a path a sequence of segments,
  so that `Resolved` is `path.Join` with its `.` and `..`. What decides is kept:
  whether a part parses, is blank, has a body; which relationship a slide is named
  by; where the links of a part lead. `findNotesPath` takes the first match of a
  map, hence `PptxConversions` is a set.
- **WatchedRead.** `mode` selects the four ways the code reads: owned bytes,
  plain, with a source watcher, with a remote watcher. The caller, the reader
  and the watcher are three processes; `closes` counts calls of `Close`.
  A stream is its size, its ending (EOF, failure, never, or an answer that
  breaks the `io.Reader` contract) and whether it yields when it is closed.
- **RemoteFetch.** One call of `acquireURI`; `pc` names the place in the loop,
  `url`, `redirects` and `config` are the function's variables. An address is
  its bits, whether they are wrapped into an IPv4-mapped address, and whether
  netip's own predicates find it an ordinary unicast address; a rule of the
  registry is a prefix and a verdict. A URL is its host and what `parseRemoteURL`
  and `safeHostname` say of it. `answer`, `exchanges` and `open` record what was
  looked up, contacted and left open. The reading of the body is one step that
  may end in any way `Acquisition` allows, which is what `WatchedRead` implements.
- **Envelope.** A byte slice is a record of content, length, presence and backing
  array. Looks, occurrences and facts are numbers, compared as the strings they
  stand for are: equal or not, in some total order, safe or not.
  `Before` orders keys by length first, as `canonicalTuple` does not; only that
  it is a total order matters.
- **Seal.** `heap` is every backing array, `Clone` is `cloneExactBytes`, one action
  per phase of the function, `Draft` once per artifact, the three checkpoints and
  error returns where the code has them. Occurrences of `inkbite-artifact:` in
  the Markdown are tokens that open properly or not, are well formed or not, and
  carry an ordinal. After the call, `Scribble` writes to the buffers the caller
  and the converter still own. The budget checks are `RequestBudget`'s.
- **Custody.** The host is not in the repository; its acts are external and
  follow `test/acceptance/retained_ingestion_test.go` and spec.md SC-001, SC-005.
- **ArchiveNames.** A symbol is a class of characters with the number of times it
  is percent-encoded; `Form(name, n)` is the name after n rounds of decoding.
- **SourceIntake.** `call` is one request: the kind of source, its stream, what it
  says of itself (`own`), the caller's `hints` and what `http.DetectContentType`
  finds. The tables of `mime` and `net/http` are constants. `stage` is the place in
  the pipeline, `facts` is `resolved.facts`, `info` the `StreamInfo` the converters
  see; `Unsafe` are the values `NewFact` rejects. The reading of the source, the
  remote fetch and dispatch with sealing are one step each, as the modules above
  establish.
- **ConvertCommand.** `main` is the command, `worker` the goroutine, `done` the
  channel. `Select` may take either case when both are ready. `Expire` is the timer,
  or the cancellation by a library's caller. `sink` is how much of the Markdown has
  been written: `os.WriteFile` and the standard output may fail half-way.
- **ComponentsManager.** A process runs one command and takes one step per call of
  the file system or of a child process. `disk` has the parts of each bundle: a
  file with its creator, which tells a file from one that was removed and made
  again, and the pieces that are in it. A write is two steps, truncating and
  filling. `Fail` is any call that fails (a missing python or directory, a
  failing pip, a self-test), `Crash` a kill. `Runs` is what the helper does when
  it is called: an empty script counts as success, since only the exit status
  is looked at (main.go:421-434). `found`, `before`, `alone` and `passed` are history.

## Runs

`tlc -workers 2 -config <cfg> <module>`; the names are those in `PROJECT.json`.

| Run | Configuration | Shows |
|---|---|---|
| `ledger` | `MCRequestLedger.cfg` | any sequence of budget calls: atomic refusals, the capped meter |
| `shared_walk` | `MCContainerWalk.cfg` | two goroutines on one ledger, cancelled at any point, every archive of the catalog: the capped meter, exact depth and charges, sticky failures, requests that fit are not refused, and every walk ends, an archive that contains itself included |
| `watched_read` | `MCWatchedRead.cfg` | the read with its watcher implements one decision about the stream; cancelled reads return, caller and watcher never deadlock |
| `remote_fetch` | `MCRemoteFetch.cfg` | redirects anywhere and changing answers: admitted destinations only, closed bodies, the last reply, failures with a cause, a fetch hangs only on a server that is silent when there is neither timeout nor cancellation |
| `seal` | `MCSeal.cfg` | sound conversions in every order and one conversion for every defect |
| `custody` | `MCCustody.cfg` | one or two damaged fields, or one misplaced object, never verify unnoticed; exactly one numbering of the same artifacts verifies |
| `pipeline` | `MCPipeline.cfg` | documents of every modelled kind, alone, in an archive and in an archive in an archive: the first able converter wins and the record tells of the others, references resolve, members, slides, notes and chapters are accounted for, locations stay inside, tables are runs of rows, and a request fails for something in the source |
| `nested_artifacts` | `MCPipelineNested.cfg` | finding: a PDF with an image makes its archive impossible to ingest |
| `convert` | `MCConvertCommand.cfg` | every kind of source, with and without a timeout: routing is on record, failures have a cause, the exit status tells what was written, commands end and leave no goroutine blocked |
| `charset_hint` | `MCConvertCommandHint.cfg` | finding: a guess replaces the caller's charset |
| `components` | `MCComponentsManager.cfg` | three commands, two at a time, with failures and kills: the selected component is complete and tested, undisturbed commands keep their word |
| `failed_reinstall` | `MCComponentsManagerRetry.cfg` | finding: an installation that fails breaks the working component |

Bounds, and why they are enough:

- *ledger:* `MaxInt64 = 7`, limits 1 to 3, arguments from -2 to 3 and 7 itself:
  every limit is reached and passed, and every addition can wrap around.
- *shared_walk:* two walkers, since the ledger is the only thing they share and a
  race needs two; limits of six entries and six bytes, which two walks can use
  exactly or exceed; depth three with archives nested three deep. All pairs of
  seven archives that interact through the ledger in different ways, one that
  contains itself among them; and each of the catalog's archives (wrong sizes,
  wrong ratios, collisions, bad names, unreadable containers, truncated members,
  converters that decline after reading) next to one no converter accepts.
  The run checks liveness too, so it takes no symmetry.
- *watched_read:* chunk 2 and limits -1, 0, 1, 2, 5 (below, at and above the
  chunk, more than one chunk), streams of 0 to 7 bytes with every ending.
- *remote_fetch:* two names, and a registry of two nested prefixes over addresses
  of two bits: one address under the umbrella, one under the exception, one in no
  rule but private, one ordinary, two of them wrapped. Redirects are bounded by
  one, or by a default of two, so that a chain can come back to a host whose
  answer has changed. Bodies of 0, 1 and 2 bytes around a limit of one, with
  every ending and lengths that are absent, true or false.
- *seal:* up to three artifacts, the least number in which a permutation differs
  from its inverse; two looks, two contents (in three buffers), two occurrences;
  references in other orders. Three artifacts, four bytes in all, two in one and
  three of text are the limits, so each of them binds.
- *custody:* `MaxDamage = 2`. Three coordinated changes (bytes, identity, output
  identity) do make another valid envelope: identities are not signatures, and
  the bound is where that begins. Renumbered: up to three artifacts that come
  from the source or from one another, all orders.
- *pipeline:* names of up to `Lengths = 4` of four classes of characters, which is
  enough for a letter, separators and `..`, each encoded up to `Coded = 2` times
  over, with `MaxDecodeRounds = 1` (16 in the code), so that the rounds run out; all
  pairs of eight names easily taken for one another, as files and directories.
  `Lines = 4` lines of no, one, two or three columns with `MaxTableWidth = 2` (8 in
  the code): two runs of rows next to each other, rows that start no table, tables
  that are too wide. `Images = 3` of every fate in every canonical order, one more
  than `MaxArtifacts = 2`; three are the least whose permutation may differ from
  its inverse, which `seal` covers with a limit of three. Text that quotes
  artifacts 1 to 3 in documents that have up to two. Presentations of two slides
  with up to two candidates for notes; packages with one link of every target,
  form and mode; books with each defect. Three converters of a host, before all
  others, level with zip and after all, which decline, convert or fail each way.
  Archives are nested three deep, since a warning changes on the first two levels
  and not after them.
- *convert:* limits of two bytes, and one for replies, against streams of 0 to 3
  bytes with every ending, for every kind of source that can be opened or not; and
  one short stream with every combination of hints (absent, good or rejected), of
  what the source says of itself and of what the content looks like. Two media
  types, charsets and extensions tell the winner of a merge from the loser.
- *components:* `MaxActive = 2` processes at a time, since every race is one of two;
  a third command comes before or after, so that a crash can be repaired or be
  examined. One bundle of each provider: two processes share a bundle or only
  the configuration. Processes are symmetric; the run checks no liveness.

`CHECK_DEADLOCK FALSE` is set for the two runs of `MCPipeline`, whose requests
end. `Seal`, `WatchedRead` and `ContainerWalk` end in states with steps of their own
(writing to buffers, or an explicit idle step).

Fairness. `shared_walk` assumes that a goroutine which can take a step
eventually does (weak fairness of each walker's step), as the Go scheduler
guarantees: no step of a walk blocks on another walker. `watched_read` assumes
the same of the caller, the watcher and the reader; a reader that hangs is
never scheduled to answer and is ended by its `Close` only if it `yields`.
`remote_fetch` assumes that the call keeps running, that a lookup comes back
(`acquireURI` passes no resolver, and `net.DefaultResolver` gives up by its own
time limits), and that `client.Do` comes back once the context has ended or a client
with a timeout is used (`GivenUp`). Of servers it assumes nothing: an exchange may
stay unanswered and a body may stay silent for ever. `FetchReturns` excepts just
these two, and only when there is neither a timeout nor a cancellation (`Hung`), as
with `WithHTTPClient(&http.Client{})` under a context that never ends.
`convert` assumes that the command keeps running, that a goroutine with a result
to deliver does, and that the timer of `context.WithTimeout` fires; of the
conversion it assumes nothing, so that `TimedCommandReturns` holds of a source
that never answers too.
Nothing assumes that a caller ever cancels.

## What is proved

TLAPS checks the following for every value of the constants. Liveness, and
everything not listed, is model-checked only.

- `RequestLedgerProofs`: `LedgerSafe` (types and limits), `RefusalIsAtomic`,
  `LedgerImplementsMeter`. The facts about single calls are in
  `RequestBudgetProofs`: each call either refuses without effect or charges
  within the limits and lowers nothing. They rest on `ValidLimits`, which is what
  `validateLimits` (budget.go) admits; the central lemma is `CheckedAdd`.
- `ContainerWalkProofs`: `WalkSafe`, `DepthIsExact`, `WalkImplementsMeter`,
  `TerminalFailuresStick`, `CancelledNeverSucceeds`, `NoChargeIsLost`,
  `FittingIsServed`, for any number of
  goroutines, any catalog and any limits. The limits alone are not inductive:
  to know that `LeaveContainer` succeeds one needs that depth is the number of
  open containers, for that that frames open and close one at a time, and for
  that the types of stacks. `WalkInv` is that conjunction. Each action has an
  effect lemma (what it does to one walker and to the ledger), and the
  invariant and the action properties are derived from those. `NoChargeIsLost`
  needs `ChargesInv` besides: a charge is recorded with its place in the walk, and
  a walker's places only move forward, level by level in attempts and members, so
  that every charge on record lies in the walker's past (`Past`) and the next one is
  new. That the sum over a set grows by what is added is not immediate, since
  `MapThenSumSet` chooses an order: two orders give one sum, by the least
  counterexample. `FittingIsServed` says that a request whose walks ask for no more
  than the limits is refused nothing. What they ask for (`Asked`, `Depths`) is given
  by the places of the archives that nest in what is ingested (`Places`), so that it
  can be compared with what has been charged, admission by admission: `FitInv` says
  that each walker is at one of these places in the first attempt, and that only
  what is asked for has been charged. The next charge is asked for and, by
  `ChargesInv`, not made yet, so there is room for it (`RoomForOneMore`), at the
  preflight as well as at the admission; and the open containers are fewer than the
  levels asked for (`DepthIsLeft`). That the recursive `Places` exists and is finite
  is by the least counterexample once more.
- `WatchedReadProofs`: `ReadIsBounded`, `ReaderIsHandedBack`, `CancellationWins`,
  `ReadImplementsAcquisition`, for every limit, chunk size and stream. The
  invariant adds to the footprint bound the byte accounting (accepted plus
  pending plus left is the stream), what an answer says about the stream, and
  who has closed the reader; the refinement follows since every result on its
  way is one `Acquisition` allows.
- `PipelineProofs`: `FirstAbleWins`, `ReferencesAlwaysResolve`, `NoMemberIsLost`,
  `NoPartIsLost`, `EveryTableIsOneRun`, `PlacesAreInside`, `FailuresAreCaused`, for
  any converters with any priorities, any documents, images, canonical keys and
  nesting; and `LinksLeadToParts`, for every package.
  `RequestInv` says of each pipeline on the stack that what it remembers is what the
  converters before the current one answer, and of the answer on its way up what
  the first two theorems claim, in a form that no longer mentions the stack. It
  rests on three facts. Sorting by counting what comes before (`InOrder`) puts each
  member of a finite set at one place and lists them in order (`InOrderLists`, from
  cardinalities alone), for the converters and for the artifacts alike. Every
  converter's answer is `Sound`: it tells the artifact each of its references is
  meant for, and all that a converter may answer to one document has one class
  (`ConversionsSound`). And warnings that come up from members have a place, so that
  none passes for a fallback of the archive's own dispatch (`Placed`).
  `CareInv` is the invariant of the other two. Each pipeline that unpacks an archive
  has seen to the members before the current one: what they lead to is accounted
  for in its parts and reports, harms nothing, and is in reports with a place
  (`FrameCare`). An answer with an envelope accounts for all that its document leads
  to; a failure has its cause there (`AnswerCare`). What a document leads to
  (`Under`) is the least set that is closed under unpacking; on a forest it is what
  the recursive `Reached` computes from the root (`ReachedIsUnder`, by the least
  counterexample).
  `ShownInv` says that an envelope of a document that is no archive shows, part by
  part, what the converter that decided makes of it; what is then left is about
  conversions alone. For `NoPartIsLost` it is that links and manifests lead to parts
  in order. For `EveryTableIsOneRun` it is what `Layout` shows from each line on, by
  the greatest counterexample: it goes from one stretch of lines to the next, and a
  stretch is either plain lines or the longest run of rows.
  `PlacesInv` says that each place on record is an admitted name, trimmed. That such
  a name stays inside when it is decoded as often as one likes (`AdmittedStays`) is
  shown on its safe form, where every segment leads down and no decoding can make a
  slash appear; decoding and the counts of `StaysInside` are folds, and the least
  counterexample takes the place of induction.
- `RemoteFetchProofs`: `EveryDestinationAdmitted`, `EveryChainIsBounded`,
  `OnlyTheFinalRepresentation`, `EveryBodyIsClosed`, `EveryFailureHasCause`,
  `NothingAfterCancellation`, for every registry, resolver, server and
  configuration. `FetchInv` adds to the properties what each place of the loop
  has established (`Gates`), that there is one exchange for each redirect and one
  more once there is a reply (`Counts`), and that the last exchange led to where
  the call is (`Trail`). The lemma `RegistryIsMostSpecific` shows that keeping the
  longest match so far gives the verdict of the most specific rule, whatever the
  order of the table.
- `CommandProofs`, about the components manager: `SelectionIsSound`,
  `LoneCommandsAreTrusted`, for any number of processes, bundles, failures and kills.
  In `ManagerInv`, whatever part of a bundle is not whole somebody is to blame for
  (`Accounted`): an installation that still has to bring it (`Owes`), or one that
  ended without, with no successful one begun after it (`Unsettled`). For a process
  that met no other (`LoneOK`) what it has brought so far is still there; that needs
  what holds of scripts and environments whoever wrote them (`ScriptsHold`,
  `VenvsFit`).
- `CommandProofs`, about the conversion: `RoutingIsOnRecord`, `RefusalsHaveCause`,
  `ExitStatusTells`, for every source, hint, table of types and limit, and any moment
  of the timer. `ConvertInv` says what each stage of the intake has decided
  (`IntakeInv`), that before sniffing the routing is what the source and the caller
  say and nothing else (`RoutingInv`), and what the command and its goroutine have
  told each other (`CommandInv`).
- `EnvelopeProofs`, about sealing: `SealLasts`, `ReferencesMean`, `SealImplementsSealing` (and the types,
  `SealTypes`), for every conversion, every set of buffers and limits. `SealInv` says
  that each draft is a faithful copy of one artifact of the conversion in a store of
  its own, that after rewriting every token names the draft of the artifact it named,
  and that the envelope shows those stores as they are. Stores beyond the owners'
  are never written, hence the first two theorems.
  For the refinement `StageInv` adds what each stage has settled: what the drafts
  so far cost is on the ledger (`Metered`), sorting has moved every draft and
  lost none (`Arranged`, `Covered`), the references that were rewritten were whole
  (`Written`). Each refusal is then traced to the conversion (`StartDecides` to
  `DeliverDecides`). The longest part is that the verifier agrees
  (`VerifiesWellFormed`): what is assembled verifies exactly when the conversion
  was well formed. That rests on facts about the verifier's operators: finite
  sequences of keys can be sorted (`CanBeSorted`); a strictly increasing
  sequence has no key twice, and a sorted one that is not strictly so has
  (`IncreasingKeys`); an artifact with one relation to the source has one order key,
  before it is numbered and after (`ContentKey`), so that the verifier finds the
  order the sealer made; and identifiers, stores and totals are what the sealer
  counted (`IdentifiersVerify`, `OwnershipVerifies`, `TotalIsPaid`).
- `EnvelopeProofs`, about custody: `OrderIsOne`, `AnOrderVerifies`, `TwoFaultsShow`, for every set of
  envelopes of the v1 shape, contents and number of artifacts. A verified envelope
  numbers its artifacts by their places, so that a reference keeps its meaning when
  it is moved along (`MeaningsMove`); the relations of a moved artifact are sorted
  anew by text, but their keys are what they were, and sorting the same keys gives
  the same list (`SameWhenOrdered`). So the order key of an artifact is the same
  wherever it is written down (`KeysStay`), although it is a fold over the keys of
  its relations; and only one arrangement of a list increases strictly
  (`OneIncreases`). That there is an arrangement needs the converse, that a key tells
  what it was made of: a flattened key is read back part by part (`FlatShows`,
  `KeysTold`, `RelationTold`), so artifacts with one order key have one sense, that
  is, look alike and come from things that look alike (`SenseTold`). Where the senses
  differ the keys do (`KeysApart`), and different keys can be put in strictly
  increasing order (`CanIncrease`). Numbering the artifacts by it, as a host may,
  leaves the rest of what the verifier asks for as it was: its relations, sorted
  anew because `artifact:10` comes before `artifact:9` as text, increase strictly, no
  two having one text (`TextTold`, `TurnedIncreases`), references resolve (`ResolvesMove`), and totals,
  provenance and the ownership of bytes move along (`TotalMoves`, `ProvenanceMoves`,
  `OwnershipMoves`). For tampering, the identity of an object is on record three
  times, in its bytes, in the object and in the provenance (`Copies`). `TamperingInv`
  says that one corrupted field leaves two copies where they were, that two leave one,
  and that a misplaced object leaves the provenance; an envelope in which the copies
  agree with one that stayed has the bytes it had. Three faults may fit, so
  `TamperingShows` is about one and two.

Assumptions on constants: `ValidLimits`, `CeilingAssumption` (what the sealer itself
writes as labels of the primary artifact is safe), `SealAssumption` (the source that
is sealed was admitted, ingestion.go:125-127),
`RemoteAssumption`, `ComponentsAssumption`, `IntakeAssumption`, `NamesAssumption`,
`PdfAssumption`, `RegisteredAssumption` (a converter has a name and a priority, a
built-in one a name that is modelled), `SourcesAssumption` (a source is a forest: an
archive holds documents that come after it and no document is held twice, since each
member is a document of its own; what is read as a list is one, a chapter is one
of `Chapter`, and the lines of a PDF are lists of cells), `CustodyAssumption` (what is stored has the fields of a v1 envelope, valid
or not), `CatalogAssumption` of `ContainerWalk` (a request starts finitely many
goroutines), its `ReaderAssumption` and
that of `WatchedRead`, all
checked by TLC on the instances.

Every safety invariant and every action property that a passing run checks is stated by
one of these theorems. Only model-checked: liveness under fairness, which the prover
cannot reach. What a recursion computes for every input is proved wherever one
fact about each of its steps is enough (`Layout`, `Reached`, `Total`, `OrderKey`, the
counts of `StaysInside`): the least or the greatest counterexample stands in for
induction. The demand of a nested archive is stated by sets and sums over them, so
that it needs none. A `CHOOSE` such as that of `SortedBy` is proved about by showing
that there is one.

Proofs also correct models. That of `NoPartIsLost` showed that the property spoke of
whatever converter decided, a host's included, of which nothing is known: `Decided`
now asks that it be one of the program's own.

## Findings

1. *A guess replaces the caller's charset* (`charset_hint`). When no media type is
   known, what `mime.TypeByExtension` says of the extension is merged over what is
   known, its charset included (sniff.go:13-20, stream_info.go:27-29). So
   `inkbite --charset windows-1252 notes.txt` decodes as UTF-8, and the provenance
   says windows-1252, origin caller. WP04-engine-envelope-legacy-projection.md:84
   asks to keep "caller hint precedence" and "sniff-only-fill behavior". For media
   type, file name and extension it holds (`RoutingIsAccountedFor`); that a hint of an
   extension was rejected does not keep the extension of the caller's file name from
   being used, in the code and in the property.
2. *A failed reinstallation breaks a working component* (`failed_reinstall`). The
   working bundle is removed first and the new one tested last, in the same
   place (install.go:65-104, install_paddle.go:43-112). INKBITE_TASKS.md:494 asks to
   "fail clearly without corrupting a previous working install". The component
   stays selected and incomplete until an installation of it succeeds.
3. *One PDF with an image makes an archive impossible to ingest*
   (`nested_artifacts`). Members are ingested in detail, so the Markdown of such a
   PDF refers to `inkbite-artifact:artifact-000001`; the zip converter takes over
   that Markdown and returns no artifacts (zip.go:169-207), and sealing the archive
   then finds no artifact of that number and fails with an integrity error
   (ingestion.go:313-320, 420-423). "Converter recursively processes supported
   files inside ZIP archives" (zip.go:30). Through `Convert` the same archive
   succeeds and keeps a reference that nothing resolves; INKBITE_SPEC.md:168 lets
   references resolve only inside the same envelope.

Observations no run is spent on:

- *Names that are admitted and cannot be shown.* A slash after a bracket, quote or
  comma, as in `Photos (2020)/scan.bin`, is fine for `CanonicalArchivePath`, but
  `safePublicText` takes what follows the bracket for an absolute path
  (ingestion_verify.go:648-661). If the member cannot be converted, its warning makes
  the sealed envelope fail its own verification, and the archive is lost instead of
  degraded (zip.go:74-75). A book with a chapter missing in such a directory, and
  slides whose notes are a URL with a query, are lost the same way.
  `IngestFailsForCause` names it among the causes.
- *Text that reads like a reference.* After a space, a bracket or a quote,
  `inkbite-artifact:artifact-000002` is taken for a reference wherever it comes from.
  In a document with two images it is renumbered with the others; in one with fewer
  the ingestion fails (ingestion.go:391-429), which concerns documentation of this
  very feature. The ruling kept with the code (`WP07-pdf-derived-artifacts/arbiter-ruling.md:28-36`)
  tells tokens by the characters around them alone, and yet wants the prefix in
  "ordinary extracted prose" left as it is.
- *Notes by map order.* Of several links under `notesSlides` a slide shows one, and
  which one depends on Go's map iteration (pptx.go, `findNotesPath`), so that one
  file has several envelopes; NFR-001 (spec.md:122) asks for one.
- *What is passed over without a warning:* rows of a PDF that make no table
  (pdf.go:723), elements of a Word document's body other than paragraphs and
  tables, slides whose relationship is missing. FR-016 asks that degradation be
  reported.
- A relationship that says `TargetMode="Internal"`, which is what the standard
  takes for granted, makes the package unusable (package.go:265-324).
- A warning of a member's member is shown with the name it has in the inner
  archive, without the outer one's.
- The epub converter charges every member to the request before it finds that the
  archive is no EPUB and declines (epub.go:163-171); the zip converter then charges
  the same members again, so `LedgerIsSumOfCharges` counts charges and not members.
- Without an argument the command passes `os.Stdin` on, which is an `io.ReadSeeker`:
  on a pipe `Seek` fails and the conversion is refused (main.go:153, source.go:82),
  which `IntakeFailuresHaveCause` admits as its cause.

## Abstractions, and what is not modelled

- SHA-256 is injective; strings are compared, not built. Rendering of Markdown
  is a result class, a length and its artifact references.
- Attempt records, component and backend labels, the echoed policy and the
  contract version of the envelope; `verifyContract` and `verifyPolicy`.
- What the text of a URL or the headers of a reply say is an attribute of the
  URL or left out; the ports, and the pinning inside the transport's dialler,
  are one step of `RemoteFetch`.
- Declared sizes are natural numbers, of which `ContainerWalk` calls those beyond
  the limit a limit failure; the code calls those beyond `MaxInt64` an integrity
  failure (zip.go:233, epub.go:335). Only the class of that refusal differs.
- `Pipeline` leaves budgets, cancellation and checkpoints to `ContainerWalk`, byte
  limits to both and to `Seal`, and the steps of sealing to `Seal`; of sealing it has
  what the documents can bring about: the numbering of artifacts and references, and
  locations that may not be shown. Warnings are a set; attempts are a sequence.
  A built-in converter accepts the documents of its kind: what `Accepts` makes of
  types and extensions is `SourceIntake`'s outcome. A host's converter writes no
  references. The images a legacy conversion writes into the text are given in the
  order it sorts them in, by page and name (pdf.go:420).
- `TablesAreRuns` compares the paragraphs and tables of a layout as a set: it sees
  what is shown and in what company, but not the order, nor a block shown twice.
- Of a PDF, splitting a line into columns and decoding an image are where the model
  starts; an image that several pages share is one image. Entries of an archive that
  are not regular files are refused like names that are not admitted, and the name of
  a directory is given without its trailing slash. The keys by which packages tell
  names that differ in case are part of `sound`. Of a URL in a relationship the first
  segment is the host.
- Text-like converters, Markdown normalisation and charset decoding format one value
  and keep no state: the text converter stands for them. The reading of a workbook
  is a library's. Defaults and ranges of a policy (`policy.go`) are checks of single
  fields. Of the command line, listings and versions are left out; the OCR bridge is
  one external process; the packaging script is a release tool.

## Plan

*Done:* `RequestBudget`, `RequestLedger`, `CappedMeter`, `ContainerWalk`;
`WatchedRead`, `Acquisition`; `RemoteFetch`; `Envelope`, `Seal`, `Sealing`, `Custody`;
`SourceIntake`, `ConvertCommand`; `ComponentsManager`; `ArchiveNames`, `Conversion`,
`PdfDocument`, `PackageLinks`, `OfficeDocument`, `Book`, `Pipeline`. Proofs about all
of them.

*Left:* `verifyContract` and the labels of an envelope; what
`parseRemoteURL` and `NewFact` decide about a text.
