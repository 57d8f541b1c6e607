# A verification project for burlmd

burlmd is a Flutter editor over a Rust core. The user edits *Notes*, Markdown files
in a *Workspace*, a directory that is also a Git repository and that other tools may
change. The core keeps unsaved work in an encrypted SQLite database, writes the
files, commits them, keeps a search index and pushes to a remote.

This directory holds TLA+ models of the parts where the order of events decides
whether work is kept: what is checked by TLC, what is proved by TLAPS, and what the
code and its documents disagree about. Paths below are relative to `src/`; the files
named without one are

* in `rust/src/`: `workspace/persist.rs`, `workspace/lifecycle.rs`, `api/ffi_api.rs`,
  `sync/scheduler.rs`, `git/operations.rs`, `markdown/parser.rs`, `markdown/spans.rs`;
* in `lib/src/`: `components/editor.dart`, `components/lifecycle_actions.dart`,
  `providers/note_providers.dart`, `providers/workspace_provider.dart`,
  `screens/workspace.dart`, `design/workspace_shell.dart`.

## 1. Inventory

### Components

| Component | State it keeps | Operations | Correct when | Model |
|---|---|---|---|---|
| Note persistence (`persist.rs`) | per session: source, spans, `edit_seq`, revision, flags, idle deadline; the `drafts` row; the file; HEAD | `open_note`, `update_block` and the structural edits, the idle timer, `flush_note`, `reload_note`, `close_note` | an acknowledged edit survives a kill; foreign bytes are never overwritten unseen; unwritten work is written or an error is shown; a close commits | `NoteSession`, which implements `DurableNote` |
| Session registry, write locks, lifecycle gate (`persist.rs`, `lifecycle.rs`, `ffi_api.rs`) | registry, lifecycle lock, gate and leases, per-session write and tier 1 locks | `with_lifecycle_lock`, `with_write_locks`, edit leases, `carry_session_forward` | no edit inside an operation, no write of a retired session, no deadlock | `LifecycleGate` |
| Sync scheduler (`scheduler.rs`) | command channel, debounce, poll and retry deadlines, backoff, status, last error | `start`, `notify_activity`, `stop`, `run`, `run_sync_cycle` | each commit is attempted; the report is true; stop ends | `SyncScheduler` |
| Lifecycle operations (`lifecycle.rs`) | journal of file moves and writes | create, rename, move, delete of Notes and directories | all or nothing on failure; files, index and commits agree afterwards, also after a kill | `Lifecycle`, `Index` |
| Link rewriting (`links_rewrite.rs`, `okf/links.rs`) | none | inbound links of a batch of moves, relative destinations of a moved Note | every link names the Note it named, nothing else of the text changes | `Links`, `Lifecycle` |
| Session snapshots (`session_snapshot.rs`) | saved tabs of a Workspace | save, restore, validate | a restored tab names a Note that exists | planned |
| Bootstrap (`bootstrap.rs`) | data directory, registry of Workspaces | create, resume, open | an interrupted creation can be resumed | planned |
| Database (`db/connection.rs`) | process-wide connection, schema version, active Workspace with its cached root | open, migrate, `with_connection` | a statement finds the schema it was written for | not modelled |
| Git (`operations.rs`) | HEAD, `.git/index`, worktree, remote | `commit_paths`, push, pull and merge | no commit lost to a concurrent one, what the user staged stays staged | `GitRepository` |
| Index (`index/*`) | `notes`, `notes_fts`, `fts_mapping`, `links`, `directories` | incremental write, scan, queries | incremental equals scan, every row is reachable, the tree shows every Note | `Index` |
| Markdown engine (`markdown/*`) | none | parse, spans, splices | map and tree agree, no byte is in two Blocks, a splice touches its Block only | `SpanMap`, `NoteParser`, `CommonMark` |
| Block editing (`persist.rs`, `editor.dart`) | source, spans, focused field, phantom, insertion slot | insert, split, continue, merge, delete, replace a range | the field is its Block, the rest of the Note keeps its bytes | `BlockEdits` |
| OKF (`okf/*`) | none | ids, frontmatter | conversions | ids and destinations in `Links` |
| Authentication (`api/auth.rs`, `security/keyring.rs`) | OAuth flow through a browser, keychain entries | start, complete, cancel | one outcome per flow | not modelled |
| Note providers, lifecycle actions, tab strip (`note_providers.dart`, `lifecycle_actions.dart`, `workspace*.dart`) | tabs, active and selected Note, retained sessions, open and close queues, gates, saved tab ids | select, close, close all, exit, restore, rescan, submit an operation | no session without an owner, a late answer never displaces a later selection, an exit is granted over nothing open | `NoteTabs` |
| Search and preference providers | request generations, expanded Directories | query, toggle | a late answer is dropped | not modelled |
| Widgets, screens, design | focus, selection, layout | | | not modelled: presentation |
| Generated bindings, scripts, builder | | | | not modelled: generated, tooling |

### How they interact

* The Dart isolate calls the core over a bridge. Calls marked `#[frb(sync)]`
  (`update_block`, `commit_block`, the structural edits, `note_write_status`) run in
  the isolate, one at a time. The others (`open_note`, `flush_note`, `reload_note`,
  `close_note`, the lifecycle operations) run on worker threads, in parallel.
* Each session has at most one idle thread, which writes the file when the deadline
  passes.
* Locks are ordered lifecycle, write (tier 2), tier 1, state, connection. Only the
  write, tier 1 and lifecycle locks are held across I/O, and an edit holds only
  tier 1 and a counted lease.
* A close commits and notifies the scheduler over a channel. The scheduler pushes,
  or pulls, merges and re-indexes; a merge changes Notes' files as a guest does. No
  production path registers a scheduler at this commit (`persist.rs:3101`), so its
  module models the component, not a running program.
* A lifecycle operation holds the lifecycle lock, shuts the gate, waits for leases,
  takes all write locks, changes files and rows, and exchanges the sessions.

### What is hard

`PROJECT.json` lists each hazard at its line with the properties that watch it:
statements that run outside the state lock and race the timer; a rollback that acts
on what it read before; a clear that must not remove newer work; a kill between any
two of row, rename, clear and commit; a close overtaken by an open, a second close
or a rename; a set of locks computed from a registry that changes; deadlines that
postpone each other; a report that outlives its cause.

## 2. Plan

Done, in this order: `NoteSession`, `SyncScheduler` and `LifecycleGate` with their
theorems; `Lifecycle` with its theorems; `DurableNote` with the refinement; `SpanMap` with its theorems,
`NoteParser`, `CommonMark` and `BlockEdits`; `GitRepository` with its theorems;
`NoteTabs` with its theorems; `Links`; `Index` with its theorems. To come:

1. Theorems: the selection of `NoteTabs` (`ShowsTheSelection` at rest); what the folds of
   `Links`, `BlockEdits` and `NoteParser` compute.
2. `Bootstrap`: resumption of a half-created Workspace.
3. `SessionSnapshot`, the validation of saved tabs, under `NoteTabs`.

## 3. The modules

### NoteSession

One Note over several sessions, opened one after another. A session is a record of
what its state lock guards: `buf` (the source), `seq` (`edit_seq`), `rev` (the OCC
revision), the flags of `SessionState` and the idle deadline `armed`. A text stands
for its bytes and for its hash, so a revision is a text; `Hash` maps an absent file
to the empty text, as `open_note_serialized` does with no bytes to hash.

A step is what one thread does between two points where another may step: one
critical section, one statement, one file operation. Per call:

| Code | Actions |
|---|---|
| `open_note_serialized` 782-901 | `OpenRead`, `OpenInstall`, `OpenRefused` |
| `update_block` 1009-1085 and the structural edits 2204-2317 | `EditInstall`, `EditDraft`, `EditDraftFails`, then `EditRetain` or `EditUndo` |
| `idle_loop` 3007-3090 | `TimerFires`, then a flush |
| `flush_covering`, `write_locked` 2370-2512 | `FlushSnapshot`, `FlushClosed`, `FlushCheck`, `FlushWrite`, `FlushRecord`, `FlushClear`, `FlushSettle`, `FlushFails` |
| `reload` 2681-2759 | `ReloadRead`, `ReloadDiscard`, `ReloadInstall`, `ReloadFails` |
| `close_with_outcome` 2832-2939 | `CloseBegin`, a flush, `CloseCommit`, `CloseCommitFails`, `CloseClear`, `CloseRetire`, `CloseRemove` |
| another tool, a merge | `GuestChanges` (external) |
| a kill | `Crash` |

The check of a write and its rename are adjacent for the guest, since no file
system offers a compare-and-rename: what happens in that window is outside the
promise and listed as a hazard. `commit_block`, the caret and status calls change
nothing the module keeps.

`acked`, `known`, `overruled`, `foreign` and `byGuest` are history variables for the
properties: the text last acknowledged to the caller, the texts shown in a session,
what a guest overruled, and whether the file's bytes are a guest's.

Five switches keep the disagreements of section 7 from hiding the rest: `DraftFaults`
(the draft upsert may fail), `SqlFaults` (another statement may), `FileFaults` (a
file operation or a commit may), `CloseRaces` (which of edits, flushes, reloads and
closes may arrive while a close runs) and `Stragglers` (a Note may reopen while a flush of its last session
is still running).

### DurableNote

What `NoteSession` is for, in seven variables: an open, now or after a kill at any
moment, hands back the text last answered with Ok. The text moves on with the mutation
in flight (`Offer`, then `Accept` or `Refuse`) or back to the file where a reload was
asked for (`Ask`, then `Revert` or `GiveUp`, then `Show`), and nowhere else; only text
that has been on the screen reaches the file (`Publish`); a row is dropped only over
the text it holds (`Forget`); what history records was in the file (`Record`).

`NoteSession` implements it (`KeepsItsPromise`, proved in `NoteSession_proofs`) while
no other program changes the file (`MaxGuest = 0`), the draft statement does not fail
(`DraftFaults = FALSE`), a session is not closed twice at a time and not reopened beside
its stragglers; every other statement, file operation and commit fails freely, edits,
flushes and reloads arrive during a close, and the process is killed. Outside these
limits the promise is broken: by `note_lostedit`, `note_twocloses`, `note_strayclear` and
any guest.

### SyncScheduler

The worker thread with its channel. A deadline is the time left until it and
saturates at zero, as `saturating_duration_since` does. A cycle's outcomes are open:
success, network error, refused credentials, other errors, a rejected push followed
by a pull that merges, conflicts or fails, and a re-index that may fail. `late` tells
commits made during a push from those it covered; `stale` records that a merge
brought Notes the index does not describe.

### LifecycleGate

Several Notes, sessions and threads, and only what decides who may run: the registry,
the lifecycle lock, the gate and leases, each session's write and tier 1 lock, and
which sessions are closed or settled. Operations are opens, deletes and renames or
moves of any subset of the Notes; editors are `with_open_session_edit` and
`commit_block`; writers are flushes, reloads and closes. Contents are left to
`NoteSession`.

Abstractions: `with_write_locks` gives up after 64 retries, which no bounded set of
sessions reaches; a refused call changes nothing and is not a step; a destination
of a rename needs a spare session identity (`Destination`), a bound and no guard of
the code; one editor stands for the isolate, whose calls do not overlap, though
the module and its theorems admit any number.

### Lifecycle

One operation at a time over the whole bundle: `file` and `dirs` (what is on disk),
`trash` (parked entries), `index` and `dirRow` (its rows), `draft`, `session`, `head`.
A concept id is a Directory and a name; a text is a body, which stands for what a
user wrote, and at most one Link, from the root or relative to its Note (`Here`).
`index[i]` is the target of the Note's Link, or `Unlinked`. `call` holds the
arguments, `plan` is `Vec<Affected>`, `journal` is `FileJournal`, `outcome` the
answer; `pc` says which phase is next, one step per file operation, transaction,
commit or exchange of sessions.

| Code (`lifecycle.rs`) | Actions |
|---|---|
| `rename_note`, `move_note`, `rename_directory` 976-1343 | `RenameNote`, `MoveNote`, `RenameDirectory`: the checks before the plan |
| `plan_affected` 1850-2030 | `Plan`, `PlanFails`, with `Candidates`, `PlanFor`, `Touched` |
| `write_files` 2056-2080 | `WriteFile`, `FilesWritten`, then `MoveFile` and `FilesMoved`, or `MoveDir` |
| `rewrite_index` 2081-2187 | `RecordMove` |
| `apply_reidentify_locked` 1717-1778 | `Commit`, `SettleMove` (`carry_session_forward`), then `Answer` or `AnswerFails` (`settled_state`) |
| `delete_note_locked`, `delete_directory_locked`, `delete_orphaned_draft` | `DeleteNote`, `DeleteDirectory`, `DeleteDraft`, `Park`, `RecordDeletion`, `Commit`, `SettleDeletion` |
| `create_note_serialized`, `create_link_target_serialized` | `CreateNote`, `CreateTarget`, `Publish`, `RecordCreation`, `OpenCreated`, `Commit`; `TakeBack` undoes them |
| `FileJournal::rollback`, `rolled_back` | `StepFails`, `Undo`, `UndoFails`, `Undone` |
| `open_note`, an idle write, a close | `Open`, `Flush`, `Close`, one step each: `NoteSession` takes them apart |
| `reindex_workspace` | `Rescan`, `Reindex` |
| `converge`, a kill | `Init`, `Crash` |

A session writes only while the operation does not hold the write locks
(`WritesLocked`): creations take none, and a rename or move takes them after its
first checks. Opens take the lifecycle lock. Edits take a lease, which no operation
runs beside (`NoEditInsideOperation`, proved of `LifecycleGate`); unwritten work is
therefore part of the initial states, as a draft row from which an open makes a
dirty session.

Abstractions: Directories are children of the root; files that are not Notes,
symbolic links and renames that change only the case of a name are left out;
`create_directory` is one step; whether a new title changes the bytes of a Note is
left open; entries are not parked over earlier ones. A file another tool removes makes
the step that needs it fail (`Impossible`, `Undoable`), a folder gone the publication of
a new Note, for `atomic_create` makes none. `before`, `tidy`, `foreign`
and `spent` serve the properties and the bounds: `tidy` is lost when another tool
changes the bundle or when a clean-up fails and says so, and regained by a start or a
reindex. Two switches keep disagreements of section 7 apart: `AnswersFail` (reading
back a renamed Note may fail) and `RescanRaces` (a write may land in a reindex).

### SpanMap

Pure operators over a map from Block paths to regions of a source: ancestors, leaves,
document order (`spans.rs` 502, 117, 789), `Splice` (`splice.rs`), and `BufferedEdit`
(`apply_buffered_edit`, `spans.rs` 481-512), the one place where arithmetic replaces a
reparse. A source is a sequence of any elements; an offset counts elements.

### NoteParser and CommonMark

`NoteParser` is the Builder of `parser.rs` and the end of `SpanMapBuilder` in
`spans.rs`, driven by events. The events come from pulldown-cmark, a library: the module
lets it emit every well-formed stream over `MaxPos` elements, so that what holds does
not depend on how the library reads a document.

| Code (`parser.rs`) | Actions |
|---|---|
| a construct begins, 303-403 | `OpenHeading`, `OpenParagraph`, `OpenQuote`, `OpenList`, `OpenItem`, `OpenCode`, `MetadataBlock`, `StartLink`, `StartImage` |
| it ends, 405-498 | `CloseHeading`, `CloseParagraph`, `CloseContainer`, `CloseCode`, `EndLink`, `EndImage` |
| text, code, emphasis, 505-542 | `Text`, `CodeLine`, `Markup` |
| rules; HTML and other events without a Block, 303-320 | `ThematicBreak`, `Unaddressed` |
| the end of the pass, `spans.rs` 607-654 | `Finish` |

Text is counted and not spelled: two source elements render two characters, or one
where the source is not what is shown (an entity, a code span). Levels, languages,
destinations and formats are left out. `Quirks` names kinds of input that are let in
only to show the misses of section 7.

`CommonMark` is an external reading of paragraphs, setext headings, flat lists, raw
HTML and frontmatter, as `markdown/*` and the seam helpers of `persist.rs` describe it:
`BlockEdits` needs a parse of the texts it makes.

### BlockEdits

A source is a sequence of words, line endings, item markers, HTML lines and a
frontmatter block. `spans` is the session's map, which is also the tree the editor has
adopted; `focus` is the editor's field, phantom or insertion slot. Each call is one
step: drafts and writes belong to `NoteSession`.

| Code | Actions |
|---|---|
| focus and blur, `editor.dart` 755-824, 1114-1175 | `Promote`, `Blur` |
| `update_block` 1009-1085 | `Type` |
| Enter, `editor.dart` 1296-1434, with `split_block` and `continue_after` | `Enter`: `EnterAtEnd`, `Split`, `SplitSelection` |
| the first text of a phantom, `editor.dart` 1505-1592; `insert_block` | `PhantomInsert`, `Insert` |
| Backspace, `editor.dart` 1694-1740, with `merge_block_with_previous` 1930-2079 | `Backspace` |
| `delete_block` 1543-1566 | `Delete` |
| `replace_range` 2084-2160, over some Blocks or the whole Note | `ReplaceRange`, `ReplaceWholeNote` |
| `carry_session_forward` 3787-3828 with new text | `Rewrite` |

### Links and Index

`Links` is what a destination names and how the source of a Note is rewritten. A path
is a sequence of names and a concept id the path of its Note, so that Directories nest;
a body is a sequence of glyphs, since the rewriting works by offsets. What CommonMark
reads in a line is external: the line is a Link or an image spelled in one of four ways,
or prose. The parser's events (`Events`) are the set of their ranges, which nest, so that
what is open at an event is what encloses it. `ReadsAsLink` says independently of the escapes which spellings are Links.

`Index` holds the bundle, the five tables as functions and sets (`db`), the phases of an
idle write and of a scan. An operation that succeeds is one step, with all it does to
files and rows; `Lifecycle` has its steps and failures. A loop of the code over Notes or
Directories is one step over the set of them: no pass of it reads what another wrote but
the last number of the full-text rows, which nothing else depends on.

| Code | Definitions |
|---|---|
| `links.rs` 88-326 | `Classify`, `ResolveBundlePath`, `SerializeLink` and the escapes |
| `links_rewrite.rs` 63-403 | `RewriteLinkTargets`, `AbsolutizeRelativeLinks`: `MatchingLinks`, `DestinationSpan`, `Descending` splices |
| `index/mod.rs`, `incremental.rs` | `DeriveNote`, `InsertNoteRows`, `RemoveNoteRows`, `RecordDirectories`, `WriteNoteRows` |
| `scan.rs`, `ffi_api.rs` 129-137 | `ScanWalk`, `ScanRead`, `ScanWrite` |
| `persist.rs` 2576-2596 | `WriteFile`, `CompareHash`, `IndexWrittenSource` |
| `lifecycle.rs` | `CreateNote`, `CreateLinkTarget`, `CreateDirectory`, `DeleteNote`, `DeleteDirectory`, and `RenameNote`, `MoveNote`, `RenameDirectory` through `ApplyReidentify` and `RewriteIndex` |
| `query.rs` | `ShownDirectories`, `ShownNotes`, `Backlinks`, `ResolveLinkTarget`, `LinkCompletions` |

Abstractions: one Link or image to a line, an image inside a Link with no text beside
it; a text stands for its hash; YAML is a title and whether there is a type; the walk's
order and the choice a limit makes among titles are free. `tidy` says that no other
program has changed the bundle since a scan. `Shapes = {"framed"}` lets in the Link
around an image of section 7.

### GitRepository

HEAD, the commits with their trees, the index with conflict stages, the worktree,
`MERGE_HEAD`, the remote and its tracking branch.

| Code (`operations.rs`) | Actions |
|---|---|
| `commit_paths` 503-597 | `Begin` (reads HEAD), `StagePath`, `NothingToCommit`, `CommitAs`, `CommitRefused` (the compare-and-set) |
| the refresh of the index 673-741 | `OpenIndex`, `WriteIndex`, `IndexLocked` |
| `push` 813-830 | `Push`, `PushRejected`, `PushFails` |
| `pull` 842-880 | `Fetch`, `FetchFails`, then `MergeUpToDate`, `MergeApplies` and `MergeMoves`, `MergeConflicts`, `MergeBlocked`, `MergeRefused`, `MergeLocks`, `MergeLosesHead` |
| the user's git, other devices, idle writes, a kill | `UserStages`, `UserCommits`, `OtherPushes`, `Write`, `Kill` |

What git does by itself is external. `StageRaces` lets the user stage between the two
halves of an index refresh.

### NoteTabs

All of the Dart side runs on one isolate, so a step runs from one answer of the core, or
one gesture of the user, to the next. `core` is the set of Notes with a session in the
core; `ui` holds the tabs, the active and the selected Note, the retained sessions (whose
close is still owed) and the saved ids; `opens`, `closes`, `batch`, `actions` and `gates`
are the queues and what holds them.

| Code | Actions |
|---|---|
| selection, the open queue and late opens: `note_providers.dart` 409-540, 845-880 | `Select`, `OpenStart`, `OpenAnswered`, `OpenFailed`, `RetireAnswered` |
| restoration at start: `note_providers.dart` 560-709 | `RestoreAnswered`, `RestoreFailed` |
| closes: `note_providers.dart` 905-1009, `workspace_shell.dart` 635-702 | `CloseTab`, `TabClosed` |
| close all and exit: `note_providers.dart` 1029-1189, `workspace_shell.dart` 728-743 | `StartBatch`, `BatchOff`, `BatchClosed`, `BatchCancelled`, `CloseAllRefused` |
| rescan and reload: `workspace.dart` 270-362 | `Rescan`, `Reload`, `Answered` |
| operations: `lifecycle_actions.dart` | `Submit`, `Request`, then `RequestFails`, `Create`, `Delete`, `Rename`, `Redirect`, `Other`, then `ActionCreated`, `ActionRenamed`, `ActionRestored` |

An open that has been overtaken, or fenced by a close, batch, rescan or operation,
still gets its session, which then goes to the close queue; where that close fails, the
session is kept as a tab or retained.

An operation remembers what is active and selected when it sends its request, and its
answer is left without effect on the tabs where that has changed (`Expected`,
`_isExpectedSession`). Its gate turns away selections, edits and closes while it waits, but
a close that is turned away still reconciles the tabs, and with nothing active it activates
one (`workspace_shell.dart` 635-664, 728-741). So request and answer are two steps, and
gestures, the refused ones among them, come between. What the body awaits after the answer,
other than opens of its own, is one step with it. There the gate lets in only further
operations, which wait, and those refused closes, which do nothing while a Note is active;
with none active they come before the answer to the same effect.

`history.excused` is set while the last selection's open failed or was fenced: nothing then
says which Note should be shown.
`history.quirks` collects the situations of section 7 that have occurred, and a property
speaks of behaviours without those named in `Quirks`.

Abstractions: the core acts on a call when it is answered, for the queues and gates keep
two calls for one Note apart; an operation moves or deletes one Note at a time; the method
`open()` of the note provider is left out, for nothing calls it; error slots and messages
are left out.

## 4. What the runs show

| Run | Instance | Shows |
|---|---|---|
| `note_crash` | texts {e, a}, 2 sessions, 1 worker, 2 edits per session, 1 kill, statement and file faults, calls during a close; 2.6 M states | `Recoverable`, `RowBehindEdit`, and the refinement `KeepsItsPromise` |
| `note_guest` | 3 texts, 1 session, 1 change by a guest, failing draft upserts; 2.8 M states | `RowIsBuffer`, `BaselineIsDisk`, `ShownBeforeOverwritten` |
| `note_liveness` | fair, guest, statement and file faults | `EventuallyWritten` |
| `sync` | fair, debounce 2, poll 4, backoff 1 to 3, 1 queued command | `RetryArmed`, `StopBeforeDeadlines`, `EventuallyAttempted` |
| `gate_exclusion` | 2 Notes, 2 sessions, 2 operations, 1 editor, 1 writer | the exclusions and `NeverStuck` |
| `life` | 3 Directories, 2 names, 2 bundles, 1 operation, 1 change by another tool, 1 failure or kill | `AllOrNothing`, `LinksFollow`, `Settled`, `ChangesCommitted`, `WorkKept` |
| `parser` | every stream of events over 6 elements, 4 open Blocks; 1.1 M states | `SpansCoherent`, `TreeFaithful`, `CaretsResolve` |
| `blocks` | 5 Notes, 5 typed and 3 inserted texts, 2 calls that change the source; 24 thousand states | `FieldIsBlock`, `MapFits`, `RestKept` |
| `git` | fair, 2 files, one in a Directory, 1 committer, 3 commits beside merges, 1 write, 1 `git add`, 1 kill; 1.5 M states | `StagingKept`, `NothingReverted`, `HistoryKept`, `Converges` |
| `tabs` | fair, 3 identities, 2 Notes, 3 saved sessions, 4 gestures, 1 fault; 131 thousand states | `SessionsMatchTabs`, `ShowsTheSelection`, `ExitHonoured`, `SnapshotNamesTabs`, `TabsSettle` |
| `index` | 4 Notes in 2 levels of Directories with 7 Links and images, 2 operations, 1 idle write, rescans, 1 change by another program; 62 thousand states | `RowsReachable`, `TreeReaches`, `RowsMatchBundle`, `CompletionsLead`, `DestinationsFollow` |

`note_lostedit` ends in a counterexample, which section 7 explains with those of the
configurations kept beside the runs. Two
more pass: `MCNoteSession_committed.cfg` checks a guest over two sessions, without draft
faults, and adds `CloseCommits` and `StatusHonest`; `MCLifecycleGate_liveness.cfg` checks
`CallsEnd`, fair, with one session and one thread of each kind.

**Why the bounds are enough.** Two sessions in a row are what a stale row, a
straggling flush or a reused sequence number needs: the second meets what the first
left. Two edits per session give an edit before, and one during, each write; one
worker beside the two timers and the editor puts two writes and an edit in flight.
A third text is needed only where a guest's bytes must differ from both the
program's old and new ones. One kill at any point suffices since a session after a
kill starts from the row, file and HEAD alone, all of which a killed or closed
session leaves in any combination. In `SyncScheduler` the poll is longer than the
debounce and the cap is reached in two doublings, the second of which it cuts. In
`LifecycleGate` two Notes and two operations give the orders of locks a cycle needs.
`note_guest` needs one session only, since a guest's bytes meet the baseline of the
session that is open; what a second one starts from is in the configuration above.
In `Lifecycle` operations do not overlap and an operation starts from stores alone, so
one of them, from bundles that hold absolute, relative and self Links, a draft beside
its file, one without a file and one where a renamed Directory would land, meets what
an earlier one could leave; sessions open before it and write before, between its
checks and its locks, and after it. Failures and kills share a bound of one: a failure
takes the operation through its rollback, and a rollback also fails without a further
fault where the other tool has taken away what it needs.

In `NoteParser` six elements hold three nested constructs with text on both sides of the
innermost, and four open Blocks a list in an item of a list with a paragraph in it. Two
calls in `BlockEdits` are one that makes an unusual source and one that edits it; every
focus and blur between them is free. In `GitRepository` one committer races merges, the
user's commits and other devices, which move HEAD as a second committer would; three
commits let both branches diverge and one more come on top. Four gestures in `NoteTabs`
put one open in progress and one waiting, then an operation or batch, and the
selection or close that fences them; three identities are a tab, its successor and a
third that overtakes. Its safety properties were also checked with five gestures and two
faults (1.6 M states). In `Index` two operations are one that makes or vacates a
Directory and one that meets it, and each Note holds more than one Link, so that a splice
moves the next; one idle write, one foreign change and any number of scans meet them in
every order. With another Directory, Note and title the run has 204 thousand states and
passes too.

Every property of a passing run has a mutant: an operator beside the definition it
mutates, with which the property fails (`PROJECT.json`).

`CHECK_DEADLOCK FALSE` is set throughout since the program may rest: a person may
stop editing, and the worker exits. `NeverStuck` states what a deadlock would be in
`LifecycleGate`: some call in progress and no step of any call enabled.

## 5. Fairness

* `NoteSession`: calls that have begun go on (weak fairness), deadlines fire, and a
  thread waiting for a lock that is released again and again gets it (strong, for
  `std::sync::Mutex` makes no promise of order but its other takers are a person's
  calls, with free time between them). No one has to open, edit, reload or close.
* `SyncScheduler`: the worker steps and time passes; a sent command is received
  first. Nobody need commit or stop. `MaxInbox` is 1, which is a fairness assumption
  as well as a bound: `recv_timeout` returns a queued command before any deadline,
  so commits that keep the channel non-empty for ever would keep every deadline
  waiting, and with a bound of 2 `EventuallyAttempted` fails that way.
* `LifecycleGate`: as `NoteSession`; the lifecycle lock, write locks and tier 1 locks
  are granted to a thread that finds them free again and again. Calls need not be
  made and timers need not fire.

* `GitRepository`: a committer in a call goes on, a push that can run does, and so does a
  pull: the worker's poll starts cycle after cycle. Writes, commits, other devices and
  failures are free. A remote that never answers leaves the report an error again and
  again, which `Converges` admits.
* `NoteTabs`: every call to the core answers, with success or failure, and what its
  answer completes runs (weak fairness of the program's steps as a whole: each queue runs
  its head, and the isolate one event at a time). Gestures are free. That a call answers
  rests on `CallsEnd` of `LifecycleGate`.

## 6. What is proved

All theorems hold for every value of the constants allowed by the named assumptions
of the modules (that thread kinds are disjoint, that `None` is none of the values and no row,
that the backoff base does not exceed its cap, that a bundle has finitely many Notes, each
in a folder that exists); no other fact is assumed.

* `NoteSession_proofs`, with every fault, race and straggler that the module has:
  `TypesHold`, `SequencesStayInStep`, `RowStaysBehindEdit`, `RowsAreBuffers`,
  `OverwritesAreShown`.
  `RowBehindEdit`, that the upsert's own guard never drops the row of an edit about
  to be acknowledged, is not inductive: a rollback takes the sequence back, and an
  open starts from the row's. `SequencesInStep` adds that the row is never ahead of
  the open session, that an edit in flight is one above what its rollback would
  restore and level with its session, and that no open runs beside an edit.
  `CoreInv` joins to it the types and who holds which lock at each step (`LockInv`).
  `RowIsBuffer` needs that an edit in flight is in the buffer over a rollback whose text a
  row of that sequence has, and that a reload has no row left when it replaces the buffer
  (`RowInv`). `ShownBeforeOverwritten` needs that open buffers, rollbacks and the texts of
  unrecorded writes have been shown, and that the revisions they compare the file with
  were shown or missing (`ShownInv`).
  The second half of the module is about orderly use:

  | Theorem | Says | Assumes |
  |---|---|---|
  | `BaselineStays` | `BaselineIsDisk` | `~Stragglers` |
  | `StatusStaysHonest` | `StatusHonest`: what the status poll answers is never the state of an older snapshot | `~Stragglers`, `~DraftFaults` |
  | `NothingAckedIsLost` | `Recoverable` | `Orderly` |
  | `OpenHandsBack` | `OpenRecovers`: an open installs the text last acknowledged | `Orderly` |
  | `ClearsKeepNewerWork` | `ClearKeepsNewerWork`: no clear removes promised text the file lacks | `Orderly` |
  | `PromiseKept` | `KeepsItsPromise`: the refinement of `DurableNote` | `Orderly`, `MaxGuest = 0` |

  `Orderly` is `~Stragglers`, `~DraftFaults` and `"close" \notin CloseRaces`. Each part
  is needed: `MCNoteSession_strayclear.cfg`, `_lostedit.cfg` and `_twocloses.cfg` (section
  7) lose an acknowledged edit without it. Guests, kills, failing statements, files and
  commits, and every other race stay in.

  The first layer says who is at work: outside stragglers every call is for one session,
  and with one close at a time a session is retired exactly while its close removes it
  (`CallInv`, `OneClose`). `BaselineIsDisk` holds between writes only; `FreshInv` adds
  what the holder of the write lock knows at each step, the old revision before its rename
  and its own text after. `HonestInv` adds that a snapshot is the buffer or the session
  says that it has newer text. `DataInv` is the invariant of recovery. `Recoverable` says
  that the row or the file has the promised text, and is not inductive, for a thread that
  is about to clear the row must know that the file has it: a flush by what it wrote
  (`Wrote`), which is its snapshot's sequence compared with the acknowledged one
  (`Writes`), a close by the sequence its flush covered (`Covers`), even where another
  flush comes between the two (`CoverIsBehind`), a reload because it promises the file
  instead (`Reloads`). The refinement adds that without a guest a flush with no row of
  its own rewrites what the file has (`OwnInv`), and maps each action to one abstract
  step: lemmas `PromiseOpen` to `PromiseKill`.
* `SyncScheduler_proofs`: `DeadlinesTyped`, `RetryingIsArmed`, `BackoffStaysBounded`,
  `StopComesFirst`. The invariant follows a retry through the cycle that is started
  by it or in spite of it; the last theorem needs that the stop command stays in
  the channel until it is served.
* `LifecycleGate_proofs`: `TypesHold`, `EditsStayOutside`, `EditsReachLiveSessions`,
  `OperationsCoverSessions`, `RetiredSessionsRest`. The inductive invariant has
  three layers: types of a call by its program counter; who holds the gate, the
  leases and the locks at each counter (`GateHeld`, `LeaseHeld`, `WriterHolds`,
  `OperationHolds`); and what the registry holds (`RegistryFits`, `SettledGone`,
  `InHandGone`: a session an operation has taken or settled is not registered). The
  exclusion of edits needs the first two; that an edit reaches a live session needs
  that a lookup happens under the lease, outside operations, in a registry with no
  settled session.

* `SpanMap_proofs`: `BufferedEditKeepsCoherence` and `OnlyTheFieldChanges`. Resizing a
  leaf keeps every child inside its parent and other Blocks apart and in order, for
  every map with these properties and every leaf the editor may have focused. The proof
  splits on where another Block lies, an ancestor of the leaf, before it or after it,
  which coherence makes the only cases. The second theorem says that the splice and the
  shift agree: under the edited leaf is the new text, and under any other leaf, found
  through the new map, what was there. `MapFits` checks that the maps the code keeps
  satisfy their hypotheses, for fields outside lists: the first item of a list begins
  where its list does, and an emptied one is the `emptiedItem` case of section 7.
* `GitRepository_proofs`: `HistoryGrows`, `CommitsChangeWhatTheyName`,
  `StagingSurvives`. The invariant says that a commit's past holds itself, older
  commits only and all of their pasts (`Descent`), and that the tree a call is building
  differs from its parent's only where it is named (`BuiltOnParent`). The compare-and-set
  then makes the parent the HEAD that is replaced. The last theorem assumes
  `StageRaces = FALSE` and adds that what is staged is in the index and in every copy of
  it that a call has read and not written back (`StagingInv`).

* `Lifecycle_proofs`, for every bundle, set of Notes and number of failures, with other
  tools, kills, sessions and reindexes between the steps:

  | Theorem | Says | Assumes |
  |---|---|---|
  | `TypesHold`, `FilesHaveFolders` | types; a file is in a folder that exists | |
  | `OperationsHold` | the phases of the operations, below | |
  | `RefusalsChangeNothing` | `AllOrNothing` | `~AnswersFail` |
  | `AppliedIsCommitted` | `ChangesCommitted` | |
  | `IndexDescribesFiles` | `Settled` | `~RescanRaces` |
  | `RenamesCarryLinks` | `LinksFollow` | `~RescanRaces` |
  | `NoWorkIsLost` | `WorkKept` | |

  `MCLifecycle_answer.cfg` and `MCLifecycle_rescan.cfg` show each property fail without
  its assumption. None of these properties is inductive. That a rollback gives the bundle back is
  told by a history (`Unwindable`): a snapshot for every entry of the journal, from the
  bundle the operation found to the bundle as it is, such that undoing the entry gives
  the snapshot before it. A step appends one, an undo takes one away, and an empty journal
  leaves the first. It is a quantified sequence of the invariant and no variable of the
  model, and needs no induction over the journal, because each step concerns its end.
  `RunInv` adds what the files hold by phase in terms of the plan, and that rows, draft
  rows, sessions and HEAD are untouched until the transaction; `AfterInv` what is staged
  and answered after it. `CoherentInv` says that the index described what the operation
  found and that the plan covers every Note whose row will change, so that the
  transaction, which rewrites the rows of the plan only, leaves what a scan would
  (`RecordedRows`). `FollowInv` says that the plan has the rewritten text of every file,
  draft row and buffer, and that files, draft rows and sessions, carried at three
  different steps, are each at the new id as the plan tells; it needs `CoherentInv`
  because the plan finds the Notes that link to a moved one through the index. All
  of this is conditional on `tidy`: what another tool changed under an operation is not
  the operation's to restore, and a clean-up that failed says so.

  `WorkKept` is not conditional on it. A rollback passes over a step that it cannot undo
  and goes on with the one before, so no history of the whole bundle tells what is there;
  `CopiesInv` and `RowsInv` say of each file and row by itself what the next step needs.
  While files are rewritten and moved, a file has the work that was there when the plan
  was made, or that of the Note that goes there, where nothing was (`FilesKept`); an
  entry of the journal restores that same work or moves back to where nothing is
  (`EntryKept`); and no draft row is where one is to go (`DestinationsOpen`,
  `DraftsPlanned`). No step then has anything else to overwrite. That another tool has
  not written is part of the property.

* `NoteTabs_proofs`, for every set of Notes, number of gestures and failures:

  | Theorem | Says | Assumes |
  |---|---|---|
  | `TabsTyped`, `TabsFrame` | types; the queues take turns | |
  | `TabsGranted` | what an exit relies on, below | |
  | `TabsCalm` | who owns each session, below | |
  | `TabsMatchSessions` | `SessionsMatchTabs` | `Disowning \subseteq Quirks` |
  | `TabsDiffer` | the part of `ShowsTheSelection` that speaks of every state: no Note has two tabs, and what is active has one | `Disowning \subseteq Quirks` |
  | `ExitIsHonoured` | `ExitHonoured` | `Disowning \subseteq Quirks` |
  | `TabsTended` | what the snapshot names between answers, below | |
  | `SnapshotNames` | `SnapshotNamesTabs` | `Disowning \cup {"unsaved"} \subseteq Quirks` |

  `Disowning` is `retaken`, `rehomed`, `unmounted`, `orphaned`, `twice` and `overtaken` of
  section 7, each of which breaks `SessionsMatchTabs`; the run's `Quirks` contains them.

  That every session has an owner at rest is not inductive, for between two answers the
  owner is often a queue. The invariant (`Owners`) names it for every state: a session is
  shown in a tab, retained, in the close queue for the open that came too late, held by
  restoration until the saved Notes have been reopened, or made by the body of a creation;
  what a queue or restoration holds has no tab as well. It needs that the queues take turns
  (`Turns`): a restoration has the head of the open queue, and a late close is always that
  of the open at the head. `TabsCalm` carries this through every action until one of the
  six situations comes up, and no further.

  What the snapshot of an exit names must survive anything, without that assumption: no
  batch runs beside the body of an operation, and only such a body has opens of its own
  (`Barred`); the closes queued before the exit are of Notes that its snapshot does not
  name, and opens, late closes and preserved tabs only add to the snapshot (`Leased`).
  That the core has no session left when the exit is granted takes the owners.

  That the snapshot names what is open is not inductive either. While a Note becomes
  active it may be named by the saved active id alone; during the restoration at start
  the snapshot names Notes that nothing shows yet; and a rename leaves an open of the old
  id in the queue, whose answer would replace an id in the saved list. The invariant
  (`Kempt`) therefore says of every state that what is shown is in the saved list or is
  the active Note under the saved active id, that whatever is saved beyond it is owed
  (`Owed`: everything until restoration has ended or once an exit was granted,
  afterwards what could not be restored), that an open queued under an old id speaks of a
  Note that exists no more and finds the active one in the saved list, and that the Notes
  which a batch lost while it gave a late open back are shown nowhere until it ends
  (`Bygone`). `Tended` holds it for as long as every session has had its owner and
  every exit has saved its snapshot.

  The model takes Notes out of a list by a recursive function (`Without`). What it
  returns for lists of any length is proved by a least counterexample (`LeftExists`, from
  `NatLessThanWellFounded` and `WFMin`), for which no operator has to be instantiated.

* `Index_proofs`, for every bundle, with Directories of any depth, and any number of
  operations, idle writes, scans and changes by other programs:

  | Theorem | Says | Assumes |
  |---|---|---|
  | `ShapeHolds` | a file is on disk only under folders that exist | |
  | `RowsStayReachable` | `RowsReachable` | |
  | `TreeStaysWhole` | `TreeReaches` | |
  | `RowsAreTheBundles` | `RowsMatchBundle` | `~RescanRaces`, `NamesShown` |

  None of the properties is inductive. The invariant of the first three (`IndexInv`, theorem `RowsFitBundle`) has
  four parts. The tables are sound (`Sound`): each Note has a row of full text to itself,
  the numbers of the rows have a last one, so that the next is free, and the Note of every
  Link has a row. They are placed (`Placed`): the recorded Directories are closed under
  the Directories above them, and that of every row is among them. The files are in
  folders that exist (`Housed`). And what a scan has read and has still to read names no
  Note twice, with every Directory above each (`ScanFits`): its transaction replaces all
  rows, so what it holds must be as good as the tables.

  The hard case is a rename of a Directory. Every path under the old name is moved
  (`Siblings`, `Moved`), the rows of the old one are taken away and those of the new one
  entered. No two files land on one name, because the new Directory is none of the folders
  that exist (`Apart`); the old Directory may be taken from the table, because the operation
  is refused while a row under it has no file, so that no row stays behind
  in a Directory which is no longer recorded. That the numbers of the rows have a last one
  is again shown by a least counterexample (`LastNumber`).

  `RowsAreTheBundles` rests on a second invariant over the first (`MatchInv`). While no
  other program has changed the bundle since a scan, the rows name exactly the Notes and
  Directories a walk finds, and those of each Note are right for a text (`Right`: the row,
  and the Links that leave it): its file, or, while an idle write has replaced the file and
  not yet the rows, the text of the hash they hold (`RowText`). That is why comparing the
  hashes suffices. A scan in progress has read what the files hold, or has lost `clean`.
  For renames and moves the argument is in `RowsFollow`. The Notes whose rows are written
  are those the plan changes; the Links of all others are redirected in the table alone
  (`Retarget`). So a Note that is not rewritten must have no edge to a renamed one
  (`EdgesFollowed`): a Note with one is a candidate because its rows are right, and a
  candidate with one is changed, because each Link with an edge is among the events the
  rewriting reads (`LinksAreFound`, `UnchangedText`). Neither lemma says what the rewriting
  makes of the source, which is `DestinationsFollow`. The two assumptions are both
  needed: TLC violates the property with `RescanRaces = TRUE` (`life_rescan` of section 7), and
  without `NamesShown`, that operations name Notes a scan would index, a rename
  of a hidden Note gives it rows.

Only model-checked: all of `NoteParser`, `BlockEdits` and `Links`; `CompletionsLead` and
`DestinationsFollow` of `Index`, which need what `Links` computes by folds over a body;
what `ShowsTheSelection` says of states at rest; `CloseCommits`,
`CommitRecorded`, `NeverStuck` (which speaks of ENABLED), and liveness
(`EventuallyWritten`, `CallsEnd`, `Converges`, `TabsSettle` and those of `SyncScheduler`),
which is out of the prover's reach. What `NoteParser`, `BlockEdits` and `Links` compute by
folds over a source is induction over data, which the library's induction theorems do
not give; a least counterexample, as above, would be the way.

## 7. Where the code and its documents disagree

`note_lostedit` is a run. The others are configurations kept beside the runs, named
`MC<module>_<name>.cfg`, each of which TLC ends with a counterexample: `tlc -config
MC<module>_<name>.cfg MC<module>` (`NoteParser` and `SyncScheduler` are run themselves).
The first half of a name below stands for the module. Where an item names members of
`Quirks`, change `Quirks` in the module's main configuration as it says.

Persistence and sessions:

* `note_lostedit`: an edit is installed, a flush takes its snapshot, the edit's draft
  statement fails, and the rollback (`persist.rs:1071`) sees neither a newer edit nor
  a moved revision, since the flush has not renamed yet. The edit is undone and
  refused; the flush then writes the refused text and clears the row. The
  acknowledged text is in memory only, with nothing marked unwritten. With failing
  draft statements `EventuallyWritten`, `CloseCommits` and the refinement fail for the
  same reason, which is why other runs leave such statements out.
  `StatusHonest` fails with them too: the undo takes back the sequence that the flush has
  snapshotted, and the flush settles a buffer that the file does not have as written.
* `note_twocloses`: a close finds nothing edited and is about to retire its session; an
  edit is acknowledged and a second close finds it; the first retires the session. The
  flush of the second (`persist.rs:2394`) finds it closed, writes nothing and answers with
  the current sequence, through which the second then clears the draft row
  (`persist.rs:2893`): the edit is in no place, although the comment at 2374 returns the
  sequence so that a clear cannot "destroy a keystroke that landed between". The close
  queue of the Dart side keeps two closes of a Note apart.
* `note_unarmed`: the rollback restores `unwritten` (`persist.rs:1080`) as it was
  while a write of the earlier text was settling. The flag stays set over a buffer
  that is on disk, with no deadline and no error.
* `note_strayclear`: the timer's write outlives its session and clears by
  `edit_seq <= n` a row of the next session, whose sequence starts again
  (`persist.rs:2621`).
* `note_stalerow`: a close whose clear failed leaves a row; a guest changes the file;
  the next open prefers the row and its idle write overwrites the guest's bytes,
  unseen (`persist.rs:835`, against the comment at 2996).
* `note_uncommitted`: after a kill between write and commit the next close of the
  Note commits nothing (`persist.rs:2833`, against ADR-008, line 108).
* `sync_staleindex`: a push that succeeds after a failed re-index reports Idle over
  an index that still lacks the merged Notes (`scheduler.rs:393`).
* `gate_uncovered` (also with `INVARIANT EditorNeverWaits`): `commit_block` calls `with_write_locks`
  without the lifecycle lock and waits for write locks, which comments at
  `persist.rs:3521`, 3536 and 55 exclude.
* The comment at `persist.rs:3547-3551` says the opposite of what `NoEditInsideOperation`
  states and the code does: "a keystroke landing inside a lifecycle operation therefore
  still races it", since `update_block` takes no write lock. It takes an edit lease
  (`ffi_api.rs:422`, `persist.rs:1010`), and `with_lifecycle_lock` has shut the gate and
  drained the leases (`persist.rs:3464-3471`) before `with_write_locks` runs under it: a
  keystroke admitted before is waited for, a later one is refused. The property holds
  (`gate_exclusion`, `EditsStayOutside`).
* `gate_stranded`: two closes of a session overlap around a reopening, and the later
  one removes the new session's entry (`persist.rs:2907`).
* `gate_revived`: a rename between a close's retirement and its removal installs an
  open successor of the closed session (`persist.rs:3703`).

Lifecycle operations:

* `life_baseline`: a rename or move takes the bytes on disk as the baseline of
  every open session it touches (`lifecycle.rs:2001`, `persist.rs:3794`), including
  bytes another tool wrote after the session last read. The session's next write
  passes the check that should refuse it (`persist.rs:2449`).
* `life_rescan`: an idle write between the scan and the transaction of
  `reindex_workspace` has its rows replaced by the older ones (`ffi_api.rs:129`,
  against the comment at 113).
* `life_sidebar`: `create_link_target` notes which Directory rows are missing, a
  recovered session flushes into that Directory and needs the rows, and the rollback
  of the creation deletes them (`lifecycle.rs:590`): the folder is on disk and, against
  the comment at `index/incremental.rs:136`, unreachable from the sidebar until a
  rebuild.
* `life_answer`: a rename that has been applied and committed is answered with an
  error when its Note cannot be read back (`lifecycle.rs:1019`), though the header
  says that it "either completes or changes nothing" (lines 14-15).

Markdown and block editing:

* `parser_heading`: in `# ![img](x.png) title` the image is lifted out of the heading
  into a Block of its own, which comes after the heading in the tree and before its text
  in the source: siblings out of document order, which the invariant at `spans.rs` 783 to
  813 excludes. The corpus it is tested on has no such heading.
* `Quirks = {"tightBlock"}` in `MCNoteParser.cfg` violates `TextKept`: in `- text` with a
  quote on the next line the text of the item is flushed only when the item ends, too late
  for its place: it renders nowhere (`parser.rs` 465, against the comment there: "neither
  dropped nor attributed to the item's parent").
* `Quirks = {"linkedAlt"}` violates `TextKept`: a link in an image's alt text.
  `{"imageHeading"}` violates `MapMatchesTree`: a nested heading that holds only an image.
  `{"linkedImage"}` violates `SpansCoherent`: an image beside text in a link or an image.
The next six show in `MCBlockEdits.cfg` with the name in `Quirks` (`lfSeam` with
`INVARIANT EndingsAgree`).

* `nextLost`: Enter in the empty item of `- ` over `- B`, then an x, gives `- `, an
  empty line and `x- B`. The insertion at the end of the item's leaf (`persist.rs` 1332),
  "the exact insertion boundary" of the comment at 1328, is behind the line ending which
  an empty item's span takes along, and the next item ends up on the new line.
* `wrongLeaf`: a field is emptied, so that its Block is gone from the fresh tree and
  its old path names the Block after it; Backspace merges that one into the Block before
  the field. The resolution at `persist.rs` 4515, whose doc says that the old span
  identifies what the user was editing, asks the span only where the path names no leaf.
* `slotSeam`: an insertion slot restores the line endings after it (`persist.rs`
  4343) and none before it: where the Block before ends with fewer, what is typed joins
  that Block.
* `lfSeam`: the item on the first line of a CRLF Note is deleted; the text before
  the seam, which decides its spelling (`persist.rs` 4684), is empty, and the seam is LF,
  against the comment at 4672-4680.
* `emptiedItem`: the first item of a list is emptied; its list now begins where it
  ends, and the next keystroke shifts the list (`spans.rs` 494) before the test for
  ancestors, which the doc at 466-468 says are resized.
* `stranded`: Enter at the end of a field which no Block of the fresh tree continues:
  the error is reported and the field stays mounted, over a map which `commit_block` has
  already replaced (`editor.dart` 1331-1352, 1437-1490).

Links and the index:

* `Shapes = {"framed"}` in `MCIndex.cfg` violates `DestinationsFollow`: a Link around an
  image has no edge in the index (`parser.rs` 553-572), so a Note that holds no other Link
  to a renamed one is not among the Notes to rewrite (`lifecycle.rs` 1887), and is left
  dangling, against `links_rewrite.rs` 27-31.
* The comment at `lifecycle.rs` 1326-1332 says of the rename of a Directory that a relative
  Link from inside it which "pointed *out* of the subtree shifts", and leaves that as an
  open question. `DestinationsFollow` states that it does not, and holds. A rename replaces
  the last segment of the Directory's path and no other (1251-1253): a Note in it stays as
  deep, `..` leaves the Directory from the same place, and what comes after is outside it.
  Where the path comes back in by name (`../d/q`), a Note it leads to is among the renamed
  ones and the Link is rewritten like any other. The run has Links of the first kind.
* Seen while modelling, without a configuration: a title with an unpaired backtick
  completes to source that is no Link (`escape_link_text`, `links.rs` 300, leaves the
  backtick); Links in `index.md`, `log.md` and dotted files are not rewritten, nor are
  absolute references to attachments under a renamed Directory. A rename or move of a Note
  that a scan passes over, a reserved or dotted one, gives it rows, because the old id is
  not checked (`lifecycle.rs` 981-987); nothing in the program offers such a Note, so the
  run of `Index` names the others.

Git:

* `git_stagerace`: a user who stages between the read and the write of the index's
  refresh loses what was staged (`operations.rs` 673-741, against "exactly as it was").
* Seen while modelling, without a configuration: `commit_paths` answers None when a
  conflict is resolved to what HEAD holds, and leaves the conflict's stages in the index
  (against the doc at 627-630); a commit with one parent after a conflict leaves
  `MERGE_HEAD`, with which every later pull ends in an error; an index whose refresh
  failed stays unrefreshed, for the retry answers None.

Tabs. `MCNoteTabs_reopened.cfg` shows that an open may reach the core after the user has
selected another Note: it is queued and no longer wanted. Its session is retired, so
nothing is lost but the work. The rest shows when a name is taken out of `Quirks` in
`MCNoteTabs.cfg`, with `MaxFaults = 2`, `overtaken` with 1 as well:

* `overtaken` (`SessionsMatchTabs`): a Note is deleted while nothing is active, and before
  the core answers, a close is turned away, which activates the Note's tab
  (`workspace_shell.dart` 659-664). The answer finds another active Note than the one its
  request was sent over and returns before it discards anything (`lifecycle_actions.dart`
  201-206): the deleted Note stays open in a tab without a session, against the doc of the
  class, lines 89-90, "Deletion closes an open victim in the editor rather than leaving it
  open against a removed file". A rename (`_settleEffects`, 639) leaves the old id mounted
  in the same way.

* `retaken` (`SessionsMatchTabs`): a retained Note is opened again, the open is overtaken
  and its session retired; the list of retained sessions still names it.
* `rehomed` (`SessionsMatchTabs`): a retained Note is renamed: its session has no owner.
* `unmounted` (`SessionsMatchTabs`): a Directory is renamed while nothing is active and the
  selected Note has no tab; the Note becomes active without one.
* `orphaned` (`SessionsMatchTabs`): after a creation neither the open settles nor the close
  succeeds: the core keeps a session that no tab names.
* `unsaved` (`SnapshotNamesTabs`): an exit closes every session and then fails to save the
  snapshot; it is refused, over tabs that are gone and ids that remain.
* `twice` (`ShowsTheSelection`, `SessionsMatchTabs`): an inactive preserved tab is selected while nothing is active
  and then renamed: two tabs carry one id, or,
  where it cannot be read again, its tab keeps the old one.
* `slipped` (`ShowsTheSelection`): Close All is refused while a gate is held and nothing is
  active; the first tab is activated although the selection of it is turned away
  (`workspace_shell.dart` 736-741).

Further: a fenced open of B over an active A leaves B selected beside A, for an
operation restores the selected Note only where nothing is active
(`lifecycle_actions.dart` 1029-1043); a rescan, close or operation during the
restoration at start discards the saved session (`note_providers.dart` 612-626); a
rename that makes its Note active loses the active id where none was recorded before
(`workspace_provider.dart` 438-441); an operation submitted during the open of a
created Note fences that open, and the created session is retired.

## 8. Not modelled

The definitions name about a fifth of the 42,600 lines of Rust, and 2,200 lines of
Dart. The rest is, in order of size: tests in the source files (about half of `persist.rs`,
`lifecycle.rs`, `operations.rs`, `query.rs` and `ffi_api.rs`, a third of `spans.rs` and
`parser.rs`); generated bindings; widgets, screens and the design system; scripts. What
could be modelled and is not is in section 2. `commit_all` and `open()` of the note
provider have no caller in the program; `clone_repo`, credentials, the schema's
migrations, YAML and full-text ranking keep no state that steps could disturb.

The models leave out what a file system does to a write on power loss: a kill ends the
process and not the machine. SQLite statements and transactions are atomic. What happens
in the instant between the check of a write and its rename belongs to the other program.

## 9. Running

In this directory, `tlc -config <cfg> <module>` for a run of `PROJECT.json` and
`tlapm <module>` for a proof module.
