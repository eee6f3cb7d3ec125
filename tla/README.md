# TLA+ models of Knot

Knot is a local-first writing application: a desktop editor (`apps/desktop`) over
document sessions (`crates/knot-document`), and a vault that several devices and
people replicate (`crates/knot-editor`). This directory models the parts of it
whose correctness depends on the order of events: what replicas make of each
other's edits, what becomes of unsaved text when windows crash, save, close, claim and
time out, what the clients of a vault may build on, and what an interrupted
pruning of the vault leaves. Every definition is taken from the Rust source; `PROJECT.json`
gives the lines.

## The system

| Component | State | Operations | Interacts with |
|---|---|---|---|
| Replicated vault (`knot-editor/src/sync.rs`) | signed logs per writer, admitted writers, mutation gate | `author*`, `accept`, `resolve_conflict*`, `admit_writer`, `deny_writer`, `projection*` | Stickleback (logs, causal order, LogSync), vault and group keys |
| Text merge (`djot_merge.rs`) | none | `automatic_text_merge` | called at the end of a projection |
| Relations, predicates, file revisions (`relations.rs`, `predicates.rs`, `file_revision.rs`, the folds in `sync.rs`) | assertions, retractions, definitions in the same logs | `fold_relations`, local validation | the causal order of the vault |
| Collections (`composition_retention.rs`, `sync.rs`) | retained items and a chain of organizations each | `retain_composition`, `organize_composition` | the vault |
| Checkpoints, epochs (`checkpoint_*.rs`, `sync.rs`) | checkpoint, keyring, receipt, storage marker | save, hand a membership over, propose and execute a pruning, open, repair, migrate | redb, group keys |
| Endpoint (`endpoint.rs`, `directory.rs`, `authority.rs`) | one resident's projection, a revision per session, tokens, grants | snapshot, poll, resume, save, clip; grant, lock | vault, clients in the same process or behind a socket |
| Publishing (`publish*.rs`) | host's accepted publications, client's requests | publish, fetch, retry | network |
| Startup, resident, watcher, settings | process-wide handles, watched files | open, watch, save settings | file system |
| Document sessions (`knot-document`) | text, undo, disk identity of the file | edit, save, save as, reload, compare | file system, workspace |
| File catalog (`knot-file-catalog`) | identity of files | note, move, forget | workspace |
| Workspace (`apps/desktop/src/workspace.rs`) | documents, panes, prompts, recovery id and fingerprint of each document | every command of the user; `after_dispatch`, `after_wake`, `close_request` | all desktop parts, on the UI thread |
| Recovery runtime (`recovery_runtime.rs`) | bounded queue, deferred copies, gathered copies | `offer`, `retry`, `clear`, `claim`, `flush`, `set_retention_days`; the writer thread | workspace, recovery store |
| Recovery store (`recovery.rs`) | a directory of records shared by all windows, session locks, mutation lock | `open`, `upsert`, `remove`, `claim`, `prune_to_policy` | other processes |
| Scroll sites, generation, history (`scroll_site.rs`, `site_*.rs`) | fetched pages, background work with generations | fetch, generate, cancel, close | workers, workspace |
| Composition, readings, prosody, graph, appearance | view state and pure analyses | | workspace |

Where it is hard:

* **Replication.** Logs arrive in any order across writers; a projection reads
  them one after the other without the gate; keys of an epoch arrive late or
  never; writers are denied and admitted again; a conflict is resolved from a
  screen that is out of date. It is correct if replicas with the same events
  show the same versions, no edit disappears without a successor, nothing
  superseded returns, and one event cannot make the vault unreadable.
* **Recovery.** A UI thread, a writer thread and other processes share queues
  and a directory. Calls time out while their command stays queued, writes fail,
  processes die anywhere. It is correct if a copy that was accepted is written,
  a copy that was cleared stays gone, a session's copies are safe while it runs,
  and a copy of a dead session is restored by one window at most.
* **Saving and closing.** A save is guarded by what the file was when it was
  read, other programs write between the comparison and the rename, and closing
  asks three owners of unsaved work one after the other while inputs keep
  arriving. It is correct if a file is always whole, a save never replaces bytes
  nobody has seen, and text disappears only where the user was asked.
* **Relations and collections.** Their rules (a predicate must be live, a
  citation known, an organization follows the last one) are judged by every
  reader on its own logs, which arrive in any order and may be signed by software
  that checks nothing. It is correct if readers with the same events judge alike,
  and what an author's own check accepted is accepted everywhere.
* **Clients of one vault.** Sessions look at the vault, think, and come back with
  a base token; others have written since. It is correct if a save replaces only
  its base, a clip keeps the text it is appended to, and no change goes
  unannounced.
* **Epoch pruning.** What is erased is computed outside the gate and confirmed
  later; the checkpoint file that holds the only copy of the signed history is
  replaced in several steps, each of which may be the last before a stop.

`PROJECT.json` lists the hazards at their lines with the properties that would
catch them.

## Modules

| Module | What it is |
|---|---|
| `KnotSync` | the replicated vault: authoring, acceptance, admission, keys, projection |
| `MCKnotSync` | instances for TLC |
| `KnotSyncProofs` | theorems about `KnotSync` |
| `Recovery` | the recovery store, its runtime and the workspace's use of them |
| `MCRecovery` | instances for TLC |
| `RecoveryProofs` | theorems about `Recovery`: who owns a copy |
| `RecoveryCopies` | more of them: where the newest copy is, what a clear leaves, the types |
| `Desk` | one window: documents, guarded writes, prompts and the close hooks, beside other programs |
| `KeptWork` | what a window promises about text and files; `Desk` implements it |
| `MCDesk` | the instance for TLC |
| `DeskProofs` | theorems about `Desk`, the refinement of `KeptWork` among them |
| `Records` | predicates, relations and collections over the causal order of the logs |
| `MCRecords` | instances for TLC, with the histories written |
| `RecordsProofs` | theorems about `Records` |
| `Endpoint` | sessions over one resident vault: snapshot, poll, resume, save, clip |
| `MCEndpoint` | the instance for TLC |
| `EndpointProofs` | theorems about `Endpoint` |
| `Custody` | a member's checkpoint file, keyring, receipt and marker; pruning and repair |
| `MCCustody` | the instance for TLC |
| `CustodyProofs` | theorems about `Custody` |

Definitions called *Mutant* are never used by a specification. Each is a
plausible slip in the definition after it (a dropped guard, a missing reset);
substituting it makes the property `PROJECT.json` names with it fail.

### KnotSync

An event is `<<writer, sequence number>>`; `op` maps it to what its body and
header say. `past` is the set `CausalIndex::happens_before` answers from: authoring
(`Author`, for `author_under_gate`) names the head of every stored log as a
parent, and the past of the event is what those heads and their pasts are.
`have[r][w]` is how much of w's log replica r has stored (`accept_under_gate` takes
a log in order), `admitted` the policy, `epochAt`/`FirstEpoch` the data keys a
reader holds. A projection is a sequence of steps, as in
`projection_with_cipher_and_strictness`: read each log (`LoadLog`), decode
(`DecodeEvents`), fold the closed events in a causal order (`FoldEvent`, one event
a step, so that every order is explored), finish. `current[d]` is keyed by writer
like the `BTreeMap` in the code.

Abstractions: a document is one line (the merge decides equal, one side changed,
or both changed); Put and Delete differ in the body only; relation, file,
collection and predicate events, which produce no version, are left out; the
causal index, the frontier and the order are those of the external Stickleback
library, modelled from how `sync.rs` uses them; an event without its key is
undecodable, and so is one of a variant this reader does not know.

### Recovery

`session[s]` is one run of the application; *live* means its session lock is held,
so a crash (`Die`) releases it. `disk` and `older` are the shared directory
(`older[i]` holds the records with an earlier `updated_at_ms`). Each store operation runs under the mutation
lock and is one action, with its failures: `Fault` covers a busy lock, an I/O
error, an item too large. A failed `upsert` may have replaced the record and
removed the first of its victims. `tab[s][t]` is a `DocumentEntry`: text, what its
file says, recovery id, candidate flag and fingerprint (`mark`). `ui[s]` is the UI
thread: which part of a dispatch it is in, the call it waits for, deferred copies.
`writer[s]` gathers copies (`pending`) and writes them one by one (`batch`); other
sessions act between two copies.

A call (`clear`, `claim`, `flush`, `set_retention_days`) is sent when the queue has
room, answered by the writer, and returns; `GiveUp` ends it at any point before,
leaving what was sent in the queue. Every user action ends in `sync_recovery`
(`SyncResolve`, `SyncOffer`, `SyncFinish`), as `after_dispatch` does.

Abstractions: a text includes its selection and focus (the fingerprint covers all
three); sizes are not modelled, so the byte limits act as the record limit and as
failures; which records are past `max_age_days` is chosen by the environment,
oldest first; unreadable files are not modelled; recovery ids are never reused
(they are random), and once all of `Ids` are in use further documents are not
followed.

### Desk and KeptWork

One dispatch at a time handles an input: open (`OpenFile`), type, save,
`save_as`, reload, close a tab, close the window, answer a prompt, edit or close
the metadata panel, draft a metre, work in the theme workshop, retain a document.
A write is several steps, because another program (`Foreign`) uses the same
disk: compare with the baseline, stage the temporary, sync it, replace, observe
what is there now (`save_guarded`, `DirectoryAtomicWriter`). A file has a text, a
handle (its identity on disk) and a read-only flag; a document has its text, the
text last saved, and the baseline it compares with. A request to close the window
passes the three hooks in their order (`CloseHook` and what follows): metre draft, workshop,
workspace, the first of which may keep the window open. `discard_close`, the
unsaved prompt and the worker of `retain` are part of `ui`.

`KeptWork` says the same of text and files alone: which texts files hold and who
wrote them, and for each open document its text, what it has seen of its file, the
copy of it, and whether the user has given this very text up. A save is accepted
only while the file holds the document's text; a file gets a whole text or none;
unsaved text leaves the window only copied or given up. `Desk!KeepsWork` is the
refinement: prompts, panels, stages of a write and faults map to stuttering.

Abstractions: the recovery store is the copy a document has (`Recovery` models
what becomes of it); a path is a name, links and directories are left out; loading
a file is one step; the workshop and the metre draft each have "edited or not".

### Records

The events of `KnotSync` other than versions: predicate definitions (mint, rename,
retire), assertions and retractions of relations, retained items and the
organizations written over each. `op` and `have` are as in `KnotSync`, with the
parents of an event being the heads its author holds. An event of relations is
checked by its author against the closed history (`validate_local_relation_event`)
unless the author is in `Careless`, and by every reader against what was folded
before it (`FoldRelation`). A collection event is checked by its author alone; a
reading that meets one that does not fit fails as a whole. One reading is
followed at a time; it folds its closed events in any causal order, and `list`,
which takes no gate, loads the logs twice.

`Plans` are the histories explored: which writer writes which kinds of event in
which order. What the events say, when they travel and who reads when is open.
Abstractions: a predicate is its slug and whether it is retired, a relation its
subject (a document version) and predicate; `max_bytes` weighs every collection
event alike; the capability checks of the grant are always passed.

### Endpoint

A vault is one resident (`VaultSource`) with a lock; each session answers one call
at a time and takes the lock several times within it, so calls of different
sessions interleave between two of its steps. `store` is the sync store, which
takes events of the remote writer at any time; `resident` what was projected last
(heads, conflict, text, pending) with its revision; `sess[s]` the revision and
snapshot of a session; `client[s]` what the client shows and edits. A `Save` step
by step: compare the base token, let go, compare again under the lock, author,
project, install. `clip` looks at the document, appends, and saves as an intent
does. `replace_projection` counts a revision when the text changed, and an install
may stop half way (`torn`), because the heads are set first.

Abstractions: one document, which nobody deletes; the vault stays unlocked and
grants stay; versions and the automatic merge are `KnotSync`'s with one-line
texts; a token is the set of versions its hash stands for; sockets and
subscriptions are the session's announcements.

### Custody

What one member of a Commons space keeps beside the history: `disk` holds the
retained operations, the checkpoint, the keyring with the receipt of what was
forgotten, and the marker that says these are sealed. `Save` and `Handoff`
write them together; a pruning is proposed without the gate in two steps
(`StartProposal` reads the history, `FinishProposal` the rest), reviewed, and
executed with the proposal computed again under the gate (`Execute`). A file of an
older release is opened plain, or repaired: `Prepare`, `Copy`, `Verify`,
`SyncStage`, `Replace`, `SyncDirectory`, `Settle`, any of which may fail or be the
last before the process ends or the power goes. After a power cut a file that was
replaced without a directory sync may be the old one again (`disk.before`).

`Accept` adds an operation; it stands for acceptance and authoring, since
`author_under_gate` ends in `accept_under_gate`. A personal store is the same
without a keyring. Abstractions: an operation is its place, its epoch, whether it
is capture material, and what its author had seen; custody is released and the
authority revisions agree; keeping the newest epochs (8) is the rule of the
external Stickleback. Restore of a checkpoint elsewhere, its receipts, and the
recovery of a member who was offline only read, and are left out.

## Runs

| Run | Question | Bounds |
|---|---|---|
| `sync_conflicts` | Is the fold independent of the order, does it lose or revive a version? | 2 writers, 1 document, 2 texts, 4 events, 3 per log |
| `sync_keys` | The same with late and missing keys, read tolerantly: do resolutions stay valid? | 2 writers, 2 epochs, one reader without the first key, 3 events |
| `sync_delivery` | Does every event reach the screen in the end? | 2 writers, 3 events, 1 denial |
| `sync_stale_resolution` | (violated) Does a resolution replace only what it names? | as `sync_conflicts` |
| `sync_tolerant` | (violated) Does a tolerant projection survive an undecodable event? | as `sync_keys` |
| `recovery_sessions` | Do windows respect each other's copies, do cleared copies stay gone? | 2 sessions and an earlier one, 1 document each, 2 records in a directory for 2, queue of 1, 3 user actions, 1 timeout |
| `recovery_delivery` | Is an accepted copy written, do the threads wait for each other? | 1 session, 2 documents, queue 1, 1 gathered copy, 4 user actions, 1 failing write |
| `recovery_failed_clear` | (violated) Is an accepted copy kept whatever happens to clears? | 1 session, 4 user actions, 1 failure, 1 timeout |
| `desk` | Does a window keep what was written, and files whole? Does it implement `KeptWork`? | 2 documents, 1 path, 2 texts, 4 file identities, 6 inputs, 1 foreign write, 1 fault |
| `records` | Do replicas judge relations alike? When does a collection fail, and for whom? | 3 writers, one of them careless, logs of at most 4, 9 plans of at most 5 events, 1 item, `max_items` 1, history of 3 |
| `endpoint` | What may a save replace, does text fit its token and revision, is every change announced? | 2 sessions (one edits, one clips), 1 remote writer, 3 texts, 3 versions, 1 fault |
| `custody` | Is what pruning erases covered, the marker true, and the file never older than what was promised? | 2 logs of 1 operation, 2 epochs, the newest kept, 1 stop, 2 saves |

Four events are what the interesting histories of one document need: two
concurrent versions, a write on top of one of them, and a resolution. Three user
actions in two sessions are enough for open, edit and a claim, discard or quit by
either, with a crash anywhere; the queues are at their limit all the time because
their sizes are 1. The limits of the code (8, 20, 20, 64) are constants.

Six inputs are what the longest stories of a window need: type, open the file a
second time, save, be refused, answer the prompt, close. One path is enough because
both documents may be at it, and the second text tells saved from unsaved. In
`records` each plan is one hazard: a definition retired under an assertion, an
assertion before its document, a slug minted twice, two organizers, two items of
which one fits. Three versions in `endpoint` are the document, a save, and one
that races it; a race of two saves whose events are both pending takes four, which
the theorem covers and TLC was shown once with a larger instance. In `custody` one
stop and two epochs, one of which may go, put a stop at every step of every write.

`CHECK_DEADLOCK FALSE` in the recovery runs: sessions end, and the user may stop. In
`desk`, `records`, `endpoint` and `custody` the bounds on inputs, events, versions and
saves end the behaviours, and so does a window that is closed.

### Fairness

`KnotSync!FairSpec`: LogSync keeps offering what a peer lacks and the application
projects again after every change, so acceptance from an admitted writer and
projecting are weakly fair. Authoring, admission and keys are not.
`Recovery!FairSpec`: the two threads of a live session run. The user, crashes,
failures and timeouts are not fair; `recovery_delivery` has no timeout at all, so
`CallsReturn` says that no call needs one. It holds because the writer never waits
for the UI thread, its answer channels having room for the one answer.

The other modules state no fairness: their properties are about what a step may do.
That a client's view catches up in the end was too large to check; its safety
core, that a change is never left unannounced, is `Endpoint!ChangeIsAnnounced`.

### Findings

1. `sync_stale_resolution`: `sync.rs:176` says a resolution replaces the named
   versions. The fold inserts it under its writer's key, so it also replaces that
   writer's own newer version, named or not. Alice is shown a conflict, writes the
   document, then resolves the conflict she was shown: her write is gone from the
   projection (`FoldMatchesHistory` states exactly what the code does, the case
   included; `NoSilentLoss` still holds because the resolution comes after it).
2. `sync_tolerant`: `sync.rs:1050` says an undecodable event is reported, not
   fatal. A resolution that names one fails `validate_resolution` and with it the
   whole projection.
3. `recovery_failed_clear`: a clear that fails or times out leaves the recovery id
   and the fingerprint in place while the copy is dropped or its removal is still
   queued. A document that then returns to the same unsaved text is not offered
   again and has no copy. `AcceptedCopySurvives` is the property for documents
   none of whose clears failed, and holds.

### Noticed while modelling

The models contain what the code does in these places; no statement of the
repository that a run could refute is broken, or the statement is too far from the
code to check.

* `workspace.rs:4423`: "Discard all" sets `discard_close`, which only the
  workspace's hook consumes. If the metre draft keeps the window open, the flag
  stays, and a later close exits without asking about metadata edited since
  (`src/README.md:127` says metadata must be saved or discarded before closing).
  `ClosesAfterAsking` names the flag as an exception.
* `endpoint.rs:1817`: a remote version that arrives between the refresh of a save
  and its authoring is superseded although nobody has seen it, and so is one of
  two saves that race while an event is pending. `SaveReplacesItsBase` says exactly
  that much: a save replaces its base and what the resident had not projected.
* `vault.rs:204`: a change of heads, of a conflict or of pending events without a
  change of text counts no revision; `endpoint.rs:804`: granting, revoking and
  locking clear a session's snapshot without a new revision, so no notice rings.
* `endpoint.rs:405`: the heads are installed before the documents can fail, so
  after a failed install a token may name another version than the text shown.
  `TextFitsToken` therefore ends at the first such failure. `endpoint.rs:1985`: the
  evidence of a clip is kept even if its save turns out stale.
* `sync.rs:2049`: pruning erases epochs of closed history a checkpoint covers, but
  a strict projection of a Commons space replays the whole log. Afterwards
  projection, further checkpoints and proposals fail for such a history; the design
  notes call the checkpoint not yet a replay base.
* `checkpoint_migration.rs:399`: a directory sync that fails, or a power cut
  before it, may bring the old file back; the code claims durability only after a
  settled repair, and `CustodyNeverGoesBack` only where `disk.before` is gone. A
  stop during a repair leaves a stage file (sealed content) nothing removes.

Read in parts that are still to be modelled, so shown by no run yet:

* `settings.rs:115`: the settings are written beside the file, the old file is
  removed and the new one renamed; a stop between the two leaves no settings file,
  where the comment at line 99 promises the previous one.
* `resident/operations.rs:501`: refreshing a route loads, changes and saves the
  settings as three steps; an unpairing saved by another process between the load
  and the save is overwritten, although the comment at line 496 excludes it.
* `startup.rs:360`: documents of a vault without synced history are authored one
  after another, and not at all once one of them is projected. A stop in between
  leaves the rest without history, and the next install removes what the
  projection lacks from the vault (`vault.rs:202`).
* `publish_host.rs:224`: clock, revocations and the number of sessions used for
  admission are read before the wait for a connection. Slots and lapses are read
  again before serving; which of these second looks suffices is a question for
  `Publishing`.

## Proofs

`KnotSyncProofs` proves, for any writers, documents, texts, limits and keys:
`TypeOK`, `HistoryIsCausal`, `FoldMatchesHistory`, `NoSilentLoss`,
`ResolutionsValidate` and the action property `NoResurrection`. Assumed is
`ConstantsAssumption`: finitely many writers, numeric bounds, a tombstone that is
not a text, a first epoch for every reader.

The inductive invariant has five parts, each needing those before it:

* logs: types, and replicas and projections hold prefixes (`LogsArePrefixes`);
* history: `HistoryIsCausal`, which needs that a replica's heads are authored;
* resolutions name earlier versions of their own document
  (`ResolutionsNameTheirPast`), which needs what was on the author's screen to
  have been stored (`ShownIsStored`);
* the fold: it proceeds in causal order (`FoldIsCausal`), holds exactly what
  nothing supersedes (`FoldMatchesHistory`) and loses nothing
  (`FoldLosesNothing`). The central lemma is that a new event, coming after all
  of its own past and before nothing folded, supersedes only by its own rule;
* the screen: what is shown was stored, is read again by every later projection
  and matches its history (`ShownIsStored`, `SeenIsReadAgain`,
  `ShownMatchesHistory`). `NoResurrection` follows: a later projection has seen
  all that an earlier one had, so whatever superseded a version still does.

`RecoveryProofs` proves `LiveCopiesAreProtected` and `OneHolder` from
`RecoveryAssumption` alone, for any number of sessions, documents, ids and any
limits, and with crashes, failing store operations and calls given up at any
point. Neither is inductive. The invariant is
`Inv == Shape /\ CallsCorrespond /\ Custody`:

- `Shape` is the type of the state without the order of the records, the
  reports, the bound of the queue and the history variables, on which no
  ownership depends (`RecoveryCopies` adds them).
- `Custody` follows an id wherever a session may still write or open it: in a
  document, deferred, queued, gathered, being flushed, or in a claim that was
  answered and has not returned. No two sessions keep the same id, a session
  that is over keeps none, and a record whose id is kept belongs to the keeper.
  `OneHolder` looks at documents only; a second session that claimed an id
  whose copy is still queued in the first one would not violate it at once.
- `CallsCorrespond` ties the command the writer answers to the call the UI
  thread is in. Without it the answer of one claim could settle a call for
  another id, which is what dropping the answer after a timeout prevents.

The proof has one lemma per action. Each says which documents, threads and
commands one session is left with (`Moves`), what the store operation did to
the directory (`Alters`: abandoned records go, and one id changes if no other
running session owns it) and which ids the session gained (`Gains`); the
invariant is kept by any such step (`MovesKeepInv`). `LiveCopiesAreProtected`
then follows from `Alters` alone: a record that changes is abandoned or the
actor's own. It needs the liveness test in `Abandoned` and the owner test in
`OwnedByOther`, the two checks `RecoveryStore` makes under its lock.

`RecoveryCopies` proves the rest of `Recovery`'s invariants on top of `Inv`:
`ClearedStaysCleared`, `AcceptedCopySurvives` and `TypeOK`. `Ordered` (the order of
the records) is inductive by itself, given `Shape`: every step of the store writes
nothing, forgets records or replaces one (`Writes`). The other two need
`SessionsFit`, which says of each session:

- `DocsFit`, `CallFits`: no two documents follow the same copy, a fingerprint goes
  with an id, and the call the UI thread is in is still about its document.
- `QueueFits`: the awaited command is the last of the queue and is the call's, and a
  `Remove` nobody waits for is one whose call returned an error or is about to
  (`troubled`). This is what a call given up leaves behind.
- `CopiesKept`: what a fingerprint promises is the newest copy (`NewestIs`): deferred,
  else the last copy or removal in the queue, else gathered, else being flushed, else
  the session's own record. Excepted are ids that are reported, troubled or being
  cleared, and a document reloaded from its file until `sync_recovery` comes to it,
  whose id and fingerprint outlive its copy for a moment.
- `ClearsFit`: what was cleared, or is being answered with Ok, is forgotten
  (`Forgotten`), which takes in claims still queued: one left by a call that was
  given up would make the old record the session's again. The deferred copy is gone
  before the answer, and a flush that is waited for is not a clear.

Each step of s is shown to leave such a session; the others keep what they had
because their records stay (`OthersFit`, from `Alters` and `Custody`). The writer's
steps share one argument: what was the newest copy ahead of the head of the queue
stays so, and the head becomes it, has nothing to do with it, or is a clear
(`TailKeepsNewest`, `RestIsNewest`).

`ClearedStaysCleared` speaks of the session that cleared, as the comment at
`recovery_runtime.rs:130` does. Across windows it would be false: a second window
that restored the copy and gave up a clear of its own still follows the id, so it
offers the text again after the first window has discarded the record.

`EndpointProofs` proves all six properties of `Endpoint` from `EndpointAssumption`,
for any sessions, texts and bounds. The invariants, each needing those before it:

- `Typing`: `TypeOK`, and that a call which will save has a text.
- `Told(s)`: what session s announced, what it has observed and what its client
  shows are never ahead of its revision or the resident's; a client behind its
  session's revision has been rung or is still owed the announcement; and while the
  session has observed the resident's revision, text under the session's revision
  is the resident's. `ChangeIsAnnounced` and `RevisionNamesText` are conjuncts; one
  lemma says that a step which leaves the resident's revision leaves its text.
- `Order`: pasts are closed under past (`Causal`); what the resident has seen it
  knows (`SeenIsKnown`), and its token stands for all of it (`SeenIsBehind`); no
  settled save misses history (`SettledIsWhole`), and only the last one, while its
  session holds the lock, may not have been seen by the resident (`SettledIsSeen`).
  `SaveReplacesItsBase` follows from the second comparison of the token, made under
  the lock the save is authored under.
- `Fitting`: the first version is in every past (`FirstIsFirst`), what the resident
  has seen is whole and its token is made of its heads (`SeenIsWhole`), a token
  anyone holds once was the resident's (`TokensStood`), and before the first half
  install every text is what its token's versions say (`TextsFit`, `CallsFit`,
  `ClipsFit`). The central lemma, `SettledStays`, is that versions added later do
  not change what given heads say together: the merge base cannot move, because
  what is added is before none of them. `TextFitsToken` and `ClipKeepsText` follow.

`DeskProofs` proves all seven properties of `Desk`, among them that it implements
`KeptWork`, from `DeskAssumption`: the sentinels are no texts, paths or documents,
and there is always a file identity that no file and no document has (the file
system never gives a new file the identity of one that a handle keeps alive). The
invariant is
`Inv == TypeOK /\ FilesAreWhole /\ Coherent /\ Copied /\ Underway /\ PanelsWait`:

- `Coherent`: focus, prompt and retention point to open documents, and nothing is
  retained once the window is gone. Without it the answer to a prompt could close
  or reload a tab that is not there.
- `Copied`: unsaved text is in its copy. It is broken inside some handlers (after an
  edit, after Discard all has cleared copies) and holds again after what follows
  every dispatch. `SyncShape` says what that does; `DispatchGood` that a handler
  which leaves something `Allowed` is good once it has run.
- `Underway`: the document of a write stays open and keeps its path until the write
  has returned (`Target`), and each stage knows what the earlier ones found
  (`Progress`): the temporary was flushed, the file was the one last read unless
  another program has raced, an accepted write left the document clean. Save then
  close, save then reload and Save all clear a copy on the strength of the last.
- `PanelsWait`: theme changes and a request to close wait in the workshop, past the
  metre draft; so a window that goes has nothing left in the two earlier hooks.

Every handler has a lemma `...Good`: the invariant is kept, the step is one of
`KeptWork`, and the window goes only with everything settled or given up. Two
lemmas carry the refinement. `SyncView` says that a step of a document which
`KeptWork` allows stays allowed when the copies are brought up to date after it;
`ClearedView` the same of clearing the copy of a document that is saved or given up.
`SaveReplacesWhatItRead` is read off `Progress` at the rename, the only step of the
window that touches a file (`WhoWrites`).

`CustodyProofs` proves the four properties of `Custody` from its assumptions on the
constants (positive bounds) and `SortsAssumption`: the
model values that stand for "no file", "torn" and "none" are none of the things they
stand beside. The invariant is
`Inv == TypeOK /\ DiskSound /\ HandleSound /\ RepairSound`:

- `DiskSound`: whatever is at the store's path, or may be there again after a power
  cut, was flushed, holds no more than the history, and if it is marked its records
  are sealed, its checkpoint is what the history gives for its heads, and it covers
  no more than the file holds. `BuiltStays` says that operations which arrive later
  do not change what was built.
- `HandleSound`: a process that made the file itself wrote such records although the
  marker comes after them, which is why it may go on without a repair.
- `RepairSound`: from the copy to the rename, what will replace the file is still
  what the file under the lock gives.

`NeverBack` compares the file before and after each action with these facts: the
handoff and the return of `disk.before` are its only exceptions. `PruningCovered`
follows from the proposal being computed again under the gate.

`RecordsProofs` proves all seven properties of `Records` from `RecordsAssumption`,
for any writers, careless ones among them, and any slugs, items and bounds. Nothing
is assumed of `Plans`, which only bounds what TLC explores. The invariant is
`Inv == TypeOK /\ History /\ Outcome`:

- `History` is about the signed events. A log has no gaps and pasts are closed
  (`Logs`, `Causal`); a definition's chain is told by its author's log (`Chains`);
  a relation event that was vouched for stands by its own past (`Vouched`); a
  collection event names an item of its past, an item is retained once, and nobody
  writes on a fork (`AllNamed`, `RetainedOnce`, `NothingOnAFork`).
- `Outcome` is about the reading: it is of what its reader has stored (`ReadingOf`);
  every definition folded has the chain its author's log gives it (`ChainsRead`) and
  every verdict is the one the event's own past gives it (`Judged`); the current
  revision of an item is the last of those met and each other one was organized once
  (`Walked`).

Two facts carry the relations. What a fold has done of x's log, when x is ready, is
exactly what is before x (`ReadyIs`), so the fold computes the chain the author's log
gives (`ChainOfIs`); and who signs after a complete reading has read his whole past
(`CheckedIs`), so his check over the frontier and the readers' over the causal order
look at the same events. An assertion that is only unverified, not valid, may be
retracted under a vouched event because the author's check leaves no such assertion
of his own: this is where `Vouched` separates careless writers from the others.

For the collection, a walk that meets an organization of anything but the current
revision has met another organization of the same revision (`NotFollowing`): that is
the fork `FailsForAReason` names, unless the two loads of a list without the gate
differ. Conversely an author under the gate whose walk succeeded adds the only
successor of the current revision (`CurrentIsLast`).

Only model-checked: the liveness properties (`EventuallySeen`,
`AcceptedIsWritten`, `CallsReturn`), which need fairness and ENABLED. Every other
property of a passing run is a theorem. The merge of texts is checked as far as it
decides between a document and a conflict.

## Not modelled

Cryptography, transport and storage engines (external, and used as atomic
operations); formatting, parsing and prosody (pure functions on text); views,
graph layout and appearance (no state beyond the UI thread's own). The remaining
parts with state of their own are in the plan.

## Plan

1. `Pairing`: startup and the resident host: settings loaded and saved by several
   processes, the poll that admits and denies writers, the first migration of a
   vault (`settings.rs`, `knot_sync_host.rs`, `resident/operations.rs`, `startup.rs`).
   Properties: a paired device is eventually admitted and an unpaired one denied, an
   unpairing stays, a migrated vault keeps its documents, a stop leaves settings.
2. `Publishing`: sessions against unpublish and revoke (`publish_host.rs`,
   `publish.rs`). Property: no response begins after a withdrawal it should obey.
3. `ScrollSite`: generations of background work and late results
   (`scroll_site.rs`, `site_generation.rs`, `site_history.rs`).
4. `FileCatalog`: identity across rename and removal.
