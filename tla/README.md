# Live TV category browser: models, checks and proofs

This directory specifies, in TLA+, the Jellyfin plugin that groups Live TV
channels by their M3U `group-title`, and the clients and tools around it. Each
module is a translation of source code; `PROJECT.json` maps every definition to
the lines it stands for.

    tlc -workers 2 -config CategoryIndexSafety.cfg MCCategoryIndex
    tlapm CategoryIndexProofs.tla

## 1. The system

### Components, their state and their operations

| Component | Keeps | Operations | Talks to |
|---|---|---|---|
| Category service: controller, index, Jellyfin adapter, tuner reader (`Jellyfin.Plugin.LiveTvCategories/Controllers`, `Services`) | one cached snapshot, a semaphore, the last diagnostics | list categories, read a page of one | Jellyfin's user manager and Live TV manager, the M3U tuners |
| Snapshot builder (`Services/CategorySnapshots.cs`) | nothing: a function of the tuners' records | match, group, sort, filter for a user, cut pages | called by the index |
| Compatibility and diagnostics endpoints | nothing | `GetCompatibility`, `GetDiagnostics` | the adapter's diagnostics, the configuration |
| Bundled web client: startup filter, manifest, settings page | configuration, the last state logged | per request: stock client or bundled client; read and save the override | ASP.NET static files |
| Standalone page (`web/standalone`) | one tab's state, `sessionStorage`, the history entries | sign in and out, load, page, Back, resume | the category service over HTTP |
| Legacy and modern integrations, overlay for 10.11.11 (`web/integration`, `web/patches`) | a tab's state or history entries | show, hide, load, page, Back | the category service over HTTP |
| Shared client service and prototype (`web/src`, `prototype`) | nothing: functions of an answer or of a playlist | normalise a list, ask for a page, build and page an index | the category service, or in its place the prototype |
| Web source preparation (`scripts/prepare-jellyfin-web.mjs`) | a source tree | prepare, roll back | the tree's owner, the file system |
| Build identity, releases, catalogue (`scripts/web-build-identity.mjs`, `catalog-history.mjs`, `build-catalog.sh`) | an identity beside the compiled client, packages, a catalogue | stamp, verify, pack, append | the prepared tree, the maintainers |
| Dispatcharr set-up helper, discovery collector, probes | server settings | check then add, wait, report | a running server |

The service never persists anything: its cache is lost with the process and
rebuilt by the next request. The page persists its session and its place in the
tab. The preparation persists everything, one file at a time.

### What is hard in it

`PROJECT.json` lists the hazards at the lines where they bite. In short:

- requests overlap: one builds the snapshot under a semaphore while others read
  the field without it, wait for it, are cancelled, or invalidate it
  (`LiveTvCategoryIndex.cs:37-111`);
- what a user may see changes between the filter and the answer, and a user may
  be disabled or deleted then (`LiveTvCategoriesController.cs`,
  `JellyfinLiveTvCompatibilityAdapter.cs`);
- the diagnostics are written by two paths, one a read-modify-write;
- in the page, answers arrive after another click, after signing out, after
  another account signed in, or not before the timeout; Back, reload, a crash
  of the tab and the browser's Back cache restore an earlier state;
- the preparation may fail or be killed in or between its file operations, and
  the owner edits the tree meanwhile; it may also fail after the last of them,
  over its scratch directory;
- packages and the catalogue are written in place, under their final names;
- equal and almost equal group titles, repeated and blank identifiers, pages
  past the end; and four clients that each normalise a list and bound a page
  size in their own words;
- the overlay has one flag where its successor has request numbers, and one
  indicator for lists and pages, which nobody counts;
- the scripts of a release are run by hand, in any order, and what they are run
  on changes between any two of them.

### What makes each component correct

| Component | Correct when |
|---|---|
| Category service | one build at a time and none without need; a served snapshot is the last read's, within its time to live and never an all-failed read; nobody is shown what the policy did not allow; every request is answered |
| Snapshot builder | the snapshot is exactly the grouping of the records; ids keep titles apart; the order does not depend on the tuners; a user's view has no trace of hidden channels; pages cover a category |
| Standalone page | nothing of an account survives signing out; what is shown is what is selected; no state is a dead end; a reload finds the same place; it comes to rest |
| Preparation | all files or none, also when it reports a failure; success means prepared; an edit that could be seen is never lost; what a tool run leaves can be prepared again unless a restore was damaged |
| Bundled web client | the bundled client is served only where and while it is allowed; the settings form never goes dead |
| Legacy integration | at rest the open category shows its own page; a pending flag is always cleared by an answer to come; the loading indicator tells the truth; Back is taken only for an open category; nothing after destruction |
| Modern integration | Back leads to the list the category was opened from and restores its tile; an entry remembers only a channel of its own page, the one that has the focus |
| Overlay | never two page requests; at rest the open category shows its own page and the indicator is off, unless a category was left while its page was awaited |
| Lists and pages in the clients | every client lists every category once, with any entry it cannot use left out or reported, and asks for pages the service accepts that together are the category |
| Release scripts | a package is made from what is declared when it is packed; the catalogue is whole, in order and its checksum is the package's, unless a run was killed over one of them |

## 2. The plan

In order of importance to users. All of it exists.

1. `CategoryIndex`, `CategoryIndexProofs`: the service with its callers, tuners
   and policy changes; invariants, freshness, visibility, liveness; proofs.
   `CategoryService` is what it promises, `CategoryRefinement` the mapping; that
   every step of the code is one of the abstract service or invisible to it is
   proved at the end of `CategoryIndexProofs`.
2. `StandaloneApp`, `StandaloneAppProofs`: the page.
3. `PrepareSource`, `PrepareSourceProofs`: the preparation, for any number of
   files; `WebRelease`, `WebReleaseProofs`: the scripts from the prepared tree to
   the catalogue, in which a preparation is one step.
4. `CategorySnapshots`, `CategorySnapshotsProofs`: match, grouping, order, views,
   pages; `ClientLists`: what the clients and the prototype make of them, with
   its proofs in `CategorySnapshotsProofs`.
5. `LegacyController`, `LegacyControllerProofs`: request numbers, tab life cycle,
   late import; `OverlayController`: its predecessor without request numbers,
   with its proofs in `LegacyControllerProofs`.
6. `ModernView`, `ModernViewProofs`: category, page and focus kept in history
   entries.
7. `BundledWeb`, `BundledWebProofs`: the startup filter and the settings page
   under changing settings and files.

What would come next: the compatibility endpoint, which can disagree with the pipeline;
messages of saves that overtake each other; the page with the service, where
the service's status codes replace the page's free answers; the focus of the
legacy tab and the overlay.

## 3. The modules

### CategoryIndex

A request `r` walks through the code between two points where another thread
can change what it reads:

    idle -> resolve -> precheck -> lookup -+-> view -> [page -> confirm] -> done
                                           |     ^
                 wait -> recheck -> native -> tuners -> store -> release
                                           |
                        failed -> invalidate -> done (503)

| State | Code |
|---|---|
| `snapshot`, `buildLock` | `_snapshot`, `_buildLock` of `LiveTvCategoryIndex` |
| `diagnostics` | `_diagnostics` of the adapter |
| `access`, `visible` | Jellyfin's accounts, policies and Live TV database |
| `pc`, `call`, `cancelled`, `held`, `job`, `raised`, `previous`, `page`, `answer` | the locals of one request |
| `now` | the clock, in units the durations are multiples of |
| `lastRead`, `since` | history: what the last completed read found; what the user was allowed at any time since the request obtained its snapshot |

`Resolve` is the controller's `ResolveUserId`, its paging check and
`GetLiveTvUser`; `PreCheck` the read of visible channels before the index;
`Lookup`, `Recheck` and `Acquire` the double-checked lock with the abandoned
wait of a cancelled request; `ReadNativeChannels`, `ReadTuner`, `FinishTuners`,
`Store` the build; `View`, `FilterPage`, `Confirm` the projection and the last
authorisation; `MarkUnavailable` and `Invalidate` the error path, with the
read-modify-write of the diagnostics in two steps. `Tick`, `ChangePolicy`,
`Cancel` and `Send` are the environment.

Left out: `lastAttemptUtc` and the matched and unmatched counts of the
diagnostics (the counts are in `CategorySnapshots`), the order of the tuners
(which category a channel is in is a constant), names and pictures of channels.
`GetVisibleChannelIds` is one step: it is one query to Jellyfin. A category's
title does not change; the lineup a tuner returns does, on every read.

### CategoryService and CategoryRefinement

`CategoryService` has no cache policy, lock, tuner or thread: one snapshot is
current; a request takes it while it is fresh, or replaces it by one dated now
when it is not; what it answers is projected from the snapshot it took through
what its user may see at that moment; it may be refused at any point.
`CategoryRefinement` maps the published snapshot to the current one, the
snapshot `GetSnapshotAsync` returned to the request's basis, all points up to
there to one phase, and a filled page to a draft until the last look at the
permission. `ImplementsService` says that a snapshot is replaced only when none
is fresh, that a list or page comes from one snapshot throughout, and that an
invalidation is one by a request that ends with 503.

### StandaloneApp

One action per event handler of `app.js`: submit, refresh, category, All
channels, previous, next, Back, Escape, `popstate`, `pagehide` and `pageshow`,
reload, a crash of the tab, an answer of each kind, a timeout. `loadChannels`,
`loadCategories`, `request`, `save`, `historyState` and `clearSession` are
operators. `pendingRequest` is the request of the current generation;
`superseded` holds requests that were aborted and whose answer can still arrive,
which the generation check drops. `storage` and the history entries survive
reload and crash. `contract` and `account` record what the server has answered.

Left out: focus, texts, arrow keys, pictures. A refused session and a session
of a server that has forgotten it are one outcome. One server's tokens have one
format, so `readSession` never rejects a token the same server gave before.

### PrepareSource

A managed file's content is a blob (pristine, migrated, prepared, edited,
absent) and line ends; the tool's points are staging, verifying, replacing and
rolling back, one action per file operation on the tree, each of which can fail,
and in or before each of which the process can be killed. A rename is atomic. The
others are not:

- writing the replacement beside its target can end part-way, by a failure or a
  kill; `replacement` is then `half`, and nothing removes it, since
  `replacementCreated` is still false (`prepare-jellyfin-web.mjs:124-131`). A
  removal that fails leaves it `whole`, or, after the rename, starts a rollback
  that includes the file just replaced;
- a restore writes in place and can leave half a file, recorded in `damaged`;
- the scratch directory is removed in a `finally`, also after the last file was
  replaced (`:143-150`). If that fails the preparation fails and nothing is rolled
  back: `Finish` then goes to `failed` and records it in `uncleaned`.

`AllOrNothing` says which of the two a failure is: all files are prepared if
`uncleaned`, and none is changed otherwise, unless a restore was cut short.

The owner may edit at any time. `found` is the tree as the tool found it, each
file as it was when it was verified; an edit made later is in `edited`, and no
property speaks of that file: the tool overwrites it. Staging and patching read
only a copy and are one step that passes or refuses. There is no lock and none is
modelled: two preparations at once are outside the tool's contract. Directories
the tool creates for its files stay after a rollback and are left out.

### WebRelease

`Prepare`, `Compile` and `StampWebBuild` are scripts; `VerifyPackage`,
`StagePackage`, `WritePackage`, `OpenManifest` and `WriteManifest` are the parts of
`build-catalog.sh`, between which it can be killed and its inputs can change. What
it publishes it writes in place, so that `Kill` can also leave half an archive, or
half a catalogue: `OpenManifest` empties the file (`build-catalog.sh:150`) and
`WriteManifest` fills it. A fingerprint is what it is of. The integration is two
texts, of the modules the tool owns and of the patch to upstream's files. An
entry of the history is its version or `Malformed`. `disturbed`, `interrupted`,
`torn`, `settled` and the identity's `fresh` are history. A preparation that was
killed counts as a change of the tree by hand; a stamp that was cut short leaves no
identity.

What the scripts do not promise, and the properties therefore exempt:

- the stamp compares the owned modules of the tree with the integration, not that
  the distribution was compiled after the preparation (`fresh`), and not that the
  hooks in upstream's files are those of the patch (only `owned` is in
  `PackageIsCurrent`). `docs/headless-web.md:63` says that stale output from an
  unprepared source checkout is refused: it is when the checkout is unprepared at
  the time of the stamp, but output compiled first and stamped after a preparation
  passes, and `docs/upgrade-checklist.md:39` leaves the order to the procedure;
- what is changed, compiled or stamped between the verification and the copy is
  packed unverified (`settled`);
- a run that is killed over an archive leaves a catalogue with another checksum
  (`interrupted`), and one that is killed over the catalogue leaves none
  (`torn`), until the next run that ends. `CatalogIsSound` says that nothing else
  does either.

Stamping, verifying and copying are one step each.

`MCPrepareSource` is the sum of both: an instance follows the preparation file by
file or the scripts of a release.

### CategorySnapshots

Records arrive one by one; each step is one turn of the match loop of
`ReadCategoriesAsync`. `Build`, `CreateUserView` and `PageOf` are functions of
what has been matched, checked against their definition in every state. An id is
represented by the key it is the digest of: collisions of SHA-256 are not
considered. A title is a number in ordinal order with a rank that ignores case;
`Uncategorised` is one of the titles, since a tuner may send it.

### ClientLists

The four normalisations of a list (the page's, that of the two integrations,
the overlay's, the shared service's), the page sizes, the readers of a page and
the prototype's index stand side by side and are applied to what
`CategorySnapshots` builds, and to that with one entry added that is broken,
doubled or would pass for All channels. Sorting is stable, as ECMAScript 2019
has it, and the collation is a rank. Counts sent as texts, which the shared
service and the overlay convert, are left out; page sizes are integers.
The three integrations skip an entry they cannot use; the shared service fails
the whole list.

### LegacyController

One action per handler of `livetvcategories.js`, and the part of Jellyfin's tab
host that calls it (external in 12.x; the same code is in the overlay's
`livetvsuggested.js`). The host imports the module when the tab is first chosen
and calls `renderTab` when the import ends, wherever the user is by then; the
model keeps this, with leaving the tab or the view in between. Afterwards the
host calls `onShow`, `onHide` and `destroy`. `categoryRequestId` is represented
by what it decides: each request outstanding knows whether its number is still
the current one, and `Superseded` is `categoryRequestId += 1`. A request that was
given up is never aborted by this client, so it may be answered at any time. The
page size is chosen when a category is opened.

While a page is awaited the previous content stays visible under the new title;
`PageIsSelected` is therefore about the state without a pending request. A
category that has shrunk to one page while a later one is shown leaves an empty
page without a Previous button; Back leads out, and no property forbids it.

Left out: focus and texts; how the list is normalised and sorted is in
`ClientLists`. A list that
fails to load is one without categories: `loadState` becomes `ready` and the
list is not asked for again, as in the code.

### OverlayController

`livetvsuggested.js` is the tab host and the first tab's controller at once. It
imports its module and loads the list again each time the tab is chosen, so that
several lists can be under way; `categoryRequestPending` keeps a second page from
being asked for, whatever category it is of, and an answer is rendered for the
category that is selected when it comes. So a category that is left while its
page is awaited, and another opened, shows the cards of the first under the
title and the buttons of the second; and if the page comes while the list is
shown, `renderCategoryPaging` throws for want of a selection and what should
follow, clearing the flag and the indicator, is never done, so that no channels
are loaded again. `left` marks these behaviours: the
properties say that nothing else breaks the page, the flag or the indicator.
The release has been superseded; the code stays for the 10.11.11 client.

`MCLegacyController` is the sum of both tabs: a build contains one of them.

### ModernView

Choosing a category or a page is a navigation, and the view keeps the focused
tile and channel in the history entry's state. The model has the entries
(`hist`, `pos`), and beside them `state`, the router's `location.state`: what it
read when it last navigated, older than what `history.replaceState` has written
since. `Show` is the render after any navigation, with the two effects in the
order they run: the ref first, then the focus, which may be caught by
`rememberChannelFocus` again. `Push`, `Replace`, Back, Forward and reload all end
in it. `SelectCategory`, `ReturnToCategories`, `ShowNextPage` and the others are
the view's callbacks; `Answered` and `Failed` are what React Query reports for
the content shown. `returned` is history: what the user came back from.

On arrival the content is cached, awaited or failed, freely: the query cache is
older than the view and collects what is unused. What `autoFocuser` chooses when
nothing is remembered is free. Left out: jumps over several history entries,
addresses typed into a running client, a lineup that changes (see
`LegacyController` for what happens to a page past the end).

### BundledWeb

A request arrives, evaluates the state of the moment (`UseWhen`) and is served;
the setting, the files and, with a restart, the versions change between any two
of these. `allowed` is history. The settings page is shown, edited, submitted and
shown again; each of its calls is answered by the server in steps (read, write,
confirmation) and each may fail at any of them, after having been carried out or
not. Left out: logging, paths, cache headers, the static files of the
independent page.

## 4. The runs

| Run | Asks | Instance |
|---|---|---|
| `category_safety` | do cache, lock, diagnostics and visibility hold when two requests overlap, and is every step one of `CategoryService` | 2 requests, 2 tuners, 1 user, time to 2, 1 policy change |
| `category_liveness` | is every request answered | 2 requests without end, one for pages, one for lists and calls that are refused; 1 tuner, time to 1 |
| `category_diagnostics_race` | violated: the counts are the last read's | 2 requests |
| `page_safety` | the page's invariants | 2 accounts in one tab |
| `page_liveness` | does the page come to rest | 1 account |
| `page_contract` | violated: an unsupported contract stops category calls | 1 account |
| `prepare` | the preparation's properties; package and catalogue | 4 files of each kind, 1 edit; 2 releases, texts and versions, 2 changes by hand |
| `snapshots` | builder, views and pages against their definitions; lists, pages and the prototype against the builder | all sequences of 4 records over 3 titles and 4 identifiers; page sizes around a maximum of 2 |
| `legacy` | the integration's invariants and its silence after destruction; the overlay's invariants | 2 categories, 2 page sizes, lists of up to 3 channels; 2 loads of the list under way |
| `modern` | the history's and the focus's invariants | categories of 3 and 1 channels, pages of 2, 4 history entries |
| `modern_focus` | violated: Back from details restores the focused channel | the same, without misaligned pages |
| `bundled` | who is served the bundled client; is the settings form usable | 2 requests, 2 calls of the settings page |

Bounds, and why they are enough:

- `CategoryIndex`. Two requests cover every pair of points, and the code has no
  path that needs a third: the semaphore admits one and the cache is one field.
  Two tuners make complete, degraded and all-failed reads. `CacheDuration = 2`
  and `DegradedCacheDuration = 1` with `MaxTime = 2` make both kinds of snapshot
  fresh and expired in one run; reads overlap ticks. `MaxChanges` lets the policy
  be withdrawn at any point. One user shows what one may see at different times;
  that one user is not shown another's channels is proved, for any users, kinds
  of caller and changes. The proofs remove all of these bounds.
- `StandaloneApp`. `PageSize = 2` and `MaxTotal = 3` give a full page, a short
  page and an empty list, and a list that shrinks under the page shown.
  `MaxHistory = 2` entries allow Back and Forward; `MaxSuperseded = 1` late answer
  is enough for a wrong one to be taken, each is dropped by the same check.
- `PrepareSource`. The four files are one that upstream has and a migration
  changes, one upstream has and no migration touches, and two that only the
  preparation creates: first, last and neighbouring positions of each kind of
  failure. `MaxEdited = 1` file is edited after its verification in a run; before
  it, and initially, any number are.
  The proofs remove these bounds.
- `WebRelease`. Every hazard is a script, one or two changes, and another
  script. Two releases, texts and versions tell what is old from what is new;
  the histories are a good one, one with the released version, a doubled and a
  malformed one. Two versions are two packages, one of which a run can be killed
  over while the catalogue names the other.
- `CategorySnapshots`. Three titles hold all relations of two titles (equal,
  differing in case only, different), with one that reads like the missing one.
  Four records allow a duplicate beside three channels.
- `ClientLists`. `MaxLimit = 2` and `DefaultLimit = 1` stand for 250 and 100: a
  configured size is below, at, between and above them, and a category of three
  channels has a full and a short page. Only whether a size is a valid one and
  the pages fit together depends on the numbers.
- `LegacyController`. Nothing bounds the number of requests: outstanding ones are
  a set. A list of three with page sizes 1 and 2 has first, middle, last, full
  and short pages, and shrinks and grows between answers. The proofs remove
  these bounds.
- `OverlayController`. Two lists under way overtake each other; one page can be
  awaited at a time, which `OneRequest` checks.
- `ModernView`. `MaxHistory = 4` entries hold a list, a category, its details
  and another list or category, so that every entry can have others on both
  sides and be cut off. Three channels with pages of two make a full and a short
  page; a link to start 1 makes a page that overlaps both. A second category
  tells tiles apart.
- `BundledWeb`. Two calls are a save and the load of the page shown again, or two
  saves after it; two requests are one before and one after a change. The proofs
  remove these bounds.

Symmetry is used on requests, calls and tuners, on accounts and on categories, in runs
without liveness properties; no definition tells them apart. Two runs switch
deadlock checking off: `snapshots` stops at the last record, `legacy` when the
view is destroyed and everything is answered. Elsewhere some step is always
possible.

Fairness. `FairSpec` of `CategoryIndex` has `WF(Serve(r))`: the thread pool
runs a continuation that is ready, and a tuner or database call ends, with a
result or an exception. It has `SF(Acquire(r))`: asynchronous waiters of
`SemaphoreSlim` are released in order, so one who waits is not passed for ever;
weak fairness is not enough, since a failing or invalidated cache lets other
requests take the lock again and again. `StandaloneApp` has `WF(Answer)` on the
answer of the pending request: `request` has a 20 s timeout which always fires.
Nothing is assumed of the user, of cancellation, ticks or policy changes.
`ComesToRest` is: if from some time on only network events happen, the page
finally waits for nothing; a list that shrinks again and again leads to a chain
of reloads, each on a smaller page.

## 5. What the runs found

- *Diagnostics race.* `ReadNative` copies the diagnostics, and another request's
  complete read in between is overwritten: the counts shown are an earlier
  read's (`docs/api-contract.yaml:193`). What does hold, and is proved, is that
  diagnostics not marked `unavailable` are those of the last read.
- *Unsupported contract.* After the page has found an unsupported contract
  version, Back from All channels still loads categories
  (`web/test/standalone-browser.test.mjs:245` stops before that).
- *A channel that is not remembered.* Open a category, focus a channel, return to
  the categories, open the same category and the same channel again: the ref
  still holds the channel, so `rememberChannelFocus` returns early, the new entry
  remembers nothing, and Back from the details does not restore the focus
  (`LiveTvCategoriesView.tsx:338`; `docs/architecture.md:54` promises it).

Seen while modelling, without a run: a 503 is also the answer to a failed read of
a user's visible channels, not only to "All eligible tuner sources failed"
(`docs/api-contract.yaml:130`), and then discards the snapshot of all users; the
overlay shows one category's channels under another, or stops loading, after a
category was left while its page was awaited (section 3); a distribution
compiled before the preparation can be stamped (section 3); a preparation that
fails to remove its scratch directory reports a failure and leaves every file
replaced, where `README.md:101` calls the preparation transactional, and a
replacement that is written in part stays in the tree; `build-catalog.sh` truncates
the catalogue before it writes it, so that a kill or a full disk in between loses
one that was good; a refetch in the modern view moves the focus back to the channel of the last
arrival; a bundled client added beside a running plugin is reported by the
compatibility endpoint before a restart serves it.

## 6. The proofs

`CategoryIndexProofs` proves, for every set of requests, users, channels and
tuners and all durations with the degraded one no longer than the normal one
(`CallAssumption`, `SourceAssumption`, `DurationAssumption` of `CategoryIndex`):

| Theorem | Establishes |
|---|---|
| `TypeCorrect` | the type invariant |
| `LockSafe` | one builder, and the semaphore's count accounts for it |
| `ReadsAreNeeded` | no tuner is read while a fresh snapshot is published |
| `CacheIsLastRead` | the published snapshot is the last completed read's |
| `FailuresAreNotServed` | an all-failed read is never published or held |
| `DiagnosticsAreHonest` | diagnostics not marked unavailable are the last read's |
| `FreshnessSafe` | a snapshot is handed out only within its time to live |
| `VisibilitySafe` | a 200 shows only what the user was allowed since the snapshot was obtained |

None of these is inductive alone. `IndInv` conjoins

- `TypeOK` and `OneBuilder`, needed by everything that concerns the lock holder;
- `HeldWhenProjecting`: a request past the index has a snapshot;
- `CacheInv`: to the cache invariants it adds `SnapshotDated` (an expiry was
  computed from the snapshot's date and completeness, which freshness needs)
  and `StoreReported` (the read about to be stored is the one last reported and
  not a failure, which ties `store` to `lastRead` across the two steps);
- `VisibilityInv`: `SinceIsCurrent` says that the history includes what is
  allowed now and what has been put on the page, so that a change of policy
  between filter and answer keeps it.

The proof has one step per action and conjunct; action properties follow from
`IndInv` and one step. `NoRedundantRead` holds through time because only the
lock holder publishes and time only takes freshness away.

Its last section proves `Implementation`: `CategoryIndex` implements
`CategoryService`, so each of its steps is one of the service under the mapping
of `CategoryRefinement` or leaves the mapped state alone. It rests on the
`IndInv` above and on `BasisExact`, its converse for the requests that project
nothing: they hold no snapshot, so that nothing the abstract request has given up
is answered from.

`LegacyControllerProofs` proves all properties of the `legacy` run, for any
categories, page sizes and totals: `TypeCorrect`, `PageSafe`, `NeverStuck`,
`SpinnerSafe`, `BackSafe`, `DestroyedStaysSilent`. Its `IndInv` adds the life of
the tab (`NothingBeforeImport`, `DestroyedIsGone`, `ListFirst`: a category is open
only after the list was rendered) and of the request (`CurrentIsSelected`: the
one request with the current number asks for what is selected; `RestContent`).
`CurrentIsUnique` is the lemma everything about answers rests on. That no page
past the end is asked for (`TypeCorrect`) needs `RestContent`: the paging
buttons were rendered for the page that is selected.

Its second part proves the overlay's three invariants (`OverlayPageSafe`,
`OverlayRequestSafe`, `OverlaySpinnerSafe`) of `MCSpec`, the sum of the two tabs,
for any number of lists under way (`LoadAssumption`). `OverlayInd` adds that a
page is asked for only under the flag and never beside another (`OverlayAsked`),
that a category is open exactly while its panel is (`OverlayOpened`), and that
until a category is left while its page is awaited, a raised flag has a page on
the way and that page is the selected category's (`OverlayAwaited`). The exemption
`left` cannot be dropped: without it the last of these is false.

`PrepareSourceProofs` proves all properties of the preparation, for any files:
`TypeCorrect`, `FailureIsAllOrNothing`, `SuccessSafe`, `EditsSafe`,
`RerunSafe`. Its `IndInv` follows the tool's points: before the first write
nothing is written and the tree is as found (`EarlyInv`); what is kept for a
rollback is acceptable content as it was found (`OriginalsInv`); while files are
replaced each is replaced or as found (`TreeInv`); a file that is skipped needed
nothing (`SkipInv`); a replacement belongs to the file of the loop, and is whole,
until a failure or a kill (`ReplacementInv`); and only the end of a run fails over
its scratch directory alone (`UncleanedInv`). `AllOrNothing`, `SuccessIsComplete`
and `UnknownEditsSurvive` follow only with these, since each speaks of the end of a
run and its truth is decided file by file before.

`WebReleaseProofs` proves `PackageSafe` and `CatalogSafe`, for any releases,
texts, versions and histories and any number of changes by hand; versions are
numbers and entries of a history integers (`ReleaseAssumption`). Its `IndInv`
carries what the stamp and the verification compared to where the properties read
it: `IdentitySound` from the compiled tree to the identity, `VerifiedInv` and
`CopiedInv` over the script's steps while its inputs change, `ListedInv` over the
moment in which there is no catalogue, `Published` and `Whole` to the catalogue,
with the version a script has just replaced or was killed over exempt (`InDoubt`).
The validation compares a history entry by entry; that it descends as a whole
(`StepwiseDescending`) is an induction over the smallest counterexample.

`BundledWebProofs` proves all properties of the `bundled` run for any number of
requests and calls: `TypeCorrect`, `LiveOptOut`, `FormUsable`. `OptOutIsLive` is
about answers; its `IndInv` adds what holds on the way: a request that has still
to be evaluated has recorded whatever holds now (`RecordedBefore`), one that was
evaluated for the bundled client was allowed it (`EnabledIsAllowed`), and no
request outlives the server it was evaluated by (`DownIsEmpty`), so a restart
with another version finds none. `FormIsNeverDead` is inductive as it stands.

`StandaloneAppProofs` proves every invariant of the page's passing runs
(`TypeCorrect`, `SignedOutSafe`, `PageSafe`, `UsableAtRest`, `PageRestorable`,
`PagingSafe`) for any accounts, categories, page size, totals, superseded requests
and depth of the history, from `PageAssumption`, `NameAssumption`,
`RequestAssumption` and `ShownAssumption` (null is no request and no page). Its
`IndInv` adds `RequestIsCurrent` (a pending request for channels is for the
selected category and page, a pending sign-in has the form on the screen), which
`PageIsSelected` needs when an answer is rendered, and `FormIsEmpty` (no channels
behind the form). The lemmas `Quotient` and `LastStart` are the arithmetic: the
last page of a list starts at a multiple of the page size and below its total, so
that a reload for a list that has shrunk asks for a page there is. The last three
theorems need a second invariant, `Rest`, proved on top of the first: while
channels are awaited the page is empty, its place is saved and there is nothing to
retry (`AwaitedIsSaved`), so that a failure leaves a page that is saved and an
answer one that no stale retry button belongs to. Its lemmas follow what the
handlers share: `LoadRests`, `AskRests`, `EndRests` and `ClearRests` are
loadChannels, any other request, the end of an answer and clearSession.

`CategorySnapshotsProofs` proves every property of the `snapshots` run, for any
titles, tuners, channels, records, page sizes and bounds. The hypothesis everything
rests on is what the match loop keeps up: a channel is matched once
(`ChannelsMatchedOnce`), and what was matched are the deciding records in the order
read (`MatchedDecides`); these and the types are its `IndInv`. The rest is about
functions of a list without a channel twice, each characterised by one lemma:

- `GroupsAre` and `SnapshotIs`: the groups are one for every key, with its channels
  in order, and the snapshot is the groups by name. `SnapshotCorrect` and
  `IdsCorrect` follow, since `KeyIsExact` says the key loses nothing;
- `SameNames`: two lists with the same keys, both by name, have the same names at the
  same places, though the order leaves groups with one name as they came (a title
  "Uncategorised" and the missing one). It counts the names below a place in both.
  `OrderCorrect` follows;
- `ViewIs`: filtering a snapshot gives the groups of the filtered list, by name, so
  `SnapshotsAgree` makes it the snapshot of that list; with `PagesAreAll`, that pages
  in sequence put together are the list, this is `ViewCorrect`;
- `FirstKept` and `SortedHas`: a client's list has the first of every id among what it
  accepts, rearranged; since no client refuses what the service sends
  (`EntryUsable`), the entry added by hand cannot cost another its place:
  `ListsCorrect`. It needs `IdAssumption`: an id of the plugin, which
  `CreateCategoryId` gives a prefix, is neither blank nor "all-channels";
- `StartsAre`: the pages a client asks for start at the multiples of its page size, as
  many as it takes (`PagesNeeded`), so `PagesAreAll` applies: `PagesCorrect`;
- `IndexIsGroups`: the builder asks whether a channel is in a group already and the
  prototype does not; in a list without a channel twice the question is always
  answered no (`NotYetGrouped`), so both build the same groups: `PrototypeCorrect`.

`Groups`, `TotalOf`, `Joined` and `BuildCategoryIndex` are recursive functions over
the places of a sequence, and orders are given by rank (`InOrder`, `Ascending`,
`Selected`) rather than by a fold, so that they can be reasoned about. Induction is
over the set of places for which a statement holds (`Induction`, from the library's
well-foundedness of the naturals), which needs no operator as a parameter; that a
recursion has a solution is proved once, for a sequence of functions (`Recursion`),
and that an order has only one enumeration is `OrderIsUnique`.

`ModernViewProofs` proves `TypeCorrect`, `BackSafe` and `MemorySafe` for any lineup,
page size and depth of the history. Every navigation goes through `Show` and
every focus through `Focus`, so the argument is that a navigation hands `Show` a
history that is `Sound`, and that both keep it so. `IndInv` adds `StateIsEntrys`
(the router's state and the entry differ in the remembered channel only, which
makes the flag in a replaced entry the entry's own) and `FocusIsShown` (what gets
the focus is on the page, which makes what is remembered so). `PushStep` is about
the one history that is not sound: choosing a category rewrites the list's entry,
which the entry ahead may have been opened from, before the navigation drops it.

A second invariant on top of it, `FocusInv`, proves `CategoryFocusSafe` and
`RefSafe`. The ref outlives the entry it was written for, so the argument is about
neighbours in the history: two pages of channels never lie next to each other
(`Apart`), an entry that is not one remembers no channel (`Plain`), so wherever the
view shows an entry that remembers a channel the ref has been written from it
(`RefIsWritten`). `ReturnIsState` says that what the user comes back from is what
the list remembers. A tile is no card (`TileAssumption`): the ids of categories and
of channels are of different forms.

Only model-checked: liveness (`EveryRequestAnswered`, `ComesToRest`), which is
out of the prover's reach, as is anything about `ENABLED`; and the three runs that
find a violation, which are counterexamples. Every invariant and action property
of the passing runs is a theorem. Only proved, and not in a run: the type
invariants, `ChannelsMatchedOnce`, `FailuresAreNotServed` and `FreshnessSafe`; the
last two are what `ImplementsService` says of `ReadSnapshot` and `TakeCurrent`.

## 7. Not modelled

- The focus of the legacy tab and of the overlay: `autoFocuser` and the keyboard's
  geometry decide it, and no document promises more than that it is restored. Of
  the modern view, where it is kept in the history, it is modelled.
- The compatibility and diagnostics endpoints only read: the state `BundledWeb`
  decides by, the diagnostics `CategoryIndex` keeps. The order in which requests
  that evaluate different settings are logged (`PluginWebClientStartupFilter.cs`)
  concerns nothing but the log.
- The Dispatcharr helper checks the server's configuration and posts what is
  missing. A rerun after an interruption finds what was added; what two runs at
  once do is decided by Jellyfin, which is not in the repository.
- The discovery collector, probes and workflows drive external servers and keep
  no state; `web/src/category-page.mjs` builds an element tree nothing drives.
- Styles, texts, icons, focus rings, pictures; the plugin's own build; cache
  headers and the paths of static files.
- Known and left as it is: a category that has shrunk to one page while a later
  page is shown leaves the legacy tab with an empty page without Previous
  (`livetvcategories.js:223`).
- External, modelled as the code in `src/` uses it: Jellyfin's managers, tuner
  hosts, browsers' history and Back cache, the file system, the tree's owner, the
  maintainers.
