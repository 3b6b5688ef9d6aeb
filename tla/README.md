# A specification of the policy management API

The policy management API keeps the file-processing policies of a Glasswall
deployment on a mounted share.  A policy is drafted, published (which makes it
the *current* policy and files the one it replaces under *historical*) and later
looked up, listed, published again or deleted.  The current policy is distributed
to the services that enforce it.  This directory specifies that system in TLA+,
checks it with TLC and proves its safety with TLAPS.

All paths below are relative to the repository root.

## 1. The system

| Component | Source | State | Operations |
|---|---|---|---|
| Policy service | `PolicyManagement.Business/Services/PolicyService.cs` | none of its own: everything is on the share | GetDraft, GetCurrent, GetPolicyById, SaveAsDraft, Publish, Delete, list and count the history |
| File store | `PolicyManagement.Business/Store/FileStore.cs`, `HistorySearch.cs` | the share `/mnt/policies`: `current/policy.json`, `draft/policy.json`, `historical/{id}/policy.json` | Exists, Read, Write, Delete, Search; each file-system call is retried |
| Policy model, serialiser | `PolicyManagement.Common/Models/PolicyModel.cs`, `.../Serialisation/JsonSerialiser.cs` | id, type (draft, current, historical), dates, the Adaption and NCFS settings | ToDraft, Default; JSON |
| Policy endpoints | `PolicyManagement.Api/Controllers/PolicyController.cs` | none | ten HTTP endpoints over the service and the distributer |
| Function front end | `PolicyManagement.Api.Function/PolicyControllerFunction.cs` | none | routes an Azure Function trigger to the same controller |
| Policy distribution | `.../Services/PolicyDistributer.cs`, `.../BackgroundServices/*PolicyDistributer.cs`, `PolicySynchronizationBackgroundService.cs` | a static endpoint list per synchroniser | send the current policy to every endpoint; redistribute when the endpoint list changes |
| Configuration | `PolicyManagement.Api/Startup.cs`, `Program.cs`, `PolicyManagementApiConfiguration.cs` | the settings in memory; one snapshot per request | load, validate and bind |
| Configuration reload | `PolicyManagement.Api/Configuration/ChangeTracking/*.cs` | per watched file: token, timer, checksum, callbacks | Watch, CheckForChanges, RegisterChangeCallback, Dispose |
| Documentation site | `gh-page/` | build: `process.env`, Node's module cache; browser: what the reader has opened | `config/*.js` make the webpack configuration; the pages render the API description |

**How they interact.**  ASP.NET serves every request on a thread of its own.
Controller, service and store are made anew for each request and share nothing in
memory; they meet only on the share.  `PublishAsync` reads the policy to publish
(by id, from historical, current or draft), reads the current policy, writes the
new current policy, deletes the directory it came from and writes the replaced
policy into the history.  These are five phases of about a dozen file-system
calls.  There is no lock, no rename and no version check anywhere, and several
replicas may mount the same share.  Every request starts by reading the settings,
which a timer's thread replaces when their file has changed.

**What is hard.**
- Two requests interleave between any two file-system calls: what a publish has
  read may be gone when it writes.
- `Directory.Delete` recursive is an unlink and a rmdir; `WriteAsync` is mkdir,
  exists, unlink, open and write; each can meet the other half-way and throws.  A
  call that throws is retried ten times at once, and then the request fails with
  whatever it had done so far.
- The process may die between any two steps and leaves an empty or torn
  `policy.json`, or a policy in two places or in none.
- A lookup by id reads three places in turn while policies move between them; a
  listing takes the names of the directories first and reads them one by one; its
  page bounds are 32-bit products.
- Distributions overlap with each other and with publishes, and a put that has
  timed out may still be applied.
- A change of the settings file is noticed by comparing checksums, the first of
  which is taken after the file was loaded; the tick that notices it disposes of
  the token it runs for, and throws, which ends the process, when the file is away.
- The modules of the site's build configuration read `process.env` when Node loads
  them, and one of them changes it and the module cache half-way.

**What makes it correct.**  No published policy and no saved draft is lost; there is
one current policy and it is not historical as well; what is in a directory is what
its name promises; a lookup or a listing finds what is there; every request is
answered; what a crash can cost is bounded; endpoints enforce the policy that was
distributed last, and one that fails keeps nothing from the others; a change of the
settings is loaded once, by one thread, and a request is served with the settings
of one document; the site's configuration is made of what the shell and the `.env`
files say.

## 2. Modules

| Module | Models | Correspondence |
|---|---|---|
| `FileStore` | `FileStore.cs` and the file system under it | `store[d]` is directory *d* with its one file: `NoDir`, `NoFile`, `Blank` (created, not written), `Garbled` (does not parse) or a policy. `handle[r]` is the file that request *r* has open for writing, `Orphan` once somebody unlinked it. One operator per file-system call. |
| `PolicyService` | `PolicyService.cs`, the controller's six store endpoints, the retries of `FileStore.cs`, crashes | `pc[r]` is the file-system call request *r* makes next; `found`, `current`, `data` and `target` are the locals `policyToPublish`, `currentPolicy`, the document and the path being written; `tries` counts the attempts of the pending call. One action per call. |
| `PolicyArchive` | what publishing promises | the current policy, the history, and two atomic steps `Promote` and `Remove` |
| `PolicyRefinement` | that `PolicyService` implements `PolicyArchive` | the refinement mapping |
| `HistoryListing` | the controller's two history endpoints, `SearchAsync`, `HistorySearch`, listing and counting; composed with `PolicyService`, whose requests move the policies meanwhile | per lister: `entries` are the directory names of the search, `index` is `policyIndex`, `listed` is `policies` (`Null` for an entry that was gone), `total` is `TotalPolicies`. `Wrap` is unchecked `int` arithmetic. `untouched` and `quiet` only observe. |
| `PolicyDistribution` | `PolicyDistributer.cs`, the two synchronisers, a tick of the background service, the two endpoints that distribute | a *task* is one request or one tick; `pc[t]` is its next step, `settings[t]` the configuration of its scope, `pos[t]` the loop's position, `policy[t]` the policy it read. `cache` is the static `_endpointCache`. `wire` holds the puts under way, `held[e]` is what endpoint *e* enforces. |
| `ConfigReload` | `ConfigMapFileProvider.cs`, `ConfigMapFileProviderChangeToken.cs`, the file provider of `Program.cs` that uses them, `ValidateAndBind` of `Startup.cs` | tokens are numbered, `last` is the one in `watchers`; `timer`, `checksum` and `callback` are its fields; a token's ticks run on the thread of that number, `Main` on thread 0; `data` is the provider's `Data`; `step`, `at` and `bound` say how far a request has come with reading its settings. |
| `SiteConfiguration` | `gh-page/config/paths.js`, `env.js`, `modules.js`, and how Node loads them | `env` is `process.env`, `cache` is `require.cache`, `stack` the modules being loaded; `paths[m]` is the instance of `paths.js` that module *m* holds, told by the `PUBLIC_URL` it has read. |
| `SiteBundle` | `webpack.config.js` | `Bundle(mode)` is what the exported function returns |
| `MC*` | | symmetry sets, endpoint lists, documents, pages and checkouts for TLC |
| `*Proofs` | | the theorems and their proofs, section 4 |

**The steps of a publish.**  `Publish`, then `FindHistorical`/`ReadHistorical` (or
on to `current/`, `draft/`, as in `GetPolicyByIdAsync`), `FindOld`/`ReadOld`
(`currentPolicy`), `MakeDirectory`, `CheckFile`, `UnlinkOld`, `OpenNew`,
`WriteData` (the new current policy), `CheckDirectory`, `RemoveFile`,
`RemoveEmptied` (its source) and again `MakeDirectory` to `WriteData` (the replaced
policy, into `historical/{id}`).

**Abstractions of the store.**
- A policy is its id, its type and its *body* (all the settings); dates and
  `UpdatedBy` are left out, no decision depends on them.
- An answer that the service makes up is `Null` in `found[r]`: the `Default` policy
  of `GET draft` and `GET current` and the draft made from the current policy.  They
  carry an id of their own (`Guid.NewGuid`), so no lookup by id ever matches them.
- `Guid.NewGuid` picks an id that is in use nowhere (`FreshIds`).  `Known` are the
  ids on the share at first; at least one id must be left over.
- `File.OpenRead` and the read that follows it are one step, so is the second
  `Exists` inside `ReadAsync`: if the file goes between the two, the read fails in
  either case (`ParseThrows`).
- On Linux, `FileShare` is an advisory lock and `WriteAllBytes` takes it shared, so
  two writers may have one file open.  The second one writes over the first one's
  bytes: the result is the second document or, if the first was longer, garbage.
- An empty file makes `CopyToAsync` throw (its buffer size is the file's length); a
  garbled one makes the parser throw.  Both end in a failed request, the first
  after its retries.
- The API's clients are arbitrary: any id in a lookup, any policy, with any id and
  type, in a save.
- `Init` is any share that earlier requests may have left when none was running.

**Faults** (`MaxFaults` of them): `IOError` ends one request at any point,
`WriteAgain` is a write that fails once and is retried, `Crash` ends all requests
in flight.  A write that is interrupted leaves its file as it is or garbled.
What a completed call did is taken to be durable.

**Listing the history.**  A search reads the names under `historical/` in one step
and in any order.  `FindEntry` and `ReadEntry` are the two looks at each entry: one
that is gone at the first is `Null` in the answer, as in the code, one that is gone
at the second fails the whole listing (`ReadEntryThrows`, which also stands for a
blank file after its retries).  For a page, `Collected` and `PastPage` are the two
comparisons of the controller's loop and `CountHistory` is the second search.  A
request for a page without `Pagination`, which fails with 500 before it touches
anything (`PolicyController.cs:78`), is not modelled.

**Distribution.**  `Distribute` is a request; `Read`, `GetToken`, `PutPolicy`,
`Answered` and `CallFails` are the awaits of the loop, and `CallFails` is its
`catch`.  `Tick`, `Compare`, `Remember` and `NextSynchroniser` are
`DistributeCurrentPolicy` with the NCFS and then the Adaption synchroniser.  *The
timer that would run them is commented out in this version*
(`PolicySynchronizationBackgroundService.cs:31`), so `TimerStarted` is `FALSE` for
the system as it is deployed; the runs with `TRUE` check the synchronisers, which
are registered and tested, for the day it is started.  Policies are numbered in the
order in which they became current, and a publish takes the current policy away
for a while (`PublishBegins`, `PublishEnds`), as `FileStore.WriteAsync` does.  The
two kinds of distribution differ in endpoint list and payload only; payloads are
left out.  Everything the HTTP library throws is a `FlurlHttpException` here, a
malformed endpoint included (the tests `WhenNoEndpointsConfigured` and
`WhenExceptionIsRaised`).  `seen` and `missed` are what the log would tell: the
policies an endpoint was given, the endpoints a task's call to which failed.

**Reloading the settings.**  `Tick` is `CheckForChanges`, `TickThrows` its
exception; then the same thread goes on with `Notify`, `Watch` (dispose of the old
token, make the next one and start its timer if the file is there), `Clear` and
`Load` (the provider drops its settings and reads the file) and `Register`.  `Main`
does the same in another order: watch, register, load, with a file that may be
missing.  `Die` is what an exception does on a thread that nobody guards: everything in memory is gone, and
`Restart` is the container platform.  Requests read the keys one by one, first to
validate and then to bind (`Validate`, `Refuse`, `Bind`).  The file of a ConfigMap
is swapped as a whole, so an `Edit` is one step; ticks have no clock; the directory
`config/` is taken to be mounted; a tick that is already queued when its timer is
disposed of is left out.

A watch is being set up from `Watch` until all threads are idle again and its timer,
if it has one, has taken its first checksum (`Settled`).  Two things the model shows
about the code as it is, and `EditsAreNoticed` names each of them: if the file is
away at the moment of `Watch`, the new token's timer never starts and the file is not
watched as long as the process lives (`Unwatched`, also true long after, and edited
or not); and an edit while the newest watch is being set up is not noticed if it
comes between the load and the first checksum, which is then the checksum of a
document that was never loaded (`Overlooked`).  `raced` says of the newest watch only
that an edit fell into its set-up; the next `Watch` takes it back.

**The build configuration of the site.**  `package.json` builds with react-scripts
3.4.1, and `gh-page/config/` is an ejected configuration that no script of the
repository calls; so nobody fixes who requires its modules, and `Require` takes them
in any order.  `Requires` lists what each module requires of the others, in order.  `LoadEnv` adds
what the `.env` files say to `env`, cleans `NODE_PATH` and takes `paths.js` out of
the cache.  `webpack.config.js` requires `paths.js` and `modules.js` (lines 22 and
23) before `env.js`: unless somebody has required `env.js` earlier, the `PUBLIC_URL`
of a `.env` file does not reach its `publicPath`, and `modules.js` searches absolute
folders of `NODE_PATH` too.  The comments promise this only for modules that are
loaded after `env.js`, and so do `LatePathsFollowEnv` and `OnlyRelativeFolders`.
Of the style loaders `StyleMaps` keeps the option `sourceMap`: css-loader,
postcss-loader and resolve-url-loader take the switch in production, sass-loader
always makes a map, which the others then pass on or not.  babel-loader gives packages no
maps in either mode (`PackageMaps`).  Left out of `Bundle`: the lists of rules and
plugins, and options that only one tool looks at and that nothing else in the
configuration depends on.

## 3. Runs

| Run | Specification, bounds | Checks |
|---|---|---|
| `free` | `FairSpec`; 2 requests of all six kinds, 4 ids (2 known), 1 retry, 1 fault | `TypeOK`, `ContentMatchesPlace`, `GapHasAWriter`, `TornCurrentStays`, `WorkIsBounded`, `EveryRequestAnswered` |
| `onemover` | `OneMoverSpec`; 3 requests (save, publish, delete), 2 retries | `PublishedIsKept`, `CurrentNotInHistory`, `ImplementsArchive` |
| `serial` | `SerialSpec`; 3 requests of all six kinds, 2 bodies, 1 fault | `SavedDraftIsKept`, `OneAtATimeIsClean`, `LookupFinds`, `OnlyCopyIsKept` |
| `history` | `FairListingSpec`; 1 listing beside 1 publish or delete, 4 ids (3 known), 7 pages, 4-bit ints, 1 fault | `ListingTypeOK`, `ListedThroughout`, `AtMostPageSize`, `QuietPageIsRight`, `EveryListingEnds` |
| `distribution` | `FairSpec`; 2 tasks, requests or ticks, 3 endpoints, 2 policies, 1 edit of the endpoints, 1 fault | `TypeOK`, `EveryEndpointIsTried`, `CachedMeansTried`, `EveryDistributionEnds` |
| `distribution_serial` | `SerialSpec`; 3 requests, 3 policies, 2 faults | `DistributedIsCurrent` |
| `config` | `FairSpec`; 3 edits among 3 documents, one that does not parse and none; 2 keys, 1 request | `TypeOK`, `OneReload`, `SettledWatchIsTrue`, `ServedAreWhole`, `EditsAreNoticed` |
| `site` | `Spec`; 756 checkouts | `TypeOK`, `LatePathsFollowEnv`, `DotenvPrecedence`, `OnlyRelativeFolders`, `MapsAreSwitchedOff`, `PublicUrlIsPublicPath` |
| `lost_publish` | `Spec`; 2 publishes, 4 ids (3 known), no faults | violation, see below |
| `missed_lookup` | `Spec`; 2 requests | violation, see below |
| `distribution_race` | `Spec`; 2 requests, no timer, no faults | violation, see below |
| `republish` | `SerialSpec`; 3 publishes, 1 crash | violation, see below |

`Spec`, `OneMoverSpec` and `SerialSpec` differ in what clients do: `Spec` lets requests
interleave freely, `OneMoverSpec` has at most one publish or delete in flight (and
any number of saves and reads), `SerialSpec` one request at a time.  The second and
the third say what a deployment gets whose callers keep to that discipline, which
the code does not enforce.

**What the passing runs show.**
- *Whatever interleaves* (`free`): `ContentMatchesPlace`, every policy that can be
  read has the type, and in the history the id, of its directory.  This is what lets
  `PublishAsync` decide by `PolicyType` where a policy came from.  `GapHasAWriter`:
  without faults no interleaving of writes, deletes and retries leaves a directory
  without its file.  `TornCurrentStays`: a crash in the middle of writing
  `current/` is final, no endpoint repairs it, except a publish that had already
  read the old one.  `EveryRequestAnswered`: two requests can undo each other's
  calls, and the limit on retries is what ends that.  `WorkIsBounded` says why: a
  request has at most 22 different calls before it, each that returns leaves fewer
  of them, each that throws leaves fewer attempts at the same one, and whatever the
  others do to its files, they take neither back.  The mutant that does not count
  attempts violates both.
- *One mover* (`onemover`): publishing is atomic.  `ImplementsArchive` maps the five
  phases onto one step of `PolicyArchive`, taken when the replaced policy is
  written; until then the archive is what the publisher read.  `PublishedIsKept`
  and `CurrentNotInHistory` state the consequences in terms of files.  The run has
  as many retries as saves can be in flight.  That matters: a save may re-create
  `draft/policy.json` between the unlink and the rmdir of a publish, each save once,
  and a publish that runs out of retries there has already overwritten `current/`
  and never archives what it replaced.  With the code's ten retries that takes
  eleven saves; with one retry and two saves TLC finds it, so the theorems of
  section 4, which allow as many saves as retries, cannot allow one more.
- *One at a time* (`serial`): no request fails and no debris is left
  (`OneAtATimeIsClean`); saved drafts stay until saved over, deleted or published
  (`SavedDraftIsKept`); a lookup misses nothing, even after a crash
  (`LookupFinds`).  `OnlyCopyIsKept` bounds what a crash can cost: the last copy of
  a policy goes only when the policy is deleted, when it is a draft being saved
  over, or when it is the current policy and a publish is replacing it.
- *History* (`history`): a policy that stays in the history while it is being listed
  is in the answer exactly once, whatever else goes or comes (`ListedThroughout`); a
  page is never longer than asked for, also when index times size wraps
  (`AtMostPageSize`); when nothing moves, every page that fits into an int is the
  right one, with the right total (`QuietPageIsRight`); and every listing ends.
- *Distribution* (`distribution`, `distribution_serial`): a failing endpoint takes
  nothing from the others (`EveryEndpointIsTried`); a synchroniser never goes quiet
  about an endpoint it has not tried, whatever configurations overlapping ticks have
  seen (`CachedMeansTried`; it does go quiet about one that has failed);
  distributions one at a time leave the current policy enforced wherever no call has
  failed (`DistributedIsCurrent`, which depends on every put being awaited); and each
  comes to an end.
- *Settings* (`config`): never do two threads reload at once, nobody registers with a
  disposed token and only the newest one has a timer (`OneReload`); with a watch that
  has been set up somebody is registered and, unless an edit fell into its set-up,
  its timer compares with what is loaded, or nothing is loaded and it has no timer
  (`SettledWatchIsTrue`); a request that no reload overlapped is served with all the
  settings of one document (`ServedAreWhole`); and a document that stays in the file
  gets loaded, also after one that did not parse and after a tick has found the file
  away, unless the newest watch is `Unwatched` or has `Overlooked` it
  (`EditsAreNoticed`; without either excuse TLC finds it violated).
- *Site* (`site`): `env.js` and `paths.js` work together in whatever order modules
  are required (`LatePathsFollowEnv`); the shell comes before the `.env` files and
  the particular file before the general one (`DotenvPrecedence`); late modules
  search relative folders (`OnlyRelativeFolders`); what the shell or the most
  particular `.env` file says of `GENERATE_SOURCEMAP` reaches every part of a
  production bundle (`MapsAreSwitchedOff`); and all of a bundle agrees where the site
  is (`PublicUrlIsPublicPath`).

**Fairness.**  A thread that has a call to make makes it in the end: `FairSpec` of
`PolicyService` has weak fairness of `Work(r)` for each request, `FairListingSpec`
the same for each listing, `PolicyDistribution` for each task.  The thread pool
gives every accepted request a thread, and nothing in the code blocks on another
request.  Arrivals are not fair, clients need not come; faults and edits are not
fair.  In `PolicyDistribution` a put under way arrives or fails: the HTTP client does
not wait for ever.  In `ConfigReload`, timers fire, their threads and requests run
and a container that has ended is started again, which is what its platform is for.
Runs that check liveness use no symmetry.

**What the violations show.**  Each contradicts a sentence of the API description
`gh-page/src/components/swagger/api.yaml`:
- `lost_publish` (line 151): policy C is current, and publishes of A and of B both read
  it as the one they replace.  A is published, C archived, and A's client answered
  200.  B then comes to unlink A with C in memory as the policy to archive: nobody
  archives A.
- `missed_lookup` (lines 15, 33): the lookup looks into `historical/` before the
  current policy is archived and into `current/` after it was replaced.
- `distribution_race` (line 173): a distribution reads policy 1, policy 2
  is published and distributed, answered 200, and then the first distribution puts
  policy 1: that is what the endpoint goes on enforcing.
- `republish` (line 155): a crash before the source is deleted leaves the current
  policy in the history as well, and publishing its id then runs in full.

That is why `PublishedIsKept` is checked with one publish or delete at a time.  Two
publishes may also both open `current/policy.json` before either writes: the second
document lies over the first, both are answered 200 and no current policy can be read
(`Garbled`; `TornCurrentStays` says that it stays so).  Saved drafts have the same
weakness as published policies: a publish of draft A deletes `draft/` recursively, and
that may unlink the file that a save of draft B has just opened or written; the save is
answered 200 and draft B is nowhere.  TLC finds this when `SavedDraftIsKept` is put to
`OneMoverSpec`, which is why it is checked for one request at a time.

**Bounds.**  Two requests show every pairwise interleaving; an invariant about one
directory is broken by two actors.  Three requests in `onemover` allow a publish
beside two saves, the least that makes its rmdir fail twice; three in `serial`
allow save, publish, lookup, or a crashed request and two after it.  Four ids are
two known policies, one id for a saved draft and one for a made-up default; ids and
requests are interchangeable, and symmetric where only safety is checked.  One body
suffices where policies are told apart by id, two where a save may change one.  One
or two retries stand for ten: the count matters only in relation to the number of
requests, see above.  One fault stands for any number that are far apart.

For `history`, three known policies give lists of several entries, of which one
may go and another come while they are read; the seven pages contain pages that fit,
the last one, empty ones, negative ones and two whose bounds wrap, in 4-bit ints (`Span = 8`), which
wrap where 32-bit ints do.  For distribution, two tasks show every race of two, three
in a row let a put that timed out in the first arrive after the second; lists of one
and of two endpoints that share one show what an edit adds and removes.  For
`config`, three edits are one that is noticed, one that races the set-up it causes
and one after that; a document that lacks a key lets `ValidateAndBind` refuse.  For
`site`, a checkout combines 36 shells, 3 sets of `.env` files (silent, all
different, a few) and 7 forms of `homepage`, `tsconfig.json`, `jsconfig.json` and
`baseUrl`, two of which are refused.  The run may stop (`CHECK_DEADLOCK FALSE`): an
exception ends the build.

## 4. Proofs

The theorems hold for every value of the constants: any sets of requests, ids,
bodies, endpoints, documents and checkouts, any number of retries, faults and edits.

| Module | Theorem | States |
|---|---|---|
| `PolicyServiceProofs` | `TypeCorrect`, `PlacesCorrect`, `GapsAreFilled` | `Spec => []TypeOK`, `[]ContentMatchesPlace`, `[]GapHasAWriter` |
| | `TornForGood`, `BoundedWork` | `Spec => TornCurrentStays`, `Spec => WorkIsBounded` |
| `PolicySerialProofs` | `OneAtATimeHolds`, `CurrentIsNotHistory`, `PublishedStays`, `SavedDraftStays` | `SerialSpec => []OneAtATimeIsClean`, `[]CurrentNotInHistory`, `[]PublishedIsKept`, `[]SavedDraftIsKept` |
| | `CurrentIsLeftAlone` | `SerialSpec => [](faults = 0 => PublishCurrentDoesNothing)`: what the run `republish` shows takes a fault |
| `PolicyCrashProofs` | `LookupIsRight` | `SerialSpec => []LookupFinds`, with crashes and I/O errors |
| | `LastCopyHolds` | `SerialSpec => OnlyCopyIsKept`, with crashes and I/O errors |
| `PolicyRefinementProofs` | `CurrentWhenSteady`, `PublishedWhenSteady`, `ImplementsWhenSteady` | `SteadySpec => []CurrentNotInHistory`, `[]PublishedIsKept`, `SteadySpec /\ [](faults = 0) => ImplementsArchive` |
| | `CurrentWithOneMover`, `PublishedWithOneMover`, `ImplementsWithOneMover` | the same of `OneMoverSpec /\ []FewSaves` |
| | `PublishedAmongFew`, `ImplementsWhenSerial` | `OneMoverSpec => []PublishedIsKept` with at most `MaxRetries + 1` requests, `SerialSpec /\ [](faults = 0) => ImplementsArchive` |
| `HistoryListingProofs` | `ListingTypeCorrect`, `PagesAreBounded`, `NothingIsSkipped`, `QuietPagesAreRight` | `ListingSpec => []ListingTypeOK`, `[]AtMostPageSize`, `[]ListedThroughout`, `[]QuietPageIsRight` |
| `PolicyDistributionProofs` | `TypeCorrect`, `AllEndpointsTried`, `CachedWasTried` | `Spec => []TypeOK`, `[]EveryEndpointIsTried`, `[]CachedMeansTried` |
| | `SerialIsCurrent` | `SerialSpec => []DistributedIsCurrent` |
| `ConfigReloadProofs` | `TypeCorrect`, `OneReloadHolds`, `SettledWatchHolds`, `ServedAreWholeHolds` | `Spec => []TypeOK`, `[]OneReload`, `[]SettledWatchIsTrue`, `[]ServedAreWhole` |
| `SiteBundleProofs` | `TypeCorrect`, `LatePathsHold`, `DotenvHolds`, `FoldersAreRelative` | `Spec => []TypeOK`, `[]LatePathsFollowEnv`, `[]DotenvPrecedence`, `[]OnlyRelativeFolders` |
| | `MapsHold`, `PublicUrlsHold` | `Spec => []MapsAreSwitchedOff`, `[]PublicUrlIsPublicPath` |

Every invariant and every action property that a passing run checks is stated by one
of these theorems.

**Assumptions**, each stated with the constants of its module: `NamesAreDistinct`
and `ParametersFit` (markers differ from policies and directories; known ids are
ids), `NoDirIsNoPolicy` (for the refinement: no policy looks like "none"),
`PagesFit` (pages are pairs of ints, ids are finitely many), `ListsOfEndpoints`
(lists are finite and not empty, as `Split` returns them), `SettingsFit` (keys are a
non-empty list, markers are no documents), `ProjectsFit` (the variables and files
there are; `homepage` and each `PUBLIC_URL` is a url or unset).

Two hypotheses are about the clients and stand in the theorems themselves.
`SteadySpec` is one publish or delete at a time, beside any reads and saves, in
behaviours in which no publish that is past its reads is given up.  `FewSaves` implies
that under the same discipline: once anybody publishes there are, over the whole run,
no more saves than a failing call is retried (ten).  Without either, the three
properties are false of `OneMoverSpec` (section 3), so this is as far as a theorem
can go.

**The store: `PolicyServiceProofs`.**  `ContentMatchesPlace` is not inductive: that
the bytes a request writes fit the directory depends on what it read several steps
ago.  The inductive invariant `IInv` adds `LocalsOK`, which ties each program counter
to the locals (a writer's document fits its target, a publisher past its reads has
found a policy, only `draft/` and the history are ever deleted), and `HandlesOK`,
which says that only a request about to write has a file open, and that it is its
target's unless it was unlinked.  `GapHasAWriter` is inductive relative to `IInv`:
the step that makes a gap is one of a request that goes on working on that
directory, and the step by which such a request leaves it either removes the
directory or fills the file.  `TornCurrentStays` holds step by step from `IInv`:
every step that could change `current/` belongs to a publish past its read of it, and
a publish gets past that read only if it can read it.  The proof has one lemma per
way the control flow moves and one per file-system call, and one step per action.
For `WorkIsBounded`, `CallsInOrder` compares the calls still to be made from every
label a call can lead to; the measure is lexicographic, calls first and attempts at the
pending one second.

**One at a time: `PolicySerialProofs`.**  `SerialInv` walks through a request.  It is
the only one in flight, so what it has read is still there when it writes: `Working`
says what the directory it works on holds at each call (so none throws), `Looking`
what a lookup has ruled out, and further parts that a publish holds in memory exactly
what it has taken off the share.  At rest nothing is half done and no policy is in
two places.  `KeepingInvariance` adds, per request that was answered, where its policy
is by now.

**After a crash: `PolicyCrashProofs`.**  No step is assumed to succeed.  A lookup's
position tells what it has ruled out (`RuledOut`), and once it has found nothing the
policy is `Gone`: neither on the share nor in what a publish has read, and only a
save brings one from outside.  `OnlyCopyIsKept` goes through the calls that remove or
overwrite a file.

**The refinement: `PolicyRefinementProofs`.**  Saves may write `draft/` at any moment
beside the mover (the publish or delete), so `SerialInv` does not carry over.
`MoverOrder` keeps what does: outside `draft/` a mover finds every directory as it
expects it (`AtHand`), and a publish holds in memory what it has taken off the share
(`Carried`); of `draft/` it says only that the directory is there while a publish
empties it.  This gives the three `Steady` theorems.  Only that emptying can throw
under a mover, when a save has put its file there between unlink and rmdir.
`Outlasts` counts: the attempts that have failed, and the one about to fail because a
file is there again, are no more than the saves that have opened a file (`Opened`).
Each save does that once, so with `FewSaves` the attempts suffice (`OneMoverIsSteady`).  For
the refinement, every call of a publish leaves the archive's view alone, except
`WriteData` of the archived policy, which is `Promote`; every call of a delete except
`RemoveFile`, which is `Remove`; and calls beside a mover all stutter
(`BesideStutters`).

**The history: `HistoryListingProofs`.**  What a listing has collected lies, entry by
entry, behind its index (`Walk`), an untouched directory can still be read
(`Unmoved`), and a page holds no more than the distance of its two bounds (`Page`);
wrapping a sum can only bring the upper bound down (`WrapBounds`).  The other
requests keep the invariant of `PolicyServiceProofs`, which is part of this one.
`QuietPageIsRight` is about a listing with nothing moving (`Calm`): its count still
holds (`StillCounted`), what it has collected is the beginning of the page up to its
index (`OnThePage`, in `PageSoFar`), and bounds that fit an int are not wrapped
(`WrapFits`).

**Distribution: `PolicyDistributionProofs`.**  The first invariants are about a loop
that is over, so `IInv` says how far a running one has come: `Progress(t)`, every
endpoint before `pos[t]` has been given the policy or its call failed, and while a
task waits its put is under way or has arrived.  `Undisturbed` shows that no step of
another task takes that back, and `AdvanceOK` carries it over the end of the loop into
`done` or into the cache.  `SerialIsCurrent` rests on `OrderInv`: a put that nobody
waits for is on its way only to an endpoint that has missed a call (`NoLatePuts`);
the other endpoints hold the newest policy they were sent (`Newest`), and nothing
older than that is being distributed (`Forward`).

**Settings: `ConfigReloadProofs`.**  `Ownership` says who holds the newest token: a
thread that has been notified holds the one it belongs to, one that is reloading the
one it has just taken, with which nobody is registered before it is done, so nobody
else is notified meanwhile.  `Armed` says that somebody is registered with it or is
going to be.  `Seen` is the life of a watch whose set-up no edit has fallen into: while
it is being set up, everybody sees one file (`SetUp`, `LoadedSoFar`); once it is, its
timer compares with what is loaded (`WatchIsTrue`); and from the tick that notices a
change until the next `Watch` that tick is the only thread at work (`Noticed`,
`Alone`).  `AtOnce` follows a request through its keys.

**Site: `SiteBundleProofs`.**  `env.js` runs once: before that `process.env` is the
shell's and no module is late (`Before`), after that it does not change, and a cached
`paths.js` has read it (`CachedPaths`).  A module being loaded ranks below the one that
required it, so none is loaded twice, and a module gets hold of `paths.js` only while
it is loaded (`PathsAreHeld`).  `webpack.config.js` comes to read its switches only
when `env.js` is in the cache (`StackOK`, `SwitchRead`), and what `env.js` has read of a
variable is what counts of it in the shell and the files (`EnvIsRead`, by
`FilesSayWhatCounts`), however many of them mention it.  What `paths.js` reads is a url
or nothing (`PathsReadUrls`), from which `PUBLIC_URL` and `publicPath` agree
(`UrlsAgree`); a bundle is made in one step.

**Only model-checked**: the four liveness properties, `EveryRequestAnswered`,
`EveryListingEnds`, `EveryDistributionEnds` and `EditsAreNoticed`, since fairness
(ENABLED) is beyond the prover.  Of the first the safety core is proved: `BoundedWork`
leaves to TLC only that a request in flight always has a step to make.
`ImplementsArchive`, `PublishedIsKept` and `CurrentNotInHistory` are checked under
`OneMoverSpec` and proved with the hypotheses above.

## 5. What is left

- One module in which `PolicyService` publishes while `PolicyDistribution`
  distributes.  At present the latter takes a publish as two steps, which is all of
  it that a reader of the current policy can see.
- `EditsAreNoticed` with a clock, to say how soon.

**Not modelled, and why.**
- The Function front end: it has no state and no step of its own.  It routes get, put
  and delete triggers to the same controller (`POST` history is not routed) and turns
  its exceptions into 400.
- The TLS client factory, certificates, CORS, routing and logging: no state and no
  decision that another part depends on.
- The payloads of a distribution and their defaults: pure functions of one policy.
- The site's loader rules, plugins and dev-server options: literals that keep no state.
- The pages of the site, which are static; its `Base64Reader`, jest's transforms,
  `pnpTs.js` and lint rules: pure functions or settings of tools.
- Build and deployment files, tests.
