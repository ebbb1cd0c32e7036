# Warehouse_web in TLA+

Warehouse_web is the web client of SyncServer, the server that keeps warehouses,
goods and operations. The client has a small database of its own (Django users,
bindings of users and devices to their accounts on the server, a copy of the
catalogue, a mirror of the sites); everything else is asked of the server over
HTTP, call by call. Django workers handle requests side by side, no call is
retried by the transport, and no request holds a lock while it talks to the
server. What is hard to get right is therefore nearly always the same: a decision
taken on what was read some calls ago, a call that fails halfway through a series,
and a call whose answer is lost, so that the client does not know what the server
did and what the user should be told. The models are about that.

- [1 Inventory](#1-inventory)
- [2 Common conventions](#2-common-conventions)
- [3 Modules](#3-modules)
- [4 Runs](#4-runs)
- [5 Proofs](#5-proofs)
- [6 Disagreements between code and documents](#6-disagreements-between-code-and-documents)
- [7 Limits](#7-limits)
- [8 Plan](#8-plan)

## 1 Inventory

| Component | State | Operations | What makes it hard, and what must hold |
| --- | --- | --- | --- |
| Acceptance (`apps/operations/views.py`, `forms.py`, `sync_client/assets_api.py`) | the server's registers of pending, accepted and lost goods; the form in the browser | read the pending register page by page, validate, post accept-lines | validation on a stale read, pages that shift, lost answers, second presses; a form is booked once or not at all, and then exactly as it was written, messages are true |
| Operations (`apps/operations`, `operations_create.js`) | the draft in the browser, operations on the server | edit, create, submit, cancel | re-sending after a timeout, a draft lost with the page, a form that stays locked though nothing was sent, racing commands; what is stored is well formed and is the draft, messages are true |
| Temporary items (`apps/temporary_items`) | temporary items and cards on the server | convert (create card, merge, remove card on failure), merge, delete | a saga without transaction, moderators racing; no orphan card in silence, no card removed from under an item |
| User bindings (`apps/users`, `root_admin_client.py`) | account and token on the server, binding in the database | save, sync, rotate, repair, mark, edit the binding | pushes before validation, two stores written one after the other, overlapping administrators; a binding that is wrong is flagged |
| Copy of the catalogue (`apps/catalog_cache`, search in `apps/operations/services.py`) | rows by card | sync by pages, search that stores what it learns | two writers, a catalogue that changes while it is read; complete, and no older without a race |
| Transport (`sync_client/client.py`) | none | one HTTP call with a timeout | a timeout says nothing about the effect |
| Session identity (`session_auth.py`, `simple_sync_signals.py`, `sync_views.py`, `client.py`) | identity and token in the session | login, logout, switch of site, choice of token and site for a call | three places a token can come from, copies that age while administrators rotate and move; a call acts as its user |
| Lost assets (`apps/operations/views.py`, `services.py`, `forms.py`) | the server's register of lost goods | list, show, resolve | as acceptance, at the same time as the acceptance that adds to the losses; no unit is resolved twice or before it was lost |
| Catalogue management (`apps/catalog`) | categories, cards, units on the server | forms, delete, merge, split | forms that post every field as rendered, choices from a paged list that shifts or fails; nothing the user did not touch is changed without a reason |
| Category tree (`apps/catalog/tree.py`, `browse_views.py`) | none; built from several reads | build, expand | parents that are missing or circular, reads at different times; everything is shown, the walk ends |
| Site mirror (`apps/users`) | rows in the database | refresh on every listing, create, change | replacement row by row, names that swap, lists that are cut; exact after a quiet refresh |
| Device bindings (`apps/users`) | device and token on the server, binding in the database | create, change, sync, rotate, repair, mark | transactions around calls, whole rows saved from old reads; orphans and wrong tokens only where an error said so |
| Creation of users (`apps/users`) | account on the server, user and binding in the database | one form, three calls | a fresh id for every attempt, calls before the form is known to be valid; the user that is created is whole |
| Documents, balances, recipients, permissions, error decorators, legacy pages | none of their own | one call each | not modelled, see [7](#7-limits) |

How they interact: the views of a component build a `SyncServerClient` per
request, which takes the token from the user's *binding* and else from the
*session*; a few readings (all the sites, the balances) are made as root for everybody. *Search* serves both operations and temporary items. Temporary items
are born as lines of an *operation*, and the lines of an operation that was
submitted become the pending register of its *acceptance*, whose losses become
*lost assets*. There are no background jobs, queues or callbacks; a management
command (`sync_catalog_cache`, `repair_sync_users`) is one more process.

## 2 Common conventions

**Requests.** A request of the web client is a model value: one POST of a form or
one press of a button. `pc[r]` says where its view is, and a view is cut into
actions at its HTTP calls, since between two calls of a view other requests
run. What happens between two calls is one action, early returns included.

**Calls.** Sending puts the call into `wire`. The server takes a call out of
`wire` and handles it in one transaction (`Book`, `Create`, `MergeItem`, ...), or
refuses it (`Refuse`: any of 4xx and 5xx without an effect), and writes
`answer`. The client reads the answer, or gives up at any time
(`SYNC_SERVER_TIMEOUT`, a broken connection) *without* taking the call back: so an
effect can come before the timeout, after it, or never. A lost call is `LoseCall`,
or, where nothing waits for it, a call that stays in `wire`. Reads have no effect
on the server; they are one atomic action, and their failure is an action too.

**The server** is not in this repository. Its actions are modelled from what the
client sends and what it does with the replies, and `map` marks them external; the wrappers of
the client that send the calls stand behind `Sends`, `Send`, `SendsLoss`, `Order` and `Calls`. No more is assumed of it than the code relies on: a call is atomic, quantities above
what is pending are refused, a merge needs an active item and an existing card, a
`client_request_id` names one operation.

**Messages.** `outcome[r]` is the kind of message the user sees in the end. Most
safety properties have the form: what was said is true, *and stays true*.

**History variables** (`raced`, `done`, `gaveUp`, `doubt`, `overtaken`,
`disturbed`, `lossRaced`, `stale`, `failed` of `CatalogAdmin`, `treeRaced`, `outdated`, `exact`, `crossed`, `suspect`)
record what happened and guard nothing.

**Bounds.** Every set of requests is finite, and each request runs once. The other bounds are
named constants in the guards: `MaxVersion` (`CatalogCache`, changes of a card), `MaxForms` (`AssetRegisters`, forms
begun, of both kinds together), `MaxBegun` (`CatalogTree`, requests and page views together), `MaxMoves` (`Session`, changes
of administrators), `MaxRenames` (`SiteMirror`, changes made elsewhere) and `MaxCalling` (`DeviceBinding`,
requests that call). There is no state constraint.

## 3 Modules

### Acceptance, AcceptanceLedger, AcceptanceProofs, MCAcceptance

`AcceptanceLedger` is the abstract specification: the registers of one operation,
`pending`, `stock` and `lost`, what every submission asks for (`asked`, written once), and the set
`booked` of submissions that took effect. `Accept(r)` books a submission at most once, and moves of every line exactly what it
asks, so that neither half a form nor another form can be booked in its place.

`Acceptance` is the code. `Press` is the form of `acceptance_detail.html`: nothing
ties a request to the page it came from, and `PageOf` says which requests are
presses of the same button. `FetchPage` is one iteration of
`list_pending_acceptance_all_pages` with its four ways to stop; the server lists
only lines with something left, so a line that another request settles moves the
rows after it to an earlier page. `Check` is `validate_acceptance_lines`: an
unreadable number counts as zero, a line of two zeros is left out, one bad line
refuses the form. `Receive` and `TimeOut` are the two ends of the accept-lines
call. Quantities are counted in thousandths (`QTY_SCALE`), so they are integers.

### AssetLedger, AssetRegisters, AssetProofs

`AssetRegisters` extends `Acceptance` by the losses it leaves behind. `OpenLoss` is the list and the page of a
loss, which offers the actions that the loss allows (`Offered`: nothing goes back to a source that does not exist) and
fills in what is open *now*; `PressResolve` is the form, which no lock protects; `ReadLoss`, `CheckLoss`, and `ReceiveLoss` or
`LossTimesOut` are `LostAssetResolveView.post`: it reads the loss again, presents it (which needs the names of the
sites, and may end in a server error: `ReadLossFails`), validates and posts. The two kinds of request run together on the same registers.

`AssetLedger` is the abstract specification of both: goods are pending, in stock, open as a loss, or away, and every
request moves them forward at most once, by exactly what its form asks (`asked`) or says of one loss (`told`). The refinement `Assets` maps what was *found* to stock and
what was found, returned or written off out of the losses, so that the invariant of the acceptance alone (`lost` only grows) and
the resolution that takes losses away are seen in one account.

### OperationPayload, Operation, OperationProofs, MCOperation

`OperationPayload` is `_build_create_payload` as operators over a draft record:
the kind of a line that does not state it, the rules on quantities, route,
recipient and duplicates, the posted payload and its `client_request_id`. `BrowserOk` is what `validateBeforeSubmit` checks before
the browser sends anything.

`Operation` is the life of an operation. A create form is locked by
`data-loading-form` while its POST runs (`Press`, `page[p] = "waiting"`), and is
rendered again around the same draft when the draft or its call is refused or gets no answer (`Rerender`), so that the
user can edit and send it again. A draft the browser refuses locks the form as well, though nothing is sent (`Stick`, `"stuck"`): the listener that
locks it does not look whether the submit was prevented. `Build` reads the warehouses and
builds the payload. Its first reading is guarded, and a failure counts as no warehouse to operate: nothing is sent, and a page
without a form takes the draft's place (`Lose`, outcome `"nosites"`). All warehouses are read as root, or else those the user has
access to (`Available`); `SitesCrash` is the failure of both, which nothing catches. `CreateAnswered` and
`CreateTimesOut` are the ends of the call. `Order` is a press of submit or cancel on a
page that may be old; `CommandAnswered` and `CommandTimesOut` show the message the code
shows, which for a failed submit is always "rejected".

### TempItem, TempItemProofs, MCTempItem

The three views of `apps/temporary_items/views.py`. A conversion is `Load`, the
call that creates the card (`CardCreated`), the call that merges the temporary item
into it (`Converted`), and, when that one is refused or gets no answer, the call
that removes the card again (`CardRemoved`). `Merge` and `Delete` are one call each
(`Answered`). The views do not look at the state of the temporary item they have
read, so several moderators get through to the server.

### UserBinding, UserBindingProofs, MCUserBinding

One account. `profile`, `token` and `status` are the row of `SyncUserBinding`,
`account` and `current` what the server has. `prepare_sync` is the sequence
`UserPushed`, `ScopesPushed`, `Fetch` of its three calls, used by the user form
(`Save`, from `clean()`, hence before the form is known to be valid:
`FormRejected`) and the sync button (`Sync`); `Rotate`/`Rotated` and `Repair` are the
other buttons. `Write` is the write at the end, `MarkFailure` what a failure leaves
behind, `WriteFails` the database error, after which the transaction of the admin
site takes the mark of `save_model` back. `Open` and `Post` are the form of the binding
itself, which writes every field back as it was rendered.

### CatalogCache, CatalogCacheProofs, MCCatalogCache

The copy `cache` of the catalogue: per card the version of the server's card that it
shows, whether it is active, and whether the row has its hashtags and its date
(`full`: a sync stores them, the results of a search are stripped of them). `FetchPage` and `WritePage` are one
iteration of `sync_items` with `LastPage` the three ways its loop stops; an answer may lack its
`total_count`. `Lookup`, `Remote` and `Warm` are `search_items`: the copy first, then the
server if the copy has less than `Limit`, then the store. `Upsert` overwrites rows
whatever they hold; nothing is ever deleted.

### CatalogAdmin, CatalogTree, CatalogProofs, MCCatalogTree

`CatalogAdmin` is the management of the catalogue. A request is a page that is opened (`Open`), what it reads
(`ListPage` per page of the list of categories, `GetToEdit`, `GetToSplit`, `GetToDelete`), the form as it is rendered (`Filled`:
a place that is not among the choices is blank), what the user changes in it (`Fill`), and the POST, which reads the list again
(`relisting`), validates against it (`Check`) and sends one command with *every* field. `ListFails` is the difference between the views: the
form of an existing category becomes "not found", the form of a card goes on without choices. The commands of the
server are one action each (`UpdateCategory` ... `MergeCategories`); where the contents of a deleted or merged category go is what the pages
say of it. `touched`, `raced`, `stale` and `failed` let the properties say *why* a field changed.

`CatalogTree` adds the page that shows the catalogue: the categories in one call, which has a limit (`ReadCats`, `FirstCats`, `CatLimit`), the cards page by page (`ReadItems`), the tree
as levels below the root (`Under`, `Level`) and the walk that expands the way to the selection (`WalkStep`), one turn of its
loop per step, so that "it ends" can be stated.

### Session, SiteMirror, DeviceBinding, UserCreation, Accounts, AccountProofs, MCAccounts

`Session`: a login fills its own copy of the session (`Enter`, then `Context` or `ContextFails`; the signal runs inside the
login). The session of the same user goes on, that of another one is flushed. The session keeps an identity, whose site may be missing.
`CallToken` is the token of a call: root's when it is forced (`force_root`: the readings of all sites, the balances, the health check), else that
of the binding, the session or the settings. `CallSite` and `CatalogSite` are its site, on most pages and on those of the catalogue, which ask binding and
settings in another order. Administrators rotate a token or move a user on the server and record the account (`Record`) or only the token
(`RecordToken`) in the binding later; a default site that is null is recorded as the text "None" (`NoneText`).

`SiteMirror`: `Clear`, `Store` and `Prune` are the statements of `refresh_local_cache`, each a transaction of its own when a
listing runs it; the form of a site is one transaction around a refresh and a call (`FormToChange`, `FormBooked`, `FormCommits`), and its rows are
locked until its end (`Locked`).

`DeviceBinding`: the form that creates a device, or loads its row (`LoadRow`) and later updates it, stale or not, in one transaction around its call (`Add`, `Change`, `Added`,
`FormTakenBack`), and the buttons, which load a row, call, and save (`Press`, `Pushed`, `TokenRotated`, `PressFails`). `Pushed` saves
the whole row as it was loaded.

`UserCreation`: `clean()` creates an account under a fresh id, gives it its warehouse and reads it back, before anything is saved.

`Accounts` puts the four into one specification. They share no state; a behaviour shows the steps of one (`scene`).

## 4 Runs

The state counts are those of TLC on the given bounds; each run takes between a
second and four minutes with two workers.

| Run | Module, bounds | States | Shows |
| --- | --- | --- | --- |
| `acceptance` | MCAcceptance: 2 acceptances and 2 resolutions of which 3 begin, 3 lines, pages of 1 row, at most 2 rows and 3 pages, 6 forms | 325 099 | `MessageTellsTruth`, `ConflictOnlyByRace`, `UnracedVerdictIsExact`, `ResolveMessageTellsTruth`, `LedgerSpec` and `AssetLedgerSpec` (refinements), `EveryRequestAnswered` |
| `acceptance_press` | MCAcceptance: 2 presses of one page, 1 line | violation | `OnePageBooksOnce` does not hold |
| `operation` | MCOperation: 1 form, 6 drafts, 2 sends, 1 submit, 1 cancel | 145 231 | `StoredIsWellFormed`, `MessageTellsTruth`, `LeftFormIsStored`, `SecondOnlyAfterTimeout`, `EveryPressAnswered` |
| `operation_resend` | MCOperation: 1 form, 1 draft with a temporary line, 2 sends | violation | `ResendCreatesOnce` does not hold |
| `operation_rejection` | MCOperation: 1 form, 1 submit | violation | `SubmitRejectionIsTrue` does not hold |
| `operation_draft_lost` | MCOperation: 1 form | violation | `NoDraftIsLost` does not hold |
| `temp_item` | MCTempItem: 1 temporary item, 1 card, 2 conversions, 1 merge, 1 delete | 157 251 | `MessageTellsTruth`, `NoSilentOrphan`, `CardLostOnlyByTimeout` |
| `user_binding` | MCUserBinding: one save, sync, rotation, repair and form, 2 roles, 1 site | 1 078 160 | `WrongTokenIsFlagged`, `SettledProfileIsExact`, `TokenGoesBackOnlyByRace` |
| `user_binding_push` | MCUserBinding: one save | violation | `PushIsRecorded` does not hold |
| `catalog_cache` | MCCatalogCache: 3 cards of 2 versions, one sync in pages of 2, one search of 2 results | 316 669 | `CacheGoesBackOnlyByRace`, `QuietSyncIsComplete`, `SearchMissesNothing`, `EverySyncEnds` |
| `catalog` | MCCatalogTree: 4 categories, 2 cards, 2 units (one of each yet to be created), 2 names, pages of 2 categories and 1 card, at most 3 categories in the tree, 2 administrators or one and a page view | 638 102 | `UntouchedFieldSurvives`, `InvalidOnlyByBadList`, `TreeShowsAllButCycles`, `WalkEndsUnlessCycle` |
| `accounts` | MCAccounts: 2 users and a superuser, 2 sites, a setting or none and 2 moves; 3 sites, 2 listings, a form and a change elsewhere; a device, every request on it of which 3 call; 2 attempts to create a user | 2 064 247 | `CallerIsUser`, `SiteOutsideScopeOnlyByChange`, `QuietMirrorIsExact`, `RowVanishesOnlyByRaceSwapOrLimit`, `DeviceIsServers`, `OrphanDeviceOnlyByError`, `CreatedUserIsWhole` |

**Why the bounds are enough.** Every safety property of a passing run is also a theorem of section 5, which has none of
these bounds; they matter for the liveness properties and make sure that the cases the theorems speak of really occur. *Acceptance*: a page of one row and a limit of two
rows put three lines on more pages than the client reads, so shifting pages and the
cut at the limit both happen; two requests of a kind are the least that race, three of the four may begin, so two
acceptances overlap with a resolution and two resolutions with the acceptance whose losses they share, and the proofs of section 5 remove every one of these bounds for the safety properties. The forms hold one of each
kind: prefilled, with losses, partial and unreadable, too much, negative, empty.
*Operation*: one form is locked while it waits, so its own sends are what can collide;
two of them and two commands give every order. *TempItem*: two conversions of one item
race for it and need both compensations; a merge into the card of a running
conversion and a delete are the two ways to disturb them. Conversions are
symmetric, and no liveness is checked under that symmetry. *UserBinding*: one request of
each kind covers every pair of kinds that overlap, and chains of up to five; two of
one kind (two rotations) are beyond the time of a run. Roles are symmetric; one
site suffices, as roles and sites take the same way through the code except that
the role is written from the form. *CatalogCache*: three cards in pages of two give a full page, a partial
one, and an empty one when the total is missing and two cards are listed; the sync and the search
overtake each other. *Catalogue*: a root, a category in it and the system category are what a deletion distinguishes, a fourth category that
is created lets two moves make a cycle and moves rows between pages; pages of two categories and one card put every list on two, and the fourth
category does not fit into the one call of the tree. Two administrators
are the least that race, one edits or divides while the other does anything. *Accounts*: two users and a superuser in one browser
take every order of logins; two moves are a rotation and a reassignment, and an account may have no default site. Three sites of which a call lists two exceed the list, two listings and
a form overlap. Three requests that call on one device are a chain of two races. Two attempts at one username race for it.

**Fairness.** `FairSpec`, `FairAssetSpec` and `TreeSpec` are used where something must happen: weak fairness of the
steps of a request's own view, each request for itself. The code justifies it: the workers run, and `httpx` is
called with a timeout, so a waiting view always goes on with an answer or without one.
Nothing is assumed of the server, of users, or of the order of answers: no call must
ever be handled. `EveryPressAnswered`, `EveryRequestAnswered`, `EverySyncEnds` and `WalkEndsUnlessCycle` are therefore about the client alone.
`EverySyncEnds` holds since every iteration asks for the next page of a finite catalogue.

**Systems that stop.** `CHECK_DEADLOCK FALSE` is set in every run because requests are finite: when
all are answered nothing is left to do.

## 5 Proofs

Every safety property of a passing run, type invariants and action properties included, is a theorem of the
specification for all values of the constants that the assumptions allow: any number of requests, objects, rows and rounds.
There are eight modules of proofs; a module's theorem `Invariant` is the inductive invariant on which the others rest. None of the
properties below is inductive by itself.

### Acceptance

`AcceptanceProofs`, for any finite set of lines with any quantities, any set of
requests and forms, and any page size and limits that satisfy the assumptions:

| Theorem | Statement |
| --- | --- |
| `TypeCorrect` | `Spec => []TypeOK` of the acceptance, a conjunct of `AssetTypeOK`, which includes that no register falls below zero and that no request reads more rows or pages than it may |
| `Invariant` | `Spec => []IInv` |
| `MessagesAreTrue` | `Spec => []MessageTellsTruth` |
| `ConflictNeedsRace` | `Spec => []ConflictOnlyByRace` |
| `VerdictsAreExact` | `Spec => UnracedVerdictIsExact` |
| `ImplementsLedger` | `Spec => LedgerSpec`: the handler implements the abstract ledger |

`AcceptanceAssumption` says that lines are finitely many natural numbers (the server orders rows
by them), and that the limit of rows is a multiple of the page size, as both call sites
have it (200 and 10000, by 100): otherwise the last page is asked for with another page
size and the pages no longer fit together. `PageLimitAssumption` says that the limit of pages is not met before that of rows, as
at the call site of the acceptance (200 rows, 50 pages of 100).

`TypeOK` needs two lemmas about pages, `RankStrict` and `PageBound`: a page of size `n` is a
finite set of at most `n` lines, as ranks are distinct. `IInv` adds three parts to the type invariant:

- `StageInv` ties a request's place in the view to its call, its answer and its message: a request
  that has not sent is neither on the wire nor booked, the form of a call on the wire fits what the
  request read, an answer of success is given exactly to the booked ones, a message repeats the answer.
- `ReadInv` says what a request holds of the register: if no other request was booked since it
  began to read, every row it has read is at most what is still pending.
- `VerdictInv` says that a message is given with reason: "already settled" only when nothing is
  pending, and a conflict only to a raced request. The second half is where the other parts are
  needed: an unraced call fits its rows (`StageInv`), its rows fit the register (`ReadInv`), so
  the server accepts it.

`ConflictOnlyByRace` follows from `VerdictInv`, `MessageTellsTruth` from `StageInv`, with the lemma
`EmptyFirstPage` for "already settled": an empty first page means that nothing is pending. `ImplementsLedger` needs from the
invariant that a call on the wire has not been booked and that its form fits the rows it was checked against; `BookTakesAll` shows that `Book`
moves of each line exactly what the form asks, `PressWrites` and `AskedStays` that a form says the same from its press on.

`VerdictsAreExact` needs more: not that the rows read are *at most* those of the register, but that they are *exactly* the first of them.
`ExactInv` says this of an unraced request: after `p - 1` pages it has the lines of rank up to `(p - 1) * PageCap`, and when it
checks, those of rank up to `MaxRows`. The step is `ReadPage`: ranks are the numbers from 1 to the number of pending lines (`RankIsPlace`),
hence a page that is not full is the last (`FullPage`), and each of the four ways to stop (an empty page, the total, the limit of rows, that of pages) stops
where nothing is missing below the limit of rows. A form that names a line beyond that limit is refused, and the property says so.

`AssetProofs`, about the composition with the resolutions of losses and for any set of them (`AssetAssumption` says that
a request is not of both kinds):

| Theorem | Statement |
| --- | --- |
| `AcceptanceUndisturbed` | `AssetSpec => Spec` |
| `AcceptanceKeepsItsPromises` | `AssetSpec => [](MessageTellsTruth /\ ConflictOnlyByRace) /\ UnracedVerdictIsExact /\ LedgerSpec` |
| `AssetInvariant` | `AssetSpec => []AssetInv` |
| `AssetTypeCorrect` | `AssetSpec => []AssetTypeOK`, which includes that nothing is resolved that was not lost |
| `ResolveMessagesAreTrue` | `AssetSpec => []ResolveMessageTellsTruth` |
| `ImplementsAssetLedger` | `AssetSpec => AssetLedgerSpec`: both views together implement the ledger of all the goods |

The first is the composition argument: a resolution leaves the variables of the acceptance alone, so every theorem of
`AcceptanceProofs` holds of the composition, and its invariant `IInv` may be used in the proofs that follow. `AssetInv` adds two parts to
`AssetTypeOK`. `LossStageInv` ties the stage of a resolution to its call, its answer and its message. `SeenInv` says that a call asks
for no more than its view has seen, and that what an unraced view has seen is still open: an acceptance may add to a loss
between the reading and the call but not take from it (`LossesGrow`), and another resolution that takes from it sets the history
variable. So a conflict is only met by a raced one. In the refinement `Book` is `Accept` (lemma `AcceptanceMoves`, from
`BookTakesAll`) and `BookLoss` is `Resolve` (lemma `ResolutionMoves`); every other step leaves the ledger unchanged.

### Operations

`OperationProofs`, for any number of forms, sends and commands:

| Theorem | Statement |
| --- | --- |
| `TypeCorrect` | `Spec => []TypeOK` |
| `StoredAreWellFormed` | `Spec => []StoredIsWellFormed` |
| `MessagesAreTrue` | `Spec => []MessageTellsTruth` |
| `LeftFormsAreStored` | `Spec => []LeftFormIsStored` |
| `SecondNeedsTimeout` | `Spec => []SecondOnlyAfterTimeout` |

`FormInv` says what the lock of a form is good for: a form with an active send waits, and has one only. `SendInv` and `CommandInv` tie
the stage of a request to its call, answer and message. `PayloadInv` carries the payload from the validation to the server, which no other part can, as the call may be handled
long after its view has ended: what is on the wire or answered is well formed, and while its view waits the payload has the content of the draft that
the form still shows. `LostInv` names the POST that a lost draft was lost with, of which nothing was sent. The lemmas before it are about `OperationPayload` alone (`LinesStay`: a payload has the lines of its draft; `AcceptedIsWellFormed`: what the checks let through is well formed).
`DraftAssumption` says of the drafts that quantities are whole thousandths or missing and that no draft has a `client_request_id`: no
code writes one into a draft, it only looks for one.

### Temporary items

`TempItemProofs`, for any number of items, cards and moderators:

| Theorem | Statement |
| --- | --- |
| `TypeCorrect` | `Spec => []TypeOK` |
| `MessagesAreTrue` | `Spec => []MessageTellsTruth` |
| `OrphansAreTold` | `Spec => []NoSilentOrphan` |
| `CardsAreLostByTimeout` | `Spec => []CardLostOnlyByTimeout` |

The saga has no transaction, so the invariant is its account: `StageInv` says which of the three calls a conversion has made, with which answers, at each of its
stages and under each of its messages; `CatalogInv` that a card of a conversion exists exactly from the good answer of its creation to that of its removal;
`FateInv` that the fate of an item is that of the one merge or deletion that was carried out. A conversion removes its card only after its own merge was refused or given up; if it was
refused, the item under the card was put there by another moderator.

### User bindings

`UserBindingProofs`, for any number of administrators, roles and sites:

| Theorem | Statement |
| --- | --- |
| `TypeCorrect` | `Spec => []TypeOK` |
| `WrongTokensAreFlagged` | `Spec => []WrongTokenIsFlagged` |
| `SettledProfilesAreExact` | `Spec => []SettledProfileIsExact` |
| `TokensGoBackOnlyByRace` | `Spec => TokenGoesBackOnlyByRace` |

`RaceInv` says that a request which does not count as raced runs alone; `FreshInv` that what such a request has read, pushed or been told is still so; `DoubtInv` that where nothing is
in doubt, a token or a profile differs from the server's only while the request that will settle it runs, or under a status that the repair command finds. Two requests
that overlap put everything in doubt until one that runs alone has settled it.

### Copy of the catalogue

`CatalogCacheProofs`, for any finite catalogue, page sizes, syncs and searches:

| Theorem | Statement |
| --- | --- |
| `TypeCorrect` | `Spec => []TypeOK` |
| `RowsGoBackOnlyByRace` | `Spec => CacheGoesBackOnlyByRace` |
| `QuietSyncsAreComplete` | `Spec => QuietSyncIsComplete` |
| `SearchesMissNothing` | `Spec => SearchMissesNothing` |

`RaceInv` says that the batch of a request that was not overtaken is no older than the copy. `QuietInv` says that a sync that nothing disturbed has stored all pages before its own as the server has them
(`StoredUpTo`); the lemmas on ranks and slices show that a page which is short, empty, or ends at the total is the last one. `SearchMissesNothing` speaks of searches with at most
`RemotePage` matches on the server and needs `Limit <= RemotePage`, as in the code.

### Catalogue and tree

`CatalogProofs`, for any finite catalogue, names, page sizes, administrators and what each of them may do:

| Theorem | Statement |
| --- | --- |
| `TypeCorrect` | `TreeSpec => []TreeTypeOK` |
| `InvalidNeedsBadList` | `TreeSpec => []InvalidOnlyByBadList` |
| `UntouchedFieldsSurvive` | `TreeSpec => UntouchedFieldSurvives` |
| `TreesShowAllButCycles` | `TreeSpec => []TreeShowsAllButCycles` |

`PlaceInv` says where objects can be: a live one lies in another live category that is listed, or nowhere. `RequestInv` follows a form: its list has what there is as far as it was read (`ListOf`, page by page, as
above), its place is one that can be chosen, and that of its object if nobody touched it (`PlaceOf`), its name is that of its object if nobody changed either (`NameOf`).
`Place0Assumption` says that the catalogue is like that at first. The attempt to prove `PlaceInv` found an error of an earlier version of the model, which no bounded run could show: with
four or more requests, moving the contents of a deleted category could put a category into itself (now the last case of `MoveContents`).

`TreesShowAllButCycles` has two halves. `ReadsInv` says that an undisturbed page has read exactly the categories and cards there are, page by page. The other half, `TreeHasAllButCycles`, is about the
algorithm: the levels that `build_category_item_tree` builds from the roots hold exactly the categories that no chain of parents leads from back to itself or into a circle. The model counts the levels with a recursive function, `Level`;
its recursion is justified by `LevelsExist` and `LevelIsLevels` (a least number for which it fails does not exist: `WFMin` of the library, as its induction theorems cannot be applied here),
and what it computes is `LevelRule`. A shown category is above no circle, since every step of its way to the root goes down one level, and levels are disjoint (`WayDescends`,
`ShownIsNotCircular`). The parent of a hidden category is hidden (`HiddenParent`), so its way up can be made as long as the
number of categories (`HiddenWay`), and then some category is met twice: a pigeonhole, `HiddenIsCircular`.

### Accounts

`AccountProofs`, for any users, sites, devices, attempts and bounds:

| Theorem | Statement |
| --- | --- |
| `CreatedUsersAreWhole` | `AccountsSpec => []CreatedUserIsWhole` |
| `CallersAreUsers` | `AccountsSpec => []CallerIsUser` |
| `SitesAreInScope` | `AccountsSpec => []SiteOutsideScopeOnlyByChange` |
| `DeviceRowsAreServers` | `AccountsSpec => []DeviceIsServers` |
| `OrphanDevicesAreTold` | `AccountsSpec => []OrphanDeviceOnlyByError` |
| `QuietMirrorsAreExact` | `AccountsSpec => []QuietMirrorIsExact` |
| `RowsVanishOnlyByRaceSwapOrLimit` | `AccountsSpec => RowVanishesOnlyByRaceSwapOrLimit` |
| `AccountsTypeCorrect` | `AccountsSpec => []AccountsTypeOK` |

As the four parts of `Accounts` share no state, each step of `Accounts` is a step of the part or leaves it alone, and an invariant
of the part suffices. `CreationInv` follows an attempt through its calls: the account is created at most once and before its warehouse
is given, so an attempt that has heard of the warehouse finds it ever after (`CreationAssumption`: "no user" is not an attempt).
`SessionInv` says that a token stays with its owner, in every binding and in the identity of both live sessions: the one of the cookie and the one a
login is filling, which may be of the same user. So the only calls that act as somebody else are the forced ones and those of a user without any token, and these act as root. The step that needs it is `Context`, where the server answers with the account of the token it is asked with
(`SessionAssumption` keeps users, superusers and root apart, `NoneAssumption` a missing token from a token). `ScopeInv` says that an identity has the sites of its account until an administrator
moves it, and that the home of an account is one of its sites, if it has one. `DeviceInv` and `SiteInv` have the shape of the binding's: a request that nothing crossed is the only one (`RowInv`, `RequestInv`), and then the row, or the mirror together with what is
still to be stored (`QuietListing`), is what the server has. `Fits` is the condition that the one call lists all the sites.

### Assumptions and what is only model-checked

The assumptions of the remaining modules say that kinds of requests are disjoint, that values which stand for "nothing" are not values, that sets of rows are finite, that
page sizes are positive. TLC evaluates all of them in the runs.

Only model-checked: liveness, which the prover cannot handle (`EveryRequestAnswered`, `EveryPressAnswered`, `EverySyncEnds`, `WalkEndsUnlessCycle`), and the
five disagreements of the next section, which are counterexamples.

## 6 Disagreements between code and documents

Each has a run whose counterexample is the scenario.

1. `acceptance_press`: a plan of the acceptance pages asks that the button be blocked after the
   first press; the form lacks the attribute that would, and both presses are booked when enough is left.
2. `operation_resend`: the recommendation on temporary items requires that `client_request_id`
   live with the draft. The code makes a new one for every send, and a timed-out draft that is sent
   again becomes two operations.
3. `operation_rejection`: every failed submit, a timeout included, is shown as "rejected"; the operation may have been
   submitted all the same.
4. `operation_draft_lost`: forms are said to keep what was entered when the server is out of reach. `OperationCreateView.post` reads the sites a second
   time without a guard, and ends in a server error (`views.py:564`); and when only the guarded reading fails, the user has no warehouse to operate, for
   which the page shows a card in place of the form (`views.py:649`, `operations/form.html:15-23`). The draft is gone either way.
5. `user_binding_push`: the flow in ARCHITECTURE.md ends in an update of the binding. A form that fails
   after its first push leaves the account changed and the binding as it was, still "synced", so that the
   repair command passes it by.

## 7 Limits

*Abstracted in the modelled parts.* Names, comments, dates and recipients of operations are reduced to
whether they can be read; text search to a fixed set of matches in the order of ids; all data of a user but site lists to a "role";
a repair's writes of the user and the binding to one. Who may do what is assumed: a request in a model is
one that its permission check let through. In the form of the binding the status field is not edited by hand. That the
Django admin site runs a form in one transaction is behaviour of Django, not of this code. The option
`--max-pages` of the sync is in the model but given no value by the run.

*What the pages of the catalogue lose, and the properties name.* A category that the deletion of its root put under the system
category is shown with a blank parent, as the system category is not among the choices, and saving its form moves it to the root (`Hidden`). The form of a card
whose list of categories failed shows no category, and saving it takes the card out of its own (`failed`). A category's own descendants are
offered as its parent, so a single form can make a cycle (the legacy model, `catalog/models.py:44`, forbids them); the walk
to the root never ends on one, hence the exception in `WalkEndsUnlessCycle`. A card's own unit is abstracted to the list it comes from
(`UnitsFail`); what the merge pages read to show, and a form that is sent once more after an error, are left out.

*What the accounts lose.* A sync or a repair of a device marks the row as synced without reading the token, so a token that was lost with the
answer of a rotation stays wrong without a flag: `DeviceIsServers` claims the token only after an undisturbed rotation. A form of a device or a user that
fails may leave an account on the server. The switch of the site compares text with the ids as the server sent them, and is always refused when those are
numbers (`textIds`). A user who logs in again keeps the token of the session for asking the context; once that token was rotated the question is refused and the
identity stays old. A user whose binding and session have no token calls with the root token of the settings, and the forced readings are made as root
for everybody. The site of a call whose session has none is that of the settings, whatever its user's warehouses are, or the text "None".

*Further abstractions there.* A refresh of the sites inside the form that changes one completes: one that stops half way there and is caught (`admin.py:42-49`) needs another request
that commits a label between two of its statements, and is left out. One browser. One label stands for code and name of a site, one name for name and activity of a device. What Django does on a
login (a flushed session, or a new key) and what its transactions lock is behaviour of Django and its database; that a row inserted or updated in a transaction waits is
assumed of them (`Held`, `Locked`). Roles are not in `Session`: permissions are predicates over the binding's role.

*Not modelled.* Documents, balances and recipients: single calls without local state, or rendering by external programs. Four hazards are listed
without a property: a document that is generated again after a lost answer; a card that was deleted on the server and that a search
still offers from the copy; a quantity of the acceptance form that cannot be read and counts as zero; and a create form that the browser
refuses and that stays locked. The last three are in the models as the code has them, and no document promises anything else.
Permissions: predicates over the role. Error decorators, legacy pages, settings, tools: no state of their own.

*Out of the prover's reach.* Liveness under fairness: `EveryRequestAnswered`, `EveryPressAnswered`, `EverySyncEnds` and
`WalkEndsUnlessCycle` are checked by TLC only. The five disagreements of section 6 are counterexamples, found by TLC.

## 8 Plan

Done: every module of section 3, and a theorem for every safety property of a passing run.

Left to model: the second attempt at a form of the catalogue after an error; `permissions` as a guard of `Session`, with a role that changes
while a page is open.

Left to prove, in this order: an abstract specification of the moderation of temporary items (an item ends at most once, in a card that exists or deleted)
and of the register of operations (what exists is never taken back, a command takes effect at most once), each with its refinement, as `AcceptanceLedger` is for the
acceptance; that the walk of the tree visits no category twice when there is no cycle (the safety half of
`WalkEndsUnlessCycle`); that a sync reads at most one page more than the catalogue has (the safety half of `EverySyncEnds`).
