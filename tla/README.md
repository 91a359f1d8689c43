# A TLA+ verification project for PoryMCP

PoryMCP is a proxy between MCP clients and MCP servers. An operator registers
upstream servers and their credentials; clients hold virtual keys and never see
a credential. This directory models the parts of the program in which several
goroutines, requests, processes or external parties meet over shared state, and
the dashboard whose requests and answers cross each other on the way. It
model-checks them with TLC on small instances, and proves the main safety
results with TLAPS for every size.

All source paths below are relative to the repository root. `PROJECT.json` maps
every definition that models code to the lines it models.

## 1. The system and its parts

| Part | State | Operations | What is hard |
|---|---|---|---|
| Credential presentation (`internal/credential`, `internal/mcpclient/oauth.go`) | the upstream row's sealed token set, a lock and a hold-off per upstream in the process | `Present`: open, lock, read again, refresh at the vendor, compare-and-swap, once more | refresh tokens rotate: a second use ends the grant; a crash between the vendor and the store |
| Sign-in and disconnect (`internal/api/oauth.go`) | one pending flow per upstream | `oauthStart`, `oauthCallback`, `oauthRevoke` | minutes pass between check and write; other replicas share only the database |
| Upstream administration (`internal/api/upstreams.go`) | the row, `updated_at` | create, PATCH, delete, test | read-merge-write without a compare |
| Audit logger (`internal/audit/audit.go`) | a channel of 1024, two flags, an RWMutex | `Record`, `enqueue`, `loop`, `Close` | sends racing the close; a stuck store at shutdown |
| Stream relay (`internal/proxy/stream.go`, `budget.go`) | one goroutine per stream, three timers, the connection's write deadline | read, hold, send; cut; exit | callbacks that race the relay's own deadline and its return |
| Stream re-check (`stream.go`) | the row the stream compares with | key, upstream and group read one by one | rows move between reads; the baseline is replaced at each check |
| Era cache (`internal/proxy/eracache.go`) | a bounded map of verdicts | `get`, probe, `put`, `retrySoon`, eviction | the three are separate calls; edits and failed listings in between |
| Request path (`internal/proxy/proxy.go`, `policy.go`, `request.go`) | none of its own | admission, authentication, policy, aggregation, relay | order of checks; rows read once and used later |
| Rate limiter (`internal/auth/ratelimit.go`) | token buckets | `Consume`, eviction | what an evicted or changed bucket forgets |
| Registry (`internal/api/virtual_keys.go`, `groups.go`, `internal/store`) | upstreams, groups, keys | create, PATCH, delete | check-then-write across tables |
| Tool identity and filters (`internal/models`, `listfilter.go`, `aggregate.go`) | none | composing, parsing and filtering names | agreement of the list shown and the call allowed |
| Answer capture and redaction (`errredact.go`, `internal/redact`) | buffers of one stream | `feed`, `end`, `Write` | events split over reads, events too large |
| Keys at rest (`internal/crypto`, `cmd/server/rekey.go`, `encryption.go`) | the keyring, a fingerprint | seal, open, rekey, startup checks | a process that holds an old key while another rewrites |
| Server (`cmd/server/main.go`) | - | startup, shutdown: `StopStreams`, `Shutdown`, `auditor.Close` | the order at shutdown |
| Paged audit tables (`web/src/lib/use-cursor-pages.ts`, `cursor-pages.ts`, `app/load-more.tsx`, `app/admin-events.tsx`) | the page set, a generation, an in-flight flag and the next request in refs | a new query, Load more, two callbacks each | answers of a query that is no longer asked; state and refs written apart; rows stored late |
| Logs page (`app/(app)/logs/page.tsx`, `lib/logs-view.ts`, `lib/use-log-facets.ts`) | filters, the anchor of the window, the facet walk's wait, ref and answer | change, pick, the walk | two reads that must be of one window; one walk at a time on one SQLite connection |
| Upstreams page (`app/(app)/upstreams/page.tsx`, `app/upstream-form.tsx`, `lib/upstream-form.ts`) | one dialog's form, the row it edits, two discovery panels, sequence numbers | Add, Edit, Discover, Tools, Connect, Disconnect, Delete | a late answer meets another dialog; a save that drops a credential the operator cannot see |
| Groups page (`app/(app)/groups/page.tsx`, `lib/group-form.ts`, `app/tool-filter-fields.tsx`) | the form, the picker's catalogue, two Alerts | create, edit with a fresh read, delete | PATCH replaces a whole filter and the API has no 409 |
| Virtual keys page (`app/(app)/virtual-keys/page.tsx`, `lib/virtual-key-form.ts`, `app/policy-dialog.tsx`) | the form, the catalogue, one secret, one Policy dialog | create, edit with a fresh read, rotate, revoke, delete, Policy | the same, and answers to presses on two rows |
| Tool rules and catalogue in the dashboard (`lib/tool-entry.ts`, `tool-filter.ts`, `catalogue.ts`, `rule-conflicts.ts`, `use-catalogue.ts`, `discover-many.ts`) | what each member answered | two discoveries at a time, the verdicts drawn from them | the proxy's rules written a second time, in another language; tools that were never loaded |

How they meet: a proxied call resolves its key, group and upstream in the store,
asks `Present` for the credential (which may go to the vendor), forwards, and
either reads a body or hands the response to `relayStream`; every path ends in
`audit.Record`. On a group endpoint the era cache decides in which dialect a
member is spoken to. Operators edit the same rows through the management API,
possibly on another replica; `porymcp rekey` is a process of its own on the same
database. At shutdown `StopStreams` ends the streams, `Shutdown` waits ten
seconds, and the deferred `Close` drains the audit queue.

What makes each part correct: a grant is never spent twice nor written back
after an operator ended it; a sign-in and a disconnect hit the row they were
meant for; an audit row is never just gone and never holds up a request or a
shutdown; a stream ends when it must, for the reason its row gives, and leaves
nothing behind on a connection that is used again; a stream outlives a rename
and a refresh and nothing else; a cached verdict is one of the row it is used
for, and costs a broken member no storm of probes. In the dashboard: what is on
screen answers what is asked now; every answer lands in the dialog and on the row
it belongs to; nothing another operator stored, and no credential, is dropped by
a save that did not say so; and what a dialog says of a rule is what the proxy
does with it.

`PROJECT.json` lists the hazards, each at its line, with the properties that
would show it going wrong.

## 2. The modules

### OAuthGrant (core), MCOAuthGrant, OAuthGrantProofs

One upstream row and everyone who writes or spends its grant. `row` is the SQL
row, `lock` and `hold` the process's `lockEntry`, `flow` the pending sign-in,
`call` and `adm` the local variables of each proxied call and each management
request (their `pc` is where the handler is), `vendor` the authorization server.
One SQL statement, one vendor round trip and one lock operation are one step
each; what a handler does between two of those is part of the step. `Present` is
`PresentOpen`, `PresentLock`/`PresentGiveUp`, `PresentReread`,
`VendorRenews`/`VendorRejects`/`VendorUnavailable`, `PresentDrop`,
`PresentSwap`, `PresentAgain`, `PresentSwapAgain`; the API handlers are the
`Start…`, `Callback…`, `Patch…` and `Revoke…` actions and `DeleteUpstream`.
Requests in `Remote` are served by another replica: they write the same row and
take a lock of their own. `Rekey` re-seals the row without moving `updated_at`;
`Restart` ends all local work. `ended` and `lost` are history variables: grants
an operator ended, and spent refresh tokens whose successor was never stored.

The vendor is external. It is assumed to mint fresh tokens, to rotate or keep
the refresh token, and to end the grant on a second use; it may also refuse, not
answer, or answer too late.

### AuditLog, RowFate, AuditLogProofs

`Record`, the goroutine it falls back to, `loop` and `Close`, split at every
lock, channel operation and insert. `RowFate` is what the logger promises for a
row: accepted once, and then stored once or reported lost once. Both happen in one
case: an insert whose deadline or connection ends after the store took the row is
logged as failed (`Doubt`); a row logged as dropped is never stored. `KeepsPromise`
is that specification under the mapping `FateOf`.

### StreamRelay, StreamRelayProofs

One stream: the relay goroutine (`pc`), the three callbacks (`watch`), the timers
armed, the connection's write deadline, the cause the request was cancelled with.
The mutex of `guard` is held over more than one step only by a cut, between
`cancel` and `SetWriteDeadline`, so it needs no variable (`Held`). `send` takes
no mutex, which is the point of the module. `faults` records what really
happened outside, so that the end the code decides on can be compared with it.
Whether the capture holds the answer is left open (`answered'` is free).

### StreamRecheck, StreamRecheckProofs

`recheck` reads three rows in three steps, any of which may fail, against every
writer of those rows. A credential is abstracted to the sign-in it descends from,
its rotations, its ciphertext and whether this process can open it; `since` is a
history of what happened to the row since the baseline was read.

### EraCache, MCEraCache, EraCacheProofs

The cache with its three kinds of caller: a walk of a group's catalogues (which
lists the member after it learned its era, and shortens the entry when that
fails), a relay to the first member (which lists nothing), and the routed call
after a walk. Each caller is one member's turn. `floor` is a history variable:
the last probe that was remembered, and how long it must do.

The relay and the re-check are two modules because they share one bit: in
`StreamRelay` the outcome of the re-check is free, in `StreamRecheck` the cut it
leads to is atomic.

### CursorPages

`useCursorPages` and the pure rules of `cursor-pages.ts`, under any page that
hands it one query after another (`PagesSpec`); Proxy calls and Admin activity
both use it. A row is its place in the server's order (timestamp, id), a cursor
is the last row of a page. The server's listing is `ListPage`: one row more than
the page is read and only decides whether there is a cursor. A request is sent,
answered or failed, and landed in three steps, so that the server's read, the
abort and the callback can happen in any order. `Insert` stores a row that may be
older than rows already listed, because the audit writer's goroutines do not keep
order. `base` is a history variable: the rows stored when the first page was read,
which is what a listing that goes on while rows arrive can promise to be complete
about. `audit_logs` has no retention, so `stored` only grows.

### LogsPage, MCLogsPage, LogsPageProofs

The Proxy calls page over `CursorPages`: the controls (`filters`), the moment a
preset's window is measured from (`anchor`), and `useLogFacets` with its wait, its
ref (`held`) and its tagged answer. Time is in ticks, and a datetime-local box
holds whole minutes of them, so `toLocalInput` truncates and
`untilFromLocalInput` adds the rest of the minute, as the code does. `logQuery`,
`facetQuery`, `customProblems` and the options of the selects are the operators of
`logs-view.ts`. React runs the effects of a click's render before the next event:
a filter change is one step (`Commit`), with the cleanup and the start of both
hooks, and it waits for a facet effect that is due. A Custom bound that cannot be
read makes the query null, and neither hook sends anything for it.

An answer of the facet read is the set of rows it counted (`Facets.rows`); `read` is
a history variable of it, the rows that were stored when the server read them.
`CountsDescribeTable` needs both directions: a counted row is one the table lists
if it meets the choices, and a row that the table's query selects and that was
stored when the facets were read is counted. The first alone would pass the counts
of a narrower window drawn over a wider one. `ListAuditFacets` also cuts a list at
200 values and gives up above a fold cap, and says so; the model has neither, so it
is about listings below both. `FacetsSettle` promises an answer of the facet query
that stands, or that there is none: while the query is null nothing is sent, and
the answer of the query before is kept.

### DashPage, UpstreamForm, UpstreamsPage, ToolPolicy, ToolCatalogue, GroupsPage, KeysPage, Dashboard, MCDashboard, DashboardProofs, DashboardRulesProofs

The three administration pages. `DashPage` has what they share: the rows of the
admin API (`srv`), the mounted page's state and refs (`ui`), and the requests
that are out (`reqs`). The pages drop late answers by comparing a sequence
number; only the outcome of that comparison matters, so a request carries
`mine`, true until the page bumps the number. `UpstreamForm` is the form's rules
(what is required, what a body carries, which sentence stands beside a box) next
to what `createUpstream`, `patchUpstream` and `present` make of a body: a stored
credential is its shape and the name sealed in it, and the browser knows only
what `Present` says. `ToolPolicy` holds the rules twice, as the proxy enforces
them (`blockedBy`, `MatchToolEntry`, the validation on write) and as the
TypeScript reads them (`filterPermits`, `coveringEntry`, `entryMark`, ...); an
entry is the slug before its separator and the letters after it.

`RulesReadAlike` compares the two in an open dialog. Of a group, where the proxy
can read the filter: that a row is drawn ticked or covered exactly as the rule
names its tool, the Cannot be saved and Not advertised marks, a prefix's list of
tools, the lines that the filter blocks everything, admits nothing or lists
nothing, the badge, and Save. Of a key, unless its lists stand behind Replace:
the same of a row, with its notes about the deny list and the group's filter,
for every tool whose scoped name no list holds an unsavable entry of; the marks
Cannot be saved, Not advertised and Also denied; the line about an allow list
that admits nothing; Save; the badge; and the Policy dialog's lines about the
lists, the group's filter and the methods. Of both, the two sentences that a
tool stays blocked, under a row no entry can hold (`unnameableRowNote`) and
under a member whose list is cut (`UNLISTED_STAYS_BLOCKED`); where these are
wrong is written in the property (Findings). A key that holds an entry for a
name with a space in it draws that row without a box, and the list marks the
entry Cannot be saved, which is compared. Wording, the Prefix and Any member
badges and the counts of the Policy dialog are not.

`ToolCatalogue` is the picker's run over the members. `UpstreamsPage`,
`GroupsPage` and `KeysPage` have one action per handler of their page, one per
kind of answer, and another operator who writes the same rows; `Dashboard`
mounts one of them. A save that replaces a filter or a list reads the row afresh
first, and the PATCH is a later step, so the row can move between the two.

A new row's id is a fresh uuid, so `Fresh` never gives out one that a row has, that
a dialog, a request or an answer still mentions, or that was put aside: an id used
again would put another row's answer on a dialog that holds the old one, which the
code cannot meet. The id sets are small, so a create that finds none free is
refused. Another operator's edit of a key replaces its lists and not its target.

History in the requests and in `ui` (what the operator agreed to, whether a row
was written after the fresh read) is used by the properties only.

## 3. The runs

| Run | Shows | Instance |
|---|---|---|
| `oauth_refresh` | `NoDoubleSpend`: a refresh token is redeemed twice only if the set its first use returned was never stored | two calls, one operator, one restart, three tokens, clock to 2 |
| `oauth_edits` | `EndedGrantStaysEnded`, `ConnectBindsToUrl`, `DisconnectHitsItsGrant` | one call, one operator here and one on another replica, two URLs, two tokens, two edits |
| `oauth_live` | `LockAlwaysFreed` | one call, one operator |
| `oauth_stale_url` (violation) | see Findings | one call, one operator, two URLs |
| `oauth_lost_edit` (violation) | see Findings | two operators, two URLs |
| `audit` | `NoSendOnClosed`, `Accounted`, `KeepsPromise`, `CloseReturns`, `RecordReturns`, `RowSettles` | three rows, two closers, a queue of one |
| `stream_relay` | `CutReachesWrite`, `NothingOutlives`, `EndIsTrue`, `ShutdownEnds`, `FlowsOrEnds` | one stream; the module has no constants, the state space is complete |
| `stream_recheck` | `BaselineNeverDrifts`, `RenameKeepsStream`, `WrongStreamEnds` | two URLs, a key on a group, two edits after the first row, two re-seals |
| `era_cache` | `VerdictOfThisRow`, `ProbeFloor`, the map's bound | two upstreams, two requests, a map of one, lifetimes 3 and 2, clock to 4, one edit each |
| `era_late_put` (violation) | see Findings | one upstream, two requests |
| `logs_page` | `RowsAreOneRun`, `ControlAgrees`, `CountsDescribeTable`, `OneFacetWalk`, `QuerySettles`, `FacetsSettle` | two rows, one of them stored late; pages of one row, three generations, the last of them only for the null query; a minute of two ticks |
| `dashboard` | `WarnedBeforeLoss`, `OwnDialog`, `PanelsDescribe`, `FormBelongsToRow`, `HeldWhileOut`, `CatalogueIsThisDialogs`, `NoSilentOverwrite`, `ConfirmAsked`, `RulesReadAlike` | the scenarios of MCDashboard, at most three requests out at once |

`oauth_refresh`, `stream_recheck`, `era_cache` and `logs_page` also
check their module's type invariant. Every property is paired with a mutant, a definition in
the module that changes one mapped definition the way a plausible bug would, and
under which TLC finds the property violated.

Why the bounds are enough for the question each run asks. A double spend takes
two calls and one token that was rotated; the third token lets the rotation
happen again after a lost answer. Every edit race needs one edit between a
handler's read and its write, so two edits cover one race and the state after
it. Three rows with a queue of one are a row in loop's hands, a row queued and a
row parked, all at once. A map of one with two upstreams evicts on every insert
of the other. The baseline of a stream is compared with its predecessor only, so
two adoptions are enough for a drift. Clocks, serials, stamps and re-seals are
capped in the guards of the actions that advance them; the caps are constants
(`MaxTime`, `MaxSerial`, `MaxStamp`, `MaxRestarts`, `MaxSeal`, `MaxClock`). The
theorems hold for every value of them.

A table of two rows in pages of one has a first page, a second and an end; the
late row is older than the one already listed, which is the order a listing that
goes on can get wrong; two generations are one query and the one that replaces it,
with the first one's answers still to land. The third is the null query, which a
Custom bound that cannot be read makes while the second one's facets are still out;
it sends nothing, so a fourth would meet what the second did. The preset's window
is one tick, so that a moment later it leaves out a row and the counts of one anchor
are not those of another. The dashboard's instance is a set of
scenarios, each a few rows with bounds on dialogs opened, fields edited, Load
presses, writes of another operator and failures: every pair of edits of a row in
each of the twelve states a stored credential can be in, every triple of the fields
a credential depends on, three dialogs over two rows, an edit of each kind of
filter or list with and without the tools loaded, another operator with and without
a failing network. A late answer needs one request of an earlier dialog and one of
the present one, and a catalogue has two of its own, hence three out at once. The
members share a tool, and one has a name no entry can hold, one is an HTTP API and
one is disabled, so that each rule has a tool that separates its two readings.

`CHECK_DEADLOCK FALSE` is set where the system really stops: a logger closed and
drained, a stream that has returned or ended, the OAuth instances when the caps
on tokens, stamps and time are used up, a page nobody touches any more. MCOAuthGrant starts its runs in a
connected row; the theorems start in every initial state. Symmetry is used over
requests (and upstreams in EraCache), which only occur as members of a set, and
only in runs without liveness.

### Fairness

- `oauth_live`: weak fairness of each call's and each request's own steps. Every
  wait in them is bounded in the code: the lock by the request's context, the
  vendor by `refreshVendorBudget`, the store's writes by a timeout of their own.
- `audit`: weak fairness of the goroutines of `Record`, `enqueue` and `Close`.
  Nothing is assumed of `loop`, since the store may hang; only `RowSettles` asks
  for it, as its premise. `Close`'s own wait ends by `drainTimeout`.
- `stream_relay`: armed timers run out, callbacks and the relay's own steps are
  taken, a write ends by its deadline, and a read of a cancelled request's body
  fails once the buffer is empty (strong fairness, because the reader may still
  take buffered bytes in between). Nothing is assumed of the upstream or the
  client.
- `stream_recheck`: the timer is set again after every check (weak), and a store
  that is asked for ever answers for ever again (strong): the code stays open
  when a read fails, so with a store that never answers no stream would end.

- `logs_page`: weak fairness of mounting, of answering or failing each request
  (the server's reads have a deadline, and a lost connection rejects the fetch), of
  the callbacks, of the facet wait's timer and of the effect that starts a walk:
  the browser runs what is due. Nothing is assumed of the operator, of the clock or
  of the audit writer. `dashboard` has no liveness property.

## 4. What is proved

TLAPS checks these for all values of the constants allowed by the named
assumptions of the modules (finite sets only where cardinality is used).

- **OAuthGrantProofs.** `TypeCorrect`: Spec => []TypeOK. `NeverSpentTwice`:
  Spec => []NoDoubleSpend. NoDoubleSpend says nothing about who holds which
  token, so it is not inductive. `SpendInv` adds: a caller between the re-read
  and its last swap holds the lock (`LockInv`); no token exists before it is
  minted (`MintedInv`); a spent token in the row is lost already or its successor
  is in the hands of the one caller that spent it (`RowInv`); a caller at the
  vendor holds a token that is unspent or lost (`CallInv`); a sign-in's token is
  held by nobody else before it is stored (`SignInInv`); a PATCH writes no
  refresh token (`PatchInv`). The lock gives the rest: while one caller is in its
  critical part no other reaches the vendor.
  `EndedGrantNeverReturns` (Spec => []EndedGrantStaysEnded), `SignInKeepsItsUrl`
  (Spec => ConnectBindsToUrl) and `DisconnectIsExact` (Spec =>
  DisconnectHitsItsGrant) are about handlers that compare `updated_at` and then
  write. They rest on `EditInv`, which needs no lock, because other replicas do not
  share it: a token names its grant at the vendor (`OwnerInv`); a stamp once drawn
  is new to everybody who still compares one (`StampInv`); a handler that sees the
  stamp the row has sees the row's URL and grant (`ViewInv`); a refresh that is
  about to swap keeps the grant it read (`SwapInv`); a sign-in not stored yet has a
  grant nobody else holds and nobody ended (`PendInv`); what was ended was
  minted before, so that a fresh grant is none of it (`EndedInv`).
- **AuditLogProofs.** `ClosedChannelSafe`, `EveryRowAccounted`, and
  `LoggerKeepsPromise`, the refinement Spec => Promise!Spec. The invariant adds
  `OnePlace` (a row is in one place at a time and the queue holds none twice) and
  `LoopDone` (once loop has returned nothing is left and nothing can come);
  without the first, `Store` and `Lose` could both happen to one row.
- **StreamRelayProofs.** `RelayTypeCorrect`, `CutsReachWrites`,
  `RelayLeavesNothing`, `RecordedEndIsTrue`: Spec => []TypeOK, []CutReachesWrite,
  []NothingOutlives, []EndIsTrue. The module has no constants, so TLC's search is
  complete; the proof says why it comes out so. `RelayInv` adds the order of the
  deferred exit (`ExitOrder`: `done` is set under the mutex, so from then on no cut
  is half done, and the timers are stopped before the row is written), where each
  cancellation came from (`CauseTrue`), that a write's deadline is past early only
  after a cut (`DeadlineTrue`), and that "upstream" was decided on an EOF
  (`EofTrue`).
- **StreamRecheckProofs.** `RecheckTypeCorrect`, `BaselineSteady`,
  `OnlyChangesEnd`. The invariant adds `StampTells` (two rows with one
  `updated_at` hold one credential at one URL, which is why new bytes under an
  old stamp can be taken for a refresh) and `SinceTells` (what the history leaves
  out did not happen).
- **EraCacheProofs.** `CacheBounded`, `HitIsOfThisRow`, `ProbesKeepTheirFloor`.
  The invariant adds `StampedAsProbed` and `FloorHeld` (while a probe's floor
  lasts, its entry is in the map and good); the bound rests on the cardinality
  lemma `PutRoom` about eviction.

- **LogsPageProofs**, the paged table. `TableCorrect`: PagesSpec => [](PagesTypeOK /\
  RowsAreOneRun /\ ControlAgrees), for any queries, any finite set of rows (a set
  that can be listed newest first), any page size. RowsAreOneRun speaks of the
  screen only. The invariant `IInv` adds what is on the way: no request is of a
  generation to come (`GensPast`), at most one is of this one (`OneLive`), an
  answer is a page of its query from its cursor (`AnswersArePages`, from the lemma
  `AnswerIsPage` about the server's listing), an awaited first page meets a table
  without a query (`FirstAwaited`), an awaited further page continues the rows on
  screen and was read after the first one (`MoreAwaited`). `RunContinues` is the
  heart: a run and the page that continues it are a run.
- **LogsPageProofs**, the page. `PageDrivesTable`: Spec => PagesSpec, the page implements
  the hook's specification, so `LogRowsAreOneRun` and `LogControlAgrees` follow
  from TableCorrect. `LogsTypeCorrect`, `CountsAreOfTheTable` and `WalkIsAlone`
  need `LogsInv`: the table's query is the one the controls spell
  (`QueryOfFilters`), a facet request counted exactly what its query selects of the
  rows it read (`CountsSelected`), and a walk of this facet query is the one the ref holds
  (`WalkIsHeld`). `ControlsCommit` shows that every control commits filters the
  page can hold, and `LogQueryType` that every query they spell is one the server
  knows.

- **DashboardProofs.** `PagesCorrect`: Spec => []PagesInv, for any rows, tools,
  inputs, scenarios and number of requests out; the seven properties below
  follow from it. The pages' one idea is a lane: the requests of one handler that are
  out and, where the handler compares a sequence number, still its own. A busy flag is
  true exactly while its lane holds a request, and a lane never holds two
  (`LaneIs`); that, with what each lane's request is about, is inductive where the
  properties are not.
  - `DialogShowsItsOwn` (OwnDialog), `PanelsAreAboutTheirs` (PanelsDescribe),
    `FormIsItsRows` (FormBelongsToRow) and `ButtonsHeldWhileOut` (HeldWhileOut) are
    read off `DialogPart`, `ToolsPart` and `HoldsPart`: a panel's request asks for
    the connection the form has, or the row the Tools dialog stands on, so its
    answer may be shown; an edit of either takes a new number and empties the lane.
  - `CatalogueIsOwn` (CatalogueIsThisDialogs): a member is Loading exactly while a
    request of its own is out (one each, hence the two cardinalities are equal), and
    each of the ways a press starts, goes on or stops asks at most as many members
    as there are slots free.
  - `BlockingSavesAreAsked` (ConfirmAsked): an Alert stands over a dialog that
    stands still, so its answer is about the body that will be sent. The Alert is
    raised by the browser's reading of the filter and the property is about the
    proxy's, so this needs that the two agree: `ParseAgrees`, `EntriesAgree`,
    `PermitsAgree` and `SavedReadable`, lemmas of `ToolPolicy` for any filter, entry
    and tool.
  - `RulesAreNotLostSilently` (NoSilentOverwrite): an answer of the fresh read
    nobody overtook still tells the row (`ReadFresh`), a row that is not stale gives
    the verdicts, or has the lists, the dialog was seeded with
    (`GroupPatchFresh`, `KeyPatchFresh`), and no input of a dialog takes Replace back
    while its save is out.

- **DashboardRulesProofs.** `PagesTell`: Spec => []TellsInv, beside PagesInv. The
  two properties about what the pages *say* rest on what they were told, and on its
  being so still. A row, an answer and a form have an auth type that there is (`UpTyped`). A member that a catalogue, or
  an answer on its way to one, calls loaded and whole has the upstream's own tools,
  and one that is not loaded has none (`CatalogueTells`). The lists a dialog draws
  from are empty or whole, and the groups come with the upstreams (`GroupsLoaded`,
  `KeysLoaded`): the reason why a picker row, which needs an upstream, never stands
  beside groups that have not come. A key's row, shown or on its way, has the target
  of the row stored under its id (`TargetsPart`), which makes a policy on screen the
  named key's (`PolicyPart`). Every step either leaves the requests it found or adds
  one that says nothing yet (`Comes`), so each part is shown once for most handlers.
  - `LossIsAnnounced` (WarnedBeforeLoss) then needs no history: `LossIsSaid` goes
    through the auth types the form and the stored credential can have, with and
    without the parts the server keeps, and compares what `patchUpstream` drops with
    the sentences of the form.
  - `RulesAreReadAlike` (RulesReadAlike): `GroupVerdict` and `KeyVerdict` give the
    proxy's verdict as a disjunction of rules, `TickedNames` a picker's tick as the
    rules' own matching, `ShownIs` what a row without a box shows and says,
    `KeyUnlisted` the line about tools left out, `ProblemAgrees`, `AcceptedWrite`,
    `KeyMarks` and `ListAccepted` the marks and the form's checks as the API's, `WholeCatalogue`, `UnmatchedTrue`, `PrefixTrue` and
    `BlocksTrue` what a catalogue may conclude, `NothingAdmitted` and
    `DeniedIsBlocked` the standing line and the mark beside an allow list,
    `GroupBlocksAgree`, `SummaryBlocks` and `PolicyTrue` a group's filter as the key's
    dialog and the Policy dialog show it; `GroupReadsAlike` and `KeyReadsAlike` put
    them together. The theorem is about the sentences section 2 lists, with the two
    exceptions of Findings; it says nothing of the others.

  Assumed of the constants: the rows a scenario starts with have an id, no two of
  them the same one (`GroupRows`, `KeyRows`), an upstream's id is one the server
  gives and never the empty one (`UpRows`), and `KeyTyped` names the two boxes of
  the key form that are typed into (`KeyInputs`); upstreams and groups are named by
  their ids, every upstream has a slug and an HTTP API has no tools (`UpstreamRows`,
  `KeyGroupRows`); and rows to start with, and the Auth type select, have the auth
  types the code knows (`UpAuthTypes`). TLC evaluates them in `dashboard`.

Each inductive invariant was checked by TLC on the instance of its run before it was
proved.

Only model-checked: all liveness properties (`LockAlwaysFreed`, `CloseReturns`,
`RecordReturns`, `RowSettles`, `ShutdownEnds`, `FlowsOrEnds`,
`WrongStreamEnds`, `QuerySettles`, `FacetsSettle`), which need fairness.
Every invariant and every action property that a run checks is also proved.

## 5. Findings

1. **A token can be sent to a URL it was not minted for** (`oauth_stale_url`).
   `Present` checks the token set against the row it reads under the lock;
   `forward` and `listTools` use the URL of the row the call read before. An edit
   and a reconnect in between separate the two.
2. **A PATCH can undo another one's fields** (`oauth_lost_edit`).
   `UpdateUpstream` writes every column of the row as read, with no compare on
   `updated_at`; the comment on the handler says that a key the body did not
   carry leaves the stored value alone.
3. **A late put is not always corrected** (`era_late_put`). The comment on
   `retrySoon` says every put is followed by its caller's own listing. The relay
   of a modern client's request to a group's first member calls `memberEra` and
   lists nothing, so its late put keeps the longer life.

Seen while modelling the dashboard, and left out of the properties by an exception
named at the property or by what the property says:

- A typed OAuth client id or secret survives closing the dialog into the next Add
  (`upstreams/page.tsx:398` says a typed credential never does).
- A required credential box filled with spaces passes the browser's `required`, and
  `upstreamPatchBody` then sends the auth type alone, which `upstream-form.ts:317`
  says it never does (excepted in `WarnedBeforeLoss`).
- A delete's late answer closes, or writes its failure into, another row's delete
  Alert, and a disconnect's line can stand under another row's dialog.
- A list asked for before a save can land after it and put the old row back on
  screen; the load that follows a 404 is not awaited.
- Two rotates of one key answered out of order leave the older secret on screen,
  and a key's delete can be pressed twice.
- A connect whose page was left still sends the browser to the vendor.
- The fresh read narrows the window in which a save overwrites another operator's;
  between it and the PATCH the row can still move (`raced`). A key's `http_methods`
  are replaced with no fresh read at all, and verbs ticked and then hidden by a
  reload that changed the group's members are still sent.
- In a key's dialog with no allow entry, a row that no entry can hold says "It stays
  blocked, because it is not on the list." (`catalogue.ts:189`, drawn by
  `tool-picker.tsx:196`), and a member whose list is cut says "A tool that is not
  listed cannot be ticked and stays blocked." (`catalogue.ts:174`,
  `tool-picker.tsx:227`). The proxy takes an empty allow list for no rule
  (`policy.go:220`, `len(p.allow) > 0 &&`) and permits both tools.
- The second sentence stands there too when an entry reaches the tool: under a
  member ticked whole ("Allow every tool on X, including tools it adds later.",
  `tool-filter.ts:219`), or with another entry that names the tool, the proxy permits
  what the line says stays blocked.
- Switching from a preset to Custom widens the window to the start of its minute.

Two limits of what is shown. `Accounted` lets a goroutine that `Record` started
hold a row: if the process exits after `Close` returned and before that
goroutine ran, the row is neither stored nor logged. And calls of another
replica do not refresh in the model: two replicas that refresh one grant at once
spend its token twice, which docs/07-security.md records as a known limit.

## 6. Plan

Done: the grant, the audit logger, streams, the era cache, the cursor pages and
the Logs page, the three administration pages with the tool rules they share with
the proxy. Then

1. `RateLimiter`: buckets with a clock, eviction and a changed limit; how many
   requests a window can admit, and that dropping an idle bucket gives nothing
   away (`maxIdle` against the time to refill).
2. `Registry`: upstreams, groups and keys under concurrent create, PATCH and
   delete; referential integrity (`DeleteUpstream` checks and then deletes), and
   the read-merge-write of the group and key handlers, which the dashboard's model
   takes as one step.
3. `Serve`: admission, authentication, policy, aggregation and relay as one
   request's steps, with every refusal writing its row; composed with the rate
   limiter and with `ToolPolicy`, so that a tool that is listed can be called.
4. `StreamCapture`: the event holder and the capture over events split at any
   byte (it keeps a stream's head and its last complete event only); refines the
   free `answered` of StreamRelay.
5. `Keyring`: rekey, startup and processes with different keyrings.
6. Two replicas that refresh one grant, with the vendor's reuse detection; the
   goroutine of `enqueue` that has not run when the process exits.

Theorems to come with those modules: the window bound of RateLimiter; Registry's
integrity where it holds.

## 7. Not modelled

Text work (redaction patterns, wording, headers), request building and parsing
of answers in `internal/mcpclient`, configuration, the network guard and web
utilities: sequential code with no state over time, better served by the
repository's tests. Schema migrations run once, before anything else. TLS, SQL
drivers and net/http are taken as they document themselves.

Of the dashboard: the login and settings pages, the overview's counters, layout, theme, icons and
the components without state; a group's description, a key's expiry and metadata,
the slug of an upstream and the endpoint and snippet text of the secret dialog,
which are shown and sent as the modelled fields are; the Status filter, which is
read and sent as the Virtual key filter is; and the wording of messages, which are
modelled by what they are about. The admin API answers each request of the pages
in one step; the races inside its handlers are OAuthGrant's (`oauth_lost_edit`).
