# nimsforestguidance: specification and proofs

This directory holds the TLA+ model of nimsforestguidance, the configurations
that check it with TLC, and theorems about it that TLAPS checks. Source paths
are relative to `src/`; `PROJECT.json` maps every definition to its lines.

## 1. The system

Guidance keeps the cash forecasts of one organization. A user edits a forecast
in the browser; the command is signed, queued on a JetStream stream, applied to
SQLite by a goroutine, and its outcome announced on two other streams.

    browser --POST /api/commands--> Server.command --publish--> TAPROOT
      ^                                                            | Fetch, Ack, Nak, Term
      | GET /api/operations/{ref}                                  v
      +------------------ commands <--transaction-- consumer goroutine (StartBus)
                          forecasts, revisions, audit, outbox
                                                          |
                              HUMUS, RIVER <--publish-- flushOutbox goroutine

| Component | Code | State | Operations | Hard because |
|---|---|---|---|---|
| Store | `internal/guidance/store.go` | five tables | `Apply` (replay, commit, refuse); reads; `Backup` | commands arrive twice, out of order and prepared on old revisions; the workflow is long |
| Cash model | `internal/guidance/model.go` | none | `Validate`, `Calculate` | boundaries of dates, sums of many amounts, financing that counts or not |
| Write path | `internal/web/server.go` 243-360 | TAPROOT, consumer state, local batch | handler, fetch, apply, ack/nak/term | redelivery, lost acknowledgements, expiry, crash between two steps |
| Announcements | `server.go` 383-421 | outbox flags, HUMUS, RIVER | scan, publish, update | crash between publication and update, a limit of rows per scan |
| Start, health, stop | `cmd/.../main.go`, `server.go` 37-52, 98-111, 296-308, 377-382 | which goroutines run, `s.NC`, `s.JS`, key file | the steps of `StartBus`; `/health` | a step of the start fails and the others stay done |
| Signatures | `server.go` 37-79 | key | `commandMAC`, `originMAC`, `validateOrigins` | authority travels with the message |
| Authentication | `internal/web/auth.go` | cookie only | `Wrap`, `validateToken`, `redirectToLogin` | sessions and memberships change while a request is checked; redirects between two sites |
| Portfolio | `internal/web/portfolio.go` | slices of one request, a mutex, a wait group | parallel reads of workspaces | goroutines share slices; partial results; every workspace checks again |
| Financial systems | `internal/web/financial_systems.go` | variables of one request, a wait group | five parallel reads, one deadline, one pass over them | outages must not look like absences; keys that stand for other keys |
| Sources, CSV | `internal/web/sources.go`, `app.js` 36-57 | none; in the browser the draft and the preview | previews, picker, save, import, export | pages move while they are read; limits; duplicate references |
| Console | `internal/web/static/app.js` | list, editor, `loadGeneration`, commands waited for | save, action, reload, poll | retries under new references, answers out of order, stale editors |
| Conversions | `model.go` 108-137, 300-305 | none | `Money`, `Decimal`, `FloatMinor` | rounding, limits |

What makes each correct: the **store** decides a reference once, numbers
revisions without gaps, keeps one audit row per revision, and lets a forecast
only go draft, submitted, reviewed, approved, with approved ones final. The
**write path** loses no accepted command, applies none twice, never on a
revision its sender had not seen, and never with somebody else's name or
rights. **Announcements** are never marked before they are made and are made in
the end. The **cash model** computes the documented need, without overflow. A
**start** that is degraded says so. **Authentication** serves nobody whose
session and membership were not confirmed during the request, and every request
ends. The **portfolio** shows or names every workspace. The **financial
systems** never show an outage as an absence nor infer a designation. The
**sources** never bring a record into a schedule twice, never cut a preview
silently, and read the files they write. The **console** never goes back to an
older list and applies the changes of an editor once.

`PROJECT.json` lists what is hard to test in this code ("hazards"), each at its
line, with the properties that would catch it.

## 2. Modules

| Module | What it is |
|---|---|
| `Workflow` | the abstract promise of the store: forecasts with a status, references decided once; no tables, revisions or messages |
| `Store` | `Apply` over the five tables; shown to implement `Workflow` |
| `StoreProofs` | the theorems about `Store` |
| `CommandBus` | extends `Store` with the handler, TAPROOT and the consumer goroutine |
| `BusProofs` | the theorems about `CommandBus` |
| `Outbox` | extends `Store` with `flushOutbox`, HUMUS and RIVER |
| `OutboxProofs` | the theorems about `Outbox` |
| `CashModel`, `CashProofs` | `Validate` and `Calculate`, with the definition of the funding need; its theorems |
| `Startup`, `StartupProofs` | the process: key file, `StartBus`, connection, health, restarts; its theorems |
| `Access` | the browser, iamnim and `AuthMiddleware.Wrap` of every workspace |
| `Portfolio`, `PortfolioProofs` | extends `Access` with `Server.portfolio` and its goroutines; the theorems about both |
| `FinancialSystems` | `Server.financialSystems`: five reads, one deadline, one pass; its theorems are in `SourcesProofs` |
| `Money` | `Decimal`, `Money`, `FloatMinor` on numbers and digits |
| `Sources`, `SourcesProofs` | extends `Money` with previews, picker, draft, save, CSV; its theorems, and in later sections those of `FinancialSystems` |
| `Console`, `ConsoleProofs` | extends `Store` with the tabs of the browser console; its theorems |
| `MC*` | values of the constants for TLC |

**Store.** One SQLite connection (`SetMaxOpenConns(1)`, `store.go:52`) and one
transaction per call make `Apply` one step. A table is a function or a set of
rows, a missing row is `None`. The closure `business` is the operators
`Permitted`, `Proposed`, `Validated`; the three ways to return without error
are the actions `Replay`, `Commit` and `Refuse`. What an editor enters (dates,
cash, movements) is one value `content`; the result of `Validate` on it is given
by the sets `ValidContents` and `ApprovableContents`. Time stamps, error texts
and JSON are left out. `NewID` draws an identifier that no forecast has (16
random bytes).

**CommandBus.** The stream is external. It is modelled by what the code relies
on: it stores, drops a publication whose `MsgId` it remembers (`recent`,
`Forget` ends the window), delivers new messages in order and due ones at any
time, and redelivers what is not acknowledged. `Fetch` fills `batch`; for each
message of it the goroutine takes two steps, the handling (`GiveUp`,
`HandleCommand`, `Rejected`, `StorageError`), which sets `verdict`, and the
settlement (`Settle`, `SettleLost`), because a crash can fall in between. A
signature is the flag `sealed`, which only the handler sets. A message that
cannot be decoded or has no reference is given up like one of another
organization and is not modelled apart.

**Outbox.** `items` and `stage` are the local state of the loop; each
publication and each `UPDATE` is a step. `inserted` is the order of the row ids:
the `SELECT` has no `ORDER BY` and no index serves its condition, so it scans in
that order. The pool has one connection, so nobody else reaches the database
while `rows` are open (`ConnectionFree`). A stream in `down` refuses every
publication for good. The streams are external (`Keep`, `Forget`).

**Startup.** `phase` is the line `run` has reached, with one action per call
that can fail and one per its failure; a failing flush at the end of `StartBus`
is a degraded start with both goroutines running (`FlushFails`). The stream keeps which key each command
was sealed with. `Decide` and `Announce` stand for `CommandBus` and `Outbox`.

**CashModel.** A schedule is what a forecast's editor controls; the actions add
a movement (the handler refuses what `Validate` refuses) and choose another
end. The fields `Validate` only bounds or asks for (names, labels, funding
dates, requested amount and contribution) are the flag `described`; an empty
identifier of a movement is `None`. Integers are words from `-Half` to `Half - 1` and `Wrap` is what a word
keeps of a sum, as for `int64` (`Half` is 2^63). The map of dates, its sort and
the loop over it are a recursive function over the days of the span (`Walk`)
that adds a point on the days of the map.

**Access, Portfolio.** iamnim is external: which tokens are live and who has
which role may change at any step (`Revoke`, `ChangeRole`), also between the two
questions `validateToken` asks. `check[o]` is how far `Wrap` of workspace `o` is
with its request. A request of the browser goes through `Receive`, `AskMe`,
`AskMemberships` and one of the answers; `ToLogin` sends it to iamnim, whence
`SignIn` brings it back with a token that may be dead already. `held` is a
history variable: the sessions and roles iamnim would have confirmed at some
moment of the request. `Portfolio` gives each goroutine the steps `Spawn`,
`Ask`, the check at its workspace, `Answered` or `NoAnswer`, `Lock`, `Append`;
what it read of the slices is kept in `local` from `Lock` to `Append`, so an
append without the mutex would lose one. The order of the entries and the
horizon are left out.

**FinancialSystems.** Each goroutine is one step from "reading" to "done" that
writes what the goroutine writes: they share no variable, each writes its own
flag or its own element of `providers`, which is not appended to before the wait
group. `Respond` is the pass after `wg.Wait`. The keys of the map `keys` are a
function that grows with each tool of the catalog (`KeysAfter`). A role shows the
name and the configuration of the provider it denotes. Answers of
services are records with a status (0 for none); texts are left out, as is the
word "Listed" for a tool without a status. A tool may well have the status
"Unavailable" or "Not listed" in the catalog's own words, and the overview then
shows it: the properties say when the word can only be the catalog's.

**Money, Sources.** An amount of text is a sign, a whole part and its digits
behind the point; `WholeLimit` stands for 10^12. Odoo may post, pay or withdraw
an invoice between two pages (`Post`, `Pay`, `TakeBack`). `reading.claims` is a
history variable: the invoices that were outstanding ever since the preview
began. A date is inside the horizon, outside or missing; the seals of imported
rows are in `CommandBus`. The picker is a modal dialog over the editor, yet the
draft can change beneath it: "Create revision" waits for its command and a
reload and then opens an editor whatever the user has opened meanwhile
(`app.js:44`, `36`), the detail shown after a save offers "Edit draft", and the
file of a CSV import may be read by then. A preview may be asked for in one
opening and arrive in another. So no action of the draft asks whether the picker
is open. `replaced` is a history variable: the editor was opened anew since the
boxes of the open picker were drawn.

**Console.** A tab has a scope, a list, reloads under way with their
`loadGeneration`, an editor with the revision it was opened at, and the commands
it waits for, each under a reference of its own. In the scope of all
organizations the list is read from `/api/portfolio`, of which the forecasts of
this store matter here; when `Store.List` fails it answers without them and
names this organization as unavailable (`ReadOthersOnly`), and the tab shows
that it is `unread`. Of the other scope's failure nothing is shown but a message
(`ReloadFails`). The buttons are those of a detail that was drawn for any status,
since it stays open while the list changes, and it may lie over an editor: the
store, not the browser, decides. Publication and delivery are those of
`CommandBus` seen from the browser: what was published may be applied at any
time and again. `origin` records which editor a reference was drawn for, `seen`
the revision a tab last showed of each forecast, whatever it shows now.

## 3. Runs

| Run | Checks | Bounds and why they are enough |
|---|---|---|
| `store` | type, history, audit, approval, lineage, immutability, refinement of `Workflow` | 5 references: the shortest way to the revised draft of an approved forecast; 2 identifiers: original and revision; 3 contents: refused, storable, approvable; expected revisions 1-4; users with and without rights; other organization, no actor, overlong reference, unknown action. References and identifiers are symmetric (safety only). |
| `bus` | safety of the write path | 3 messages, so that two edits of the same revision follow a create; batches of 2, so that one message waits behind another; 2 faults, so that a crash can meet a lost acknowledgement; sealed, unsealed, foreign and mislabelled messages |
| `bus_live` | every message is settled, every accepted command decided | 2 messages, 2 faults |
| `bus_overlong_ref` | finding 1 | 1 message, no fault needed |
| `outbox` | flags, order, River shows changes only, Humus and River get everything | 3 commands, scans of 2 rows (so a row waits for the next scan), 2 faults, any set of streams down |
| `cash` | need, breach, exactness, monotonicity, financing | 3 days, 3 movements, words of 6 bits; the largest sum `Validate` lets through fits the word, as 5,002 amounts of 10^14 fit 64 bits |
| `startup` | seals survive, queued is decided, decided is announced | 3 faults: a failed start (any call of it) after a stop, and a lost connection |
| `startup_degraded` | finding 2 | 3 faults |
| `portfolio` | access, accounting of workspaces, every request ends | Home and two others, so that two goroutines meet at the mutex; 2 tokens, so that a dead cookie meets a good callback; a page, the portfolio and a path that takes posts only; 1 change at iamnim in addition to those at sign-in: the moments of one change decide, and the theorems are for any number |
| `financial` | statuses, designations, an answer in the end | all orders of five reads; 3 catalogs, one with a tool that calls itself unavailable, from this organization or another, sound or not, with 200 and 503; 6 lists of integrations with no, one, two, foreign and broken records |
| `sources` | duplicates, complete previews, round trip | pages of 1 invoice, previews of 2, schedules of 2, drafts of 2 when the next step begins; lists shorter than, as long as and longer than a preview; 1 change of the invoices; Ledger rows with one reference; amounts at the rounding and at the limit of 10; editors opened anew at any moment, over an open picker too |
| `console` | one application per editor, no older list, nothing vanishes unannounced | 1 tab, 3 references (a creation, an edit, a repeated attempt), 2 identifiers (a repeated creation makes a second forecast), 2 editors, 3 reloads of which at most two neighbours overlap (`FewReloads`: an answer that arrives late is late by one already), both scopes, 1 poll; at most one button is pressed (`PressedOnce`), to submit or to review: an edit that is tried twice leaves no reference for another, and approval, return and revision are the business of `store`. The theorems have none of these bounds. |

`CHECK_DEADLOCK FALSE` is set where the modelled inputs are finite and the
system then really has nothing to do (all but `store`, where a replay of a
decided command is always possible, and `portfolio`, where the browser can
always ask again).

**Fairness.** `CommandBus`: the goroutine loops while the process runs, the
container is restarted, and the stream redelivers what is due, hence weak
fairness of `Fetch`, `Handle`, `Settle` and of the expiry of each message;
nobody has to publish and no fault has to happen. `Outbox`: the ticker ticks and
the loop runs. `Startup`: the container is started again, the client library
reconnects for ever (`MaxReconnects(-1)`), the goroutines loop, and the operator
restarts a service that logged a degraded start. The last one is an assumption
about people; finding 2 shows why it matters. Faults are bounded in every run:
a fault at every try for ever would defeat any retry; a stream that is down for
good is no fault but a state, and `OutcomesReachHumus` and `ChangesReachRiver`
say what still holds then. `Portfolio`: the server of Home runs and its
questions to iamnim time out (10 s), the goroutines run and their requests time
out (12 s), so another workspace need not answer at all; the user at the sign-in
page does sign in (one who does not is not waiting). iamnim need not change and
the browser need not ask. `FinancialSystems`: the deadline of four seconds comes
and then each read ends; no service has to answer. `Sources` and `Console` state
no fairness and no liveness.

**Mutants.** Beside the definitions stand variants (such as `MayEditLate`
before `MayEdit`) that a plausible mistake in the code would produce: a dropped
condition, an acknowledgement instead of a refusal, a flag set too early.
`PROJECT.json` pairs every checked property with the variant that breaks it, so
that no property holds whatever the code does. They are in no specification.

## 4. Findings

1. **Overlong references** (`bus_overlong_ref`). The handler answers 202 for a
   command whose reference has more than 100 bytes; `Apply` returns an error
   for it (`store.go:133`); the consumer refuses it with a delay
   (`server.go:354`), for ever. The user reads "queued" until the stream drops
   the message. The console's own references are 32 digits long, so only other
   clients of the API meet this.
2. **A degraded start that looks healthy** (`startup_degraded`). `s.JS` is set
   before `PullSubscribe`. When that call fails while the durable consumer
   exists (it survives restarts), the process logs "starting degraded", then
   answers `/health` with ok and accepts writes that nobody consumes until it
   is restarted. `StartupHealthIsTrue` shows that an error of `StartBus` is the
   only way to this: without one `/health` is ok exactly while the process is
   connected and both goroutines run.

## 5. Proofs

`StoreProofs` proves for every set of references, identifiers, actors, contents
and commands that the safety properties of the `store` run hold, and that
`Store` implements `Workflow`. The assumptions are those of `Store`
(`StoreAssumption`, `WorkflowAssumption`): storable contents are contents,
commands are records of the right shape, `None` is no value of any table.

The inductive invariant `StoreInv` is the type invariant together with the four
properties. They are needed together: that a new revision does not meet an
existing row needs the history to end at the current revision; that it has one
audit row needs that no audit row names an undecided reference; that an approval
follows a review needs the current forecast to be its last revision; that a
predecessor stays approved needs that approved forecasts do not change. The
proof has one lemma per conjunct for `Commit` (`CommitTypeOK`, `CommitHistory`,
`CommitAudit`, `CommitReviewed`, `CommitLineage`), one for `Refuse` and one for
steps that change nothing. The refinement maps a forecast to its content, status
and predecessor and a decided command to its reference; `Commit` maps to the
action of `Workflow` its command names, `Refuse` to `Refuse`, `Replay` to a
stutter.

`BusProofs` proves the safety properties of the `bus` run for streams, batches
and fault counts of any size. It assumes in addition `BusAssumption` (who the
administrators are, what other programs can publish is not sealed) and
`ReachAssumption` (`Commands` contains every command that can reach `Apply`).
First, `BusUsesStore`: a step of the write path is a step of the store or leaves
it alone (`OnlyHandlingStores`, `HandledIsCommand`), so `StoreInv` and every
theorem about `Store` hold here. The invariant `BusInv` adds that the stream
only holds what was sent and never changes a message (`MessagesSent`,
`MessagesKept`), and `VerdictSound`: while the head of the batch waits to be
acknowledged its command is decided, and while it waits to be given up it is
undeliverable. That is what makes `NothingSettledUndecided` inductive, because
the handling and the settlement are two steps with crashes, expiries and
redeliveries in between, and it rests on the store never undeciding a reference
(`ApplyDecides`). The other conjuncts follow from what `Apply` may add to each
table (`ApplyAudits`, `ApplyContent`, `ApplyIsCurrent`). `OutcomeFinal` and
`NoLostUpdate` are action properties proved from the same invariant. With
`StoreStepsWorkflow` (a step of the store from a state of `StoreInv` is a step
of `Workflow` or a stutter) the write path implements `Workflow` too
(`BusImplementsWorkflow`): through every redelivery, retry and crash a command
takes effect at most once and in one step. The same holds of the announcements
(`OutboxImplementsWorkflow`) and of the console (`ConsoleImplementsWorkflow`).

`OutboxProofs`, for any number of commands, rows and faults and any `Limit`.
`OutboxInv` adds to `StoreInv`: a row of the outbox belongs to a decided command
and its River flag starts false for an applied one only (`RowsDecided`), what a
scan holds was such a row (`ItemsDecided`), what a stream remembers it has
(`Remembered`), and between a publication and its `UPDATE` the event is on the
stream (`AboutToMark`). The last is why a crash there is harmless.

`RiverInRevisionOrder` (`OutboxKeepsRevisionOrder`) speaks of behaviours without
a fault, and needs a chain from the revisions to the stream, `OrderInv`: every
row has one row id and the changes of a forecast have them in the order of its
revisions (`RowsInOrder`); the rows in hand are in that order and none was
marked meanwhile (`ItemsInOrder`); and a row that is due is behind all of the
stream, but for the one that is published and not yet marked, and either in hand
or behind all that are (`RiverCaughtUp`). `LIMIT` is what makes the last part
hard: a scan must take the first rows that are due for River although rows due
only for Humus count towards the limit.

`StartupProofs`, for any number of faults: `StartupInv` says in which phases the
key is loaded, that it is then the key of the file, and that nothing was queued
before a whole key was in the file (`NothingUnsealed`). `BusBegun` relates the
phase to what `StartBus` has set and started, unless it returned an error, and
gives `StartupHealthIsTrue`.

`CashProofs`, for any schedule, amounts and days. `CashAssumption` asks that
`(MaxMovements + 2) * MaxAmount < Half`; in the code that is 5,002 * 10^14 <
2^63. The outlook is a recursive function and the sums are folds, so the module
begins with its own induction: of any collection of subsets of a finite set one
contains no other (`SmallestSet`, from the well-founded ordering of the library),
hence `SubsetInduction` and `IntervalInduction`, stated with a set where the
library has an operator. From them follow what a sum is, that it may be split
(`SumUnion`), bounded (`SumBound`) and renumbered (`SumImage`). `ValidFits` shows
that after `Validate` no sum of `Calculate` leaves the word, so `Wrap` can be
dropped. The invariant of the loop, `SoFar`, says what the view holds after a
day: the cash, the largest gap, and the first day below each level, over all days
of the span and not only those with movements (`PointKeepsSoFar`,
`QuietDayKeepsSoFar`). `OutlookMatchesDefinition` is `SoFar` at the end;
`LongerOutlookNeedsMore` compares it at two ends, `NeedIsExact` in two schedules
whose opening differs by the need; `PromisesExcluded` shows that `Net` is the
same function for the schedule without promises, in any order.
`ApprovedCountsCommitted` compares two sets of movements. `CashFiguresAgree` adds
what no run states: the totals do not wrap, belong to one another and to the
final cash.

`ConsoleProofs`, for any number of tabs, editors, attempts, polls, reloads and
changes of scope. `ListsSound` says of every tab that its reloads have numbers of
their own, and orders what it ever showed of a forecast, the answers on their
way and the store; only the newest answer may replace the list, and one without
a forecast that the tab has seen is one that says so, which gives
`ShownNeverOlder`. `EditAppliedOnce` needs that a
reference carries its editor's forecast and revision whoever publishes it
(`AttemptsHonest`, `DecidedPublished`) and that once one of them was applied the
store has passed that revision (`Passed`), so that `Apply` refuses the others.

`PortfolioProofs`, for any organizations, tokens, paths, identifiers and number
of changes at iamnim. `HeldIsCurrent` and `ServedIsGood` carry a membership from
the answer of iamnim to the moment of service; `ChecksInRequest` says that other
workspaces check with the session of this request, `RepliesGood` that a reply
that will be shown came from a workspace that let the user in. `Mutex` (who is
between `Lock` and `Append` holds the mutex and an exact copy of the slices) and
`SlicesExact` (the slices hold what the goroutines that are done appended) give
`WorkspacesAccounted`; `Quiet` says that nothing survives the request.

`SourcesProofs`, for any lists, files, page size and limits (the limit a number
of whole pages, as in the code). `PreviewOnItsWay` places every invoice that was
outstanding since the preview began: cut off, still to come, or among its rows;
a posted invoice moves the list, which can repeat an invoice but not skip one.
`OfferedOnce` holds for the draft the boxes were drawn for: rows that are entered
or read from a file carry no reference of a source, and an editor that is opened
anew over an open picker sets `replaced` until the boxes are drawn again; that no
save holds a record twice does not depend on it. `DecimalIsRead` is proved from the
arithmetic of division, and with the limits of `Validate` gives
`ExportReimports`.

Its later sections are about `FinancialSystems`, for every catalog and every
list of integrations the services may answer (`FinancialAssumption`: they have
the shape the code decodes, and an answer that is none is `Silent`). The
invariant `OverviewInv` says that after each read the variables of the handler
are what that service said (`ReadsKeepAnswers`) and that the answer was made of
them (`AnswerIsOfReads`); the order of the reads drops out. The pass over the
catalog is a recursion over its tools: by induction over its positions
(`LeastNumber`, `CountUp`) a key that no tool declares as its connection type
keeps its meaning (`KeepsMeaning`) and every tool that adds a provider has added
its key (`HasAdded`). From that follow `StatusFollowsSources`,
`DesignationIsRecorded` and the words of every status (`OverviewTyped`).

Every safety invariant and action property that a passing run checks is thus
also a theorem. Only model-checked is liveness (`EveryMessageSettled`,
`AcceptedIsDecided`, `OutcomesReachHumus`, `ChangesReachRiver`, `QueuedIsDecided`,
`DecidedIsAnnounced`, `RequestsEnd`, `OverviewAnswered`): weak fairness and
ENABLED are out of the prover's reach. Recursive definitions are recursive
functions, and each induction is a lemma of its own about a least element; no
theorem rests on a RECURSIVE operator.

## 6. Observations without a finding

These are what the properties had to except, or what modelling brought up
without a promise in the repository to hold against it.

- **A tool takes over a key** (`financial_systems.go:167`). A tool of the
  catalog with a financial role and a connection of type `shopify` makes
  `shopify` stand for itself. The built-in provider is then "Not listed" or
  "Not set" whatever its own connection, and a designation of `shopify` is shown
  under the tool's name. `docs/runbooks/financial-systems.md` has Shopify and the
  others "remain visible when missing from the catalog" and says "Do not infer a
  designation from an installed tool"; the row does remain visible and the
  designated key is unchanged, so the properties except exactly these displays
  (`Takers`).
- **The largest amount** `Validate` accepts, 10^14 minor units, is 10^12 in
  major units: one digit more than `Money` reads. A schedule that holds it is
  exported and cannot be imported again.
- **A withdrawn invoice** moves later ones one place up, and the next page
  begins one too late: one is missing from the preview without a warning.
  Invoices of unknown type or above the limit of `FloatMinor` are also left out
  silently.
- **A repeated creation.** The console draws a new reference for every attempt
  although the server asks to "retry with the same operation reference"; an
  editor of an existing forecast is protected by its revision, a new forecast
  may be created twice.
- **An applied save closes the editor that is open by then**, which may be
  another one, and opening an editor enables a button that an attempt under way
  had disabled.
- **An editor opened anew over an open picker** (`app.js:44`, `36`). The boxes
  keep what they were drawn for, so a record of the new draft can be offered and
  added again; only the save then refuses it. The README of the repository
  promises the refusal, and `NoRecordTwice` says no more for that moment.
- **The portfolio without its own organization** (`portfolio.go:36`). When
  `Store.List` fails the answer is 200 and the tab shows none of the forecasts it
  showed before, with the notice "Unable to read"; the scope of one organization
  keeps the old list in the same case.
- **More stuck rows than a scan reads** on a stream that is down shut out the
  rows of the other stream, until it is back (`Crowded`).

## 7. Not modelled

`CLI list`, `backup` and `version`: one request or one `VACUUM INTO`. The
history, the workspace export and `guidance.query` return the tables as they
are. `ValidDate` and text that is no amount are refused and leave no state.
HTTP headers, HTML, JSON and detail texts are wording; the CSRF token is the
choice `RefuseForm`. The unauthenticated paths (`/health`, `/static/`) and the
answer for missing settings are in front of everything `Access` has. HEAD
requests are left out. In the console, rendering,
filters and the switch of pages are left out. `Sources` makes one preview at a
time; the console lets one of each source run, but each is shown at once and as
a whole, and replaces the other. Restoring a backup rewinds
`commands`, so a command decided after the backup can be decided again if it is
redelivered; the runbook restores with the service stopped. `--dev` bypasses
queue and authentication and is for local use.

## 8. Plan

Done: `Store` with `Workflow`, `CommandBus`, `Outbox`, `CashModel`, `Startup`,
`Access`, `Portfolio`, `FinancialSystems`, `Money`, `Sources`, `Console`, and
the proofs listed above. Left, in order of importance:

1. A proof that `Console` is a part of `CommandBus`: its publication and
   delivery are a summary, and a refinement would make `EditAppliedOnce` a
   theorem about the queue itself.
2. The steps of liveness that are safety: that a message which is not settled is
   always deliverable again, and that a row which is not sent is always in the
   next scans unless they are `Crowded`.
3. Money in the other direction: what `Money` reads, `Decimal` writes, up to
   leading zeros.
