# PixelBeetle in TLA+

PixelBeetle is a shared pixel canvas. Players lock a cell, then paint it, and
the only durable state is a TigerBeetle ledger: a cell is an account that holds
one unit, a claim is a pending transfer that reserves it for three seconds, a
paint posts the transfer and gives the unit back in the same linked batch.
Everything else a server keeps (lock table, claim registry, bitmap, watermark,
history checkpoints) is derived from the ledger and can be rebuilt.

This directory holds TLA+ models of that program, TLC configurations that check
them on small instances, and TLAPS proofs of what holds for every instance.

    tlc -workers 2 -config claims_concurrent.cfg MCClaimService
    tlapm ClaimServiceProofs.tla

## 1. Inventory

| Part (under `src/`) | State it keeps | Operations | What is hard | What makes it correct |
|---|---|---|---|---|
| Ledger client, `internal/tbclient` | none; the database's accounts and transfers | `NewClaim`, `Submit`, `BuildConfirm`, `BuildVoid`, `SubmitBatch`, `EnsureAccounts`, `EnsureAllPixels`, `Fund`, `QueryCanvasTransfers` | status codes that mean different things alone and in a linked batch; errors of requests that were carried out; timeouts | one unit per cell always, one reservation per cell |
| Claim service, `internal/game/game.go` | `locks`, `claims`, `byPlayer`, `bmp` | `Claim`, `Confirm`, `Cancel`, `ReapExpired` | every operation drops `s.mu` around a database request and around its broadcasts; restore after failure; supersession; expiry | only the holder paints, nothing is held or locked for ever, a player has one active claim |
| Canvas cache, `game.go`, `warm.go` | `bmp`, `warmTs` | `WarmCache`, `warmFromSnapshot`, `ApplyEvent`, second half of `Confirm` | paints arrive by two ways, in another order than posted; redelivery; crash | the bitmap is the fold of the ledger up to the watermark |
| Snapshot, `persist.go`, `cmd/server` | a file | `SaveSnapshot`, `loadSnapshotFile`, ticker | crash between post, apply and save | snapshot and delta give what a full replay gives |
| CDC consumer, `internal/replay` | a queue per connection, `seen` | `Run`, `runOnce`, `processBody` | loss before the queue is bound, redelivery, republication | every event is applied once, no cell goes back |
| History, `anchors.go`, `FrameAt` | checkpoint list, pool, evicted index | `syncTo`, `fillTo`, `evict`, `checkpoint`, `FrameAt` | boundaries against late paints, retention caps | a frame is the fold up to its time |
| Anchor sidecar, `persist.go` | append-only file, blob index | `writeAnchorBlob`, `readAnchorBlobLocked`, `scanAnchorSidecar` | torn and failed appends, reuse records | a scan recovers what was appended |
| SSE hub, `internal/hub` | subscribers and their channels | `ServeSSE`, `run`, `broadcast` | drop for slow clients, coalescing, snapshot against events | a screen converges to the service's state |
| Browser client, `app.js` | `liveBmp`, `lockSet`, `currentClaimId`, timers, cookie | `pb.render`, `claim`, `resolveClaim`, `clearHud` | order within a flush, snapshot after reconnect; answers, events and timers that cross | what is armed can be painted, boxes are the locks, nothing stays armed |
| Timelapse page, `history.js` | `seekSeq`, the throttle's timer | slider moves, `seek` | answers out of order, skipped stops | the canvas shows the slider's position |
| HTTP server, `internal/web` | cookie key, bot reports | routes, `playerFromCookie` | two first requests are two players | one browser is one player; what handlers refuse never reaches the ledger |
| Load bot, `internal/bot/bot.go` | counters, a claim per agent | pacer, agents | claims time out, answers are lost, the context ends anywhere | counts are the ledger's; nothing is left reserved |
| Paint bot, `internal/bot/paint.go` | job queue, counters | `paintRun` | workers, retries, termination | each placement painted or given up once; the run ends |
| Shapes, blueprints, images, preview | none | `LoadPaint`, `FormatTextArt`, `RenderPreview`, offsets | boundaries of integer arithmetic, layers, negative coordinates | equal to their geometric definitions; what is shown is what is painted |
| Codec: ids, codes, decoder, bitmap | none | `PixelID`, `NewClaim`, `IsPostedClaim`, `ParseMessage` | one code for a colour and a refund; three ways to a byte | all ways agree |
| Provisioning: `EnsureAllPixels`, `ensurePixel`, `Fund` | `created`, `allCreated`, `sysOnce` | sweep at boot, first touch, the bots' own | two first claims of one cell, an error half way, deaths | exactly one unit a cell |
| Metrics, scripts, deployment | counters | – | – | not of interest here |

Interactions: HTTP handlers call the claim service in goroutines of their own;
the service calls the database and the hub; the consumer and the warm-up call
into the cache; the snapshot ticker and the reaper run beside them, all under
`s.mu` for their sections and outside it for requests, files and broadcasts.
Bots in direct mode and other servers share nothing with a server but the
database and its CDC stream.

The hazards this gives rise to are listed line by line in `PROJECT.json`, each
with the properties that watch it, or the reason why none does.

## 2. Plan

Written (in this order), the most important behaviour first:

1. `Ledger` – what the database does with claims.
2. `ClaimService` – the service above it, `LedgerProofs`, `ClaimServiceProofs`.
3. `PixelCells` – the abstract promise, refinement checked and proved (`ClaimServiceProofs`).
4. `CanvasCache` – cache, watermark, snapshot and stream.
5. `PaintBot` – the paint mode's queue, workers and retries.
6. `HubViewer` – hub, channel, flush, stream and `pb.render`.
7. `History` – the checkpoint grid and `FrameAt`, against a fold of the posts.
8. `Sidecar` – the append-only file of evicted checkpoints, over several boots;
   `Timeline` puts the two together.
9. `Provision` – accounts and units for a new database; it implements `Ledger`.
10. `PaintPage`, `Timelapse` – the two pages of the web client.
11. `LoadBot` – the load mode, over `Ledger`.
12. `Codec`, `Drawing`, `Conversions` – the pure parts, against definitions of
    their own.
13. `Clients` – the programs on the user's side: 5, 10, 11 and 12.

Proofs, beside those of 2 and 3:

14. `ClaimServiceProofs` – the claim service between requests, one request at a time.
15. `ProvisionProofs` – `ReadyIsFunded` and the step simulation of `Ledger` for
    any grid, batch size and number of requests. It discharges the initial
    state that `Ledger` and all above it start from.
16. `CanvasCacheProofs` – the watermark, the boot and the order of a cell's posts.
17. `HubViewerProofs` – `ScreenIsServer` for any cells, requests and channel size.
18. `ClientProofs` – the invariants of the two pages and of the two modes of the bot,
    and of the composition.
19. `TimelineProofs` – `GridIsWhole` from lemmas on `Insert` and `Evict`, then
    `FramesAreTrue`; the scan of the sidecar file and `FileIsTrue`; then both halves
    together.
20. `ConversionProofs` – what the rasterisers' loops draw, text art both ways, the
    image scaler, the preview and the codec.

How the modules hang together:

    PixelCells <-implements- ClaimService -> Ledger <-implements- Provision
                                              ^
                                           LoadBot
    Clients  = PaintPage, Timelapse, LoadBot, PaintBot <- Conversions -> Drawing -> Codec
    Timeline = History, Sidecar
    CanvasCache, HubViewer

`CanvasCache`, `HubViewer` and `History` meet the others at what each takes from
the ledger or the service: a sequence of posts, or a sequence of events.

## 3. Modules

### Ledger

The database as the server uses it. `meta` is what `NewClaim` put into a
transfer, `status` the life of a pending transfer, `acct` the balances of a
cell's account, `standing` the claim posted last on a cell, which is what a fold
of the transfer history shows. `CreatePending`, `PostAndRefund` and
`VoidPending` are the three kinds of batch the client submits; `Timeout` and
`Release` are the database's own: a pending past its timeout is first
`"overdue"` (answered `expired`, still reserving) and then released. The guard
`HasUnit` is `debits_must_not_exceed_credits`. `ConfirmAnswer` and `VoidAnswer`
are what `SubmitBatch` makes of the statuses, alone and in a linked batch. The
database is not part of the repository; its part is written from the statuses
the client tells apart and from `docs/tigerbeetle-usage.md`.

### ClaimService

The variables have the names of the code. A lock is represented by the claim
whose registration set it: its player is the claim's, and `expired` holds the
claims whose lock's expiry has passed. `pc` and `frame` are the goroutine and
its local variables (`old`, `oldLock` as `saved`).

| Code | Actions |
|---|---|
| `Claim` 101–129, section under `s.mu` | `ClaimBegin` (with `Superseded`, `LocksWithout`, `ByPlayerWithout`) |
| `Claim` 133, the request | `ClaimSubmit`: created, `exceeds_credits`, or a client error whether or not it was carried out |
| `Claim` 134–156 | `ClaimFailed` |
| `Claim` 161–175 | `ClaimVoidOld`, `ClaimUnlockOld` |
| `Claim` 178 | `ClaimLockCast` |
| `resolve`, `Confirm` | `ConfirmBegin`, `ConfirmSubmit`, `ConfirmApply`, `ConfirmUnlockCast`, `ConfirmPaintCast` |
| `resolve`, `Cancel` | `CancelBegin`, `CancelSubmit`, `CancelApply`, `CancelCast` |
| `ReapExpired` | `ReapExpired`, `ReapCast` |
| process, bots, other servers | `Restart`, `DirectClaim`, `DirectResolve` |

Atomicity is the code's: one step per section under `s.mu`, per database request
and per broadcast. `granted` are ids that `Claim` has returned: only those can
come back in a confirm or a cancel. `boxes` and `screen` are a client that
receives every event in order, which is the best case of the hub.

### PixelCells

The abstract specification: a cell is free or held by one claim; a held cell is
painted by exactly that claim or set free; a claim that is over never holds or
paints again; under fairness no cell is held for ever. `ClaimService`
implements it with `holder` being the claim whose pending reserves the cell,
`painter` the ledger's standing claim and `over` the resolved claims.

### CanvasCache

One server's bitmap and watermark. The `i`-th post of the ledger has timestamp
`i`; a byte of the bitmap is represented by the post it came from, and bytes are
compared by colour as the code compares them. `WarmBegin`, `WarmPage`, `WarmEnd`
are `WarmCache`/`warmFromSnapshot` around `foldFrom`; posts go on between the
pages. `SaveFirst`, `MarkFirst`, `SaveTick` are `main`'s baseline save and ticker.
`ConfirmPost` and `ConfirmApply` are the two halves of `Confirm`; `ConfirmPost` may
also end it, when the client reports an error although the ledger posted
(`game.go:203-212`), and then only the event of that post can bring the paint. `Publish` and
`Rewind` are the CDC job, `Bind` and `Drop` the consumer's connection, `Deliver`
is `processBody` with `ApplyEvent`. `lost` does not influence any action: it
records posts that were in no queue of the server when its bitmap needed them,
and posts of failed confirms (`failed`) once a later `ConfirmApply` has moved the
watermark over them: their events are then dropped as redeliveries, though the
comment at `game.go:233` says that only applied events are (section 4). The properties exempt the cells of lost posts, from that
post on; a failed confirm that is not passed exempts nothing, and its paint must
come by its event or with the next boot. The cell, and not
the post alone: a lost post may still come, when the CDC job publishes it again, and
then paint over a newer one that `ApplyEvent` had passed over for being of the colour
the cell had (run `redelivery_regresses`).

`Roles` says who posts. A server that alone paints, and one that only follows,
keep the properties; with two overlapping confirms they fail, as `restart_forgets`
shows, and with both at once, since a confirm then moves the watermark past events
of others that are still in the queue.

### PaintBot

`paintRun`, started by `Begin` with the placements that a compiled drawing came
to. `jobs` is the buffered channel, `held` the job each worker is at, `backoff`
the retry goroutines, `done` the closed `doneCh`. A claim with its confirm is one
attempt, `Confirmed` or `Failed`; a failed one may have painted all the same,
when the answer was lost. `TakeJob` and `Leave` are the cases of the worker's
`select`, `PushBack` and `GiveIn` those of the retry goroutine's. That `PushBack`
always finds room, as the code assumes, follows from `Accounted`.

### HubViewer

The service side is one step per change under `s.mu` together with the events
it then owes (`outbox`), broadcast one by one by `Broadcast`. A `Claim` has more to
it: until its first broadcast the ledger may refuse it, and `undo` remembers what that
would put back. `SupersedeClaim` vacates the player's old cell and owes its unlock and
the new lock, `RefusedClaim` restores the old lock and owes nothing (`game.go:133-156`),
`VoidFails` leaves out the unlock (169-171), and `ReapExpired` owes an unlock for each
of the locks it found expired. Whose lock a lock is, is left open: `Vacated` allows for
one that is another player's by now. `Connect`,
`SendSnapshot`, `Receive`, `Flush`, `Break` are `ServeSSE` and `run`; `wire` is
the event stream, which keeps order; `Render` is `pb.render`. It applies a
snapshot's bitmap only when its string is another than the last one's, and its
lock list unless both are empty. `missed`, `astray`, `unsaid`, `crossed` and `kept`
only observe; with `expired` they name the ways in which a screen may be wrong for
long, and the properties except no other:

- an event was dropped because the channel was full (`hub.go:204`);
- two requests broadcast changes of one cell in either order, or a cell was
  unlocked for viewers while another player's lock stood (`game.go:178`, `243`);
- a refused claim took its lock away and put the one it had superseded back without
  a broadcast, after a snapshot that showed something else (`game.go:135`, `143`);
- the void of a superseded claim failed and its cell's unlock was never broadcast
  (`game.go:170`), though the comment above says the UI is consistent (section 4);
- a lock has expired and is not reaped yet: a snapshot leaves it out, a screen that
  was there before still draws it;
- a cell was unlocked and locked again within one flush (`hub.go:123`);
- the snapshot after a reconnect equals the one applied last, and is passed over
  although deltas have changed the screen since (`app.js:363`). The comment at
  `hub.go:101` expects the client to be correct after any snapshot.

### History

`ag` is the grid: `list`, `pool`, `next` (`nextBoundary`) and `evicted`. `SyncTo`,
`FillTo`, `Insert` and `Evict` are the functions of those names, with `Overflow`
for how many entries `evict` drops: under the byte cap its loop compares a pool
size that does not change in the loop, so it drops all entries but the newest,
though the comment on it (`anchors.go:136`) means one per insert.
`Post` is the first half of `Confirm`: `confirming` is the post it will apply, unless
the client reports an error. Such a post waits for its event, unless the next
`ConfirmApply` passes it, which `skipped` observes. `FrameBegin` is the
part of `FrameAt` under `s.mu`, `FrameEnd` the fold. `skewed` observes pairs of a
checkpoint's time and a post before it that its bitmap lacks: `Confirm`
stamps with the wall clock before it paints, a failed confirm may not be painted at
all, and a warm-up fills the grid up to now with what its fold had seen.
`FrameIsFold` compares a frame with the fold of all posts up to its time but those: no
frame is exempt, only the posts that its checkpoint is known to lack. `anchors.go:32`
promises that there are none, which the code does not keep (section 4).
`ReplySent` is the
handler's end: a reply stands until then, so each reply is compared with the
posts as they are at that moment.

### Sidecar

The file is a sequence of units, so that a record can be cut anywhere. `Persist`,
`WriteFails` and `DieWriting` are the outcomes of `writeAnchorBlob`, `Scan` is
`scanAnchorSidecar` after the delta fold (which may already have evicted),
`Reset` is `resetAnchorSidecar` with its two ways to fail. What follows a torn
record in the file is lost to later scans: a scan stops there but does not cut the
file. So `SafeIsRecovered` speaks of what was persisted before the first damage, and
`NeverAnotherCanvas` of everything.

`Timeline` checks the two together. They meet in one place, a checkpoint that is
evicted and later read back, and `History` takes from it only what `FileIsTrue`
establishes: a read gives that checkpoint's own bitmap or fails. So a behaviour
of `Timeline` looks at the grid or at the file.

### Provision

A database without accounts, and all that fills it: the server at boot (`SweepPool`,
`SweepAccounts`, `SweepFunds`, one batch a step; `-eager=false` skips them), a claim's
first touch (`EnsureSystemPool`, `CheckCreated`, `CreateCell`, `FundCell`,
`MarkCreated`, one request to the database or one section under `s.mu` a step), and a
bot in direct mode (the same sweep in load mode, `PaintAccounts` and `PaintFund` for a
drawing). Every request may fail before or after it was carried out; an error ends a
boot or a bot, and is only logged on the way of a claim. Processes die anywhere and
start again.

`Ready` maps this state to `Ledger`: a cell that is not funded yet counts as
holding the unit it will be given. `ReadyLedger` says that every step is then a
step of `LedgerMove` or a stutter, and so that nothing gives a cell a second unit
or takes a claim on a cell without one. `TooMany` is a limit the code does not
look at: `paintRun` creates the pool and all accounts of a drawing in one request,
so a drawing of more than 8189 cells fails at `paint.go:95`, where the sweep goes
in batches.

### PaintPage

One browser on the canvas page, with the server and one rival player. `claim`
is the state a claim of this browser is in at the server, `net` the requests under
way with their answers, `stream` the lock events, taken one at a time (what is lost
when several fall into one flush is `HubViewer`'s subject). `SendClaim` is a click
or a new colour for the armed cell, `ClickArmed` and `Escape` are `resolveClaim`,
`ClaimGranted` is the part of `claim` after its answer. `Reply` includes
`playerFromCookie`: a request without a cookie is a new player's. `lastArmed`,
`astray` and `late` only observe.

The code leaves open: an unlock that belongs to an older claim on a cell disarms
a newer claim there; a box drawn by an answer that came after the claim's end
stays until the cell is locked again or the stream reconnects; two first
requests of one browser are two players, and the first one's claim cannot be
resolved. `late` and the conditions of `ArmedIsStanding` name these.

### Timelapse

`throttle` is `pending`, `hot` and `trailing`; `Cools` lets its 120 ms pass and
`TrailingFires` is its timer, which a busy browser may run later. `queries` are
answered in any order. A frame of another grid size, after a server restarted
with other dimensions, is not drawn, but its label is set and the message about
it is erased by the next line (`history.js:45`); `resized` marks that.

### LoadBot

`Run` in direct mode. The pacer's ramp and rate only choose when it offers a
token, so here it may at any time. An agent is where its loop is; `over` is the
context, which ends an agent at its `select`s only. Ids are taken in any fixed
order. Two corners of the flags show in the model or beside it: `-hotspot 0,0` is
the same as none (`Targets`), and `-think-max` not above `-think-min` makes
`rng.Int63n` panic (`bot.go:279`), which is assumed away.

### Codec, Drawing, Conversions

Operators only, and one behaviour per input. `Codec` has ids as pairs of 64-bit
words and transfers as records of accounts, code and flags; it is written with
the server's three ways from a transfer to a byte, which `ColoursAgree` compares.
`Service.Claim` itself does not look at the colour: above 15 the ledger would clamp
it and the bitmap wrap it. `handleClaim` is the only guard, and `Accepts` says so.

`Drawing` follows the rasterisers' loops step by step (`CircleStep`, `LineStep`)
and gives sets of points; a loop is a recursive function, and a layer a function from
points to colours, laid over the one below (`Overlay`) as the code writes into a map.
`ConversionsAssumption` gives the inputs their types, which are what JSON, flags and
the parsers of files let through. The properties do not repeat the loops: `IsLine`
asks for one point in each column or row of the longer extent, within half a cell of
the segment, `IsCircle` for the points nearest to the circle, `IsOutline` for what has
a neighbour outside, `ImageIsWhole` for a partition of the source.

There are two grids: `ServerGrid`, which is the server's and that of the bot's
direct mode, and the one of the bot's `-grid` flag, which is part of each input
(`grid`). `Compile` is `LoadPaint` and what `paintRun` makes of it, so it scales an
image to the flag's grid, places by it and refuses by it (`fits`, `off`). `Show` is
`-inspect` and `-preview`: `Preview` takes the drawing as compiled and then the
server's grid, places it anew and refuses by that (`shows`, `at`). So
`PreviewIsPainting` says that the preview is the server's canvas after a run that is
placed by the server's grid, and that a run whose flag has this grid is placed and
refused alike. `ImageIsWhole` says of every box, mixed ones included, whether its
cell is left out: exactly where the mean alpha is below 26 of 255.

`BlueprintIsFaithful` leaves out what is at a negative coordinate, since the code does;
this and what else the comments promise of drawings is in section 4. Noted beside
these: `renderText` advances by bytes, so a letter of two bytes leaves a gap.

### Clients

The two pages, the two modes of the bot and the conversions share nothing but the
server, so a behaviour of `Clients` looks at one of them. Only in paint mode do two
modules work together: a drawing is compiled, and what it came to is queued
(`Start`).

### Mutated forms

Definitions commented "Mutated form" are wrong on purpose and no specification
uses them. `PROJECT.json` pairs each property with one: put in the place of the
definition it distorts, it must break that property. This guards against
properties that could not fail.

## 4. Runs

Deadlock is not checked in any run (`CHECK_DEADLOCK FALSE`): ids, posts, crashes
and errors are bounded, so every instance stops when they are used up.

Passing:

| Run | Instance | Shows |
|---|---|---|
| `claims_sequential` | 1 request, 2 players and a direct bot, 2 cells, 3 claims, 1 restart | `TypeOK`; between requests a player has at most one active claim, an unexpired lock belongs to a recorded claim, and bitmap, screen and ledger agree |
| `claims_concurrent` | 2 requests, 2 players, 2 cells, 2 claims, 1 client error, 1 restart, symmetry | one unit per cell, exclusivity, registry consistency, only posted claims paint, and the refinement of `PixelCells` |
| `claims_liveness` | 2 requests, 1 player, 2 cells, 2 claims | every lock is dropped and every held cell comes free or is painted |
| `canvas_cache` | writer, whose confirms may fail, or follower, 2 cells, 2 colours, 2 posts, 2 crashes, 1 lost connection, 1 republication, pages of 1, fairness | `TypeOK`, what the watermark means, no cell goes back, stale only where a post was lost, a boot restores the canvas, every post arrives |
| `hub_viewer` | 1 cell in any state at page load, 2 colours, 2 requests, channel of 2, 2 changes, 1 broken stream | at rest a screen shows the canvas and the locks, and a paint gets to it, outside the cases above |
| `timeline` | grid: writer, whose confirms may fail, or follower, 1 cell, 2 colours, 3 posts, 8 ms with minutes of 2 ms, 2 anchors, pool of 2, 2 transfers to a fold, 1 restart; file: 3 states of 2 units, 3 evictions, 3 boots, 2 faults | frames are folds of the posts but for what their checkpoint lacks, the grid is dense, within its caps, and its pool complete; undamaged records are recovered at every boot and damage shows as an error |
| `provision` | 3 cells, batches of 2, 2 requests, a server and a bot with 2 drawings or in load mode, 1 claim, 1 error, 1 death | one unit a cell, and the ready cells implement `Ledger`; a free cell that a request provisioned without an error is granted |
| `clients` | page: 2 cells, 2 claims, 2 acts, 2 requests at once, 1 fault, 1 rival; timelapse: 3 positions, 2 moves; load: 2 agents, 2 cells, 2 claims, 1 mishap; paint: drawings of up to 3 cells, 2 workers, 1 retry, cancellation; conversions: about 3700 inputs for a server of 16 by 12 and bots with this or another grid | see the properties' comments in `PaintPage`, `Timelapse`, `LoadBot`, `PaintBot` and `Conversions`; `RunsEnd` in `Clients` |

Times on two cores: `clients` (236 thousand states) three minutes, `provision` (1.5
million) two and a half, `canvas_cache` (547 thousand) two, `timeline` (1.9
million) two, `hub_viewer` (420 thousand) and `claims_liveness` one to one and a half,
the others less.

The bounds are small and enough for the cases that matter: two requests and two claims
give every race of two sections of the code, three claims one supersession beside a
rival's claim; two posts with pages of one give two full pages, an empty one and a post
between them, two posts on a cell or one on each of two, where one moves the watermark
past the other; the second crash falls on a server that was restored from a snapshot.
Lost connections and republications can fall anywhere, in any order. `canvas_cache` is
kept at two posts because it checks liveness too: what it checks of safety is proved for
any number of posts (section 6), and that covers what takes more of them, like the
pattern A-B-A on one cell, which defeats a comparison by colour, or a lost post that
comes back late. In `hub_viewer` the page may have been loaded at any canvas, so two
changes give every A-B-A on a cell, and two events fill the channel. `MCHubViewer` leaves
out what another behaviour shows under another name: of two colours alike the
page is loaded with the first, and of two idle requests it is always the same one that
begins the next operation. Its fairness is weaker than the specification's, see section 5. A claim that
supersedes one on another cell needs a second cell, which takes too long together with
liveness; what it does to the boxes of both is in the proof of `ScreenIsServer`, for any
number of cells. In `timeline` eight
milliseconds hold four boundaries, which is what an eviction of a shared bitmap
needs, and with the blank canvas the posts make three bitmaps, one
more than the pool holds. In `provision` three cells make a full and a short batch, and a drawing of three is too large for one
request. In `clients` two claims can cross in every way, one of them with a lost answer
or a broken stream; the inputs of the conversions are all lines in a square of 6,
circles up to a radius of 12 that cross the edges, rectangles of every size up to 4, all
images of 3 by 2 with three kinds of pixels, and every colour at the borders of its
range.

The three invariants of `claims_sequential` about the state between requests are
checked, and proved, with one request at a time only. With two overlapping requests of one
player they fail, as `two_active_claims` shows for the first. `CanvasIsLedger` is without
client errors there: what those do to the bitmap is `CanvasCache`'s subject. The two
properties of `claims_liveness` have no errors and no restart in their instance either:
what those may do to a cell is checked and proved as safety, with `CellsImplemented`.

Violations, each a statement of the code's own comments or docs that the code
does not keep:

| Run | What it finds |
|---|---|
| `own_cell_reclaim` | re-claiming one's own cell is refused: the old reservation is voided only after the new one was submitted (`game.go:133`, `162`), while `game.go:92` and `app.js:92` promise the opposite |
| `two_active_claims` | a failing `Claim` restores the claim it superseded although the player has registered another meanwhile (`game.go:141`) |
| `restart_forgets` | two overlapping confirms, a snapshot between them and a crash: the restarted server never shows one of the two paints, since the watermark was moved to a wall clock (`game.go:235`) |
| `redelivery_regresses` | a paint is lost before the queue is bound; the next on its cell has the colour still shown, so `ApplyEvent` returns early and leaves the watermark where it was (`game.go:431`). When the CDC job publishes both again, the older one is painted over and the newer one is dropped as a duplicate (`replay.go:165`): the server was given every paint and shows an old one, which `live_test.go:420` and `game.go:408` exclude |

The same watermark makes `ApplyEvent` drop events that the server never applied when
other writers post too. That is why `canvas_cache` keeps the two roles apart.

Other places where the code does not do what a comment or the docs say. The models do
what the code does, and the properties except it or charge it where it happens, in
words of their own:

- A confirm that was posted and answered with an error is not painted; the next
  confirm moves the watermark past it and its event is dropped (`game.go:235`, `419`).
  `game.go:233`: 'ApplyEvent below only drops CDC redeliveries of events the cache
  already applied anyway'. In `CanvasCache` such a post becomes `lost` at that step and
  not before, in `History` `skipped`.
- When the void of a superseded claim fails, the box of the old cell stays on the
  screens: its lock has left the table, so the reaper does not see it either
  (`game.go:170`). `game.go:160`: 'the UI is already consistent'. In `HubViewer` the cell
  is then `unsaid`, until the next snapshot.
- A confirm that posts before a minute and paints after it stamps a checkpoint that
  lacks its paint, and no frame from that checkpoint shows it (`game.go:226`).
  `anchors.go:32`: 'exactly as it stood after every event with Timestamp < TsMs*1e6';
  `game.go:221`: 'it already contains the paint in its bitmap'. `FramesAreTrue` charges
  each checkpoint with exactly the posts that were not in the bitmap when it was stamped.
- Over the byte cap `evict` drops all checkpoints but one (`anchors.go:138`). The comment
  above it: 'keep evicting one per insert'.
- A circle over the left or upper edge is painted without the points there:
  `setToScanline` and `compose` start at 0 (`shapes.go:195`, `blueprint.go:135`), and
  `ValidateBounds` does not look there. `blueprint.go:199`: 'an authoring error, not
  something to clip silently'. `BlueprintIsFaithful` excepts negative coordinates and
  nothing else.
- An opaque pixel among ten or more clear ones is left out (`image.go:131`).
  `image.go:99`: '1px features can't vanish'. `ImageIsWhole` says where.
- With another grid in the bot's flag than the server's, a run is placed, or refused,
  otherwise than the preview shows it (`preview.go:51`, `paint.go:41`). `preview.go:24`:
  'so the preview never diverges from what painting will do'. The flag's help asks for
  the server's size, but nothing compares the two.
- What will be painted is shown in small letters, as what is there already
  (`preview.go:85`). `preview.go:16`, line 72 and the README promise capitals.

## 5. Fairness

`ClaimService`: a request in progress goes on (the Go scheduler runs it, the
database answers or the client reports an error), the reaper's ticker fires, the
reaper's broadcasts are made, locks reach their expiry, and the database times
out and releases pendings. Players, bots, errors and restarts owe nothing.

`CanvasCache`: a warm-up once begun goes on, a request that has posted applies,
the consumer reconnects (`Run` retries for ever) and the broker takes it back,
the CDC job publishes. Nothing starts a dead process again, and nobody has to
post. Fairness is weak in each case: each of these actions stays enabled until
it is taken.

`HubViewer`: broadcasts are made, the flusher and its ticker run, the view connects
again and renders what arrives. The run assumes less: that while one of these can go on,
one of them does (`MCSpec`). Each stays possible until it is taken or the stream breaks,
so `Fairness` implies it, and with bounded changes and breaks it is enough.

`Clients`: one weak fairness condition for each program, that while anything can go on,
something does. `PaintPage`: requests are answered, events delivered, timers fire and
windows pass; the user, the reaper and the rival owe nothing, and a lost answer or a
broken stream is not counted on. `LoadBot`: the goroutines run, requests are answered or
fail, thinking ends, the database times pendings out. `PaintBot`: workers run, attempts
are answered or time out (`http.Client.Timeout`), backoffs end. So a worker that finds
both a job and the end of the run need not take either one. `History`, `Sidecar`,
`Provision`, `Timelapse` and `Conversions` have safety properties only.

## 6. Proofs

| Module | Theorems | Under |
|---|---|---|
| `LedgerProofs`, `ClaimServiceProofs` | `Invariance`, `TypeCorrect`, `UnitsConserved`, `CellsExclusive`, `RecordedRegistered`, `OnlyPostedPaints` | – |
| `ClaimServiceProofs` | `Refinement`: the service implements `PixelCells` | – |
| `ClaimServiceProofs` | `OneActive`, `LocksHaveClaims`; `CanvasTrue` | `NoOverlap`; for `CanvasTrue` also `MaxErrors = 0` |
| `ProvisionProofs` | `Invariance`, `TypeCorrect`, `ReadyFunded`, `FreeCellGranted`; `ReadyRefinement`: provisioning implements `Ledger` | – |
| `HubViewerProofs` | `Invariance`, `TypeCorrect`, `ScreenTrue` | – |
| `ClientProofs` | `PageArmed`, `PageBoxes`; `SeekFrame`; `PaintAccounted`, `PaintComplete`; `LoadAccounted`, `LoadKeepsLedger`; `ClientsInvariance`, `TypeCorrect`, `ClientsSafe`, `ConvertsFaithfully` | – |
| `ConversionProofs` | `LineIsExact`, `CircleIsExact`, `RectIsExact`, `TextIsExact`, `ReadsBack`; `ColoursTrue`, `ShapesTrue`, `BlueprintTrue`, `PreviewTrue` | – |
| `TimelineProofs` | `HistoryInvariance`, `GridWhole` (with the type invariant), `FramesTrue`; `SidecarInvariance`, `FileTrue`; `TimelineInvariance`, `TypeCorrect`, `HistoryTrue` | – |
| `CanvasCacheProofs` | `TypeCorrect`; `Invariance`, `BitmapTrue`, `NeverBack`, `BootTrue` | – for types; `NeverBoth` and `NoOverlap` for the others |

Assumptions on the constants: only `NoneAssumption` (`None` is not a player, cell or
claim) and the modules' own, `ServiceAssumption`, `ProvisionAssumption`,
`CanvasAssumption`, `HistoryAssumption`, `SidecarAssumption`, `HubAssumption`,
`PageAssumption`, `SliderAssumption`, `LoadAssumption`, `PaintAssumption`,
`CodecAssumption`, `ConversionsAssumption` and `ClientsAssumption` (direct players are
players, bounds and sizes are numbers, page and batch sizes at least 1, no colour is the
empty byte, the modelled time reaches the first minute, there is a worker, the load bot
has finitely many claims to start, a word holds the grid's sides, requests and drawings
have their types). The sets may be infinite where the code does not count them, the
bounds any naturals, so a bound restricts no theorem.

Three hypotheses stand in the theorems that need them. `NoOverlap` says that at most
one request goroutine runs at a time; without it the statements are false, as
`two_active_claims` and `restart_forgets` show. `MaxErrors = 0` excludes client
errors: a paint that was posted but answered with an error is not broadcast by its
confirm. In `CanvasCache`, `HubViewer` and `History` errors are part of the model and
the theorems hold with them.
`NeverBoth` excludes a server that paints beside other writers, whose watermark
passes events still in its queue. The runs `claims_sequential` and `canvas_cache`
are instances of these hypotheses, so they are not vacuous.
The inductive invariants were checked by TLC on the runs' instances before they were
proved.

`LedgerProofs` proves the ledger's part of the invariant for each of its
operations. `LedgerInv` is `LedgerTypeOK` with `Exclusive` and `OneUnit`, which
are not inductive one without the other: that a cell with a unit to spare has no
reservation follows from the balances, and that the balances stay exact when a
pending is released follows from its being the only one. It also says that a
transfer the database knows has been built, and that the standing claim of a
cell is posted, there.

`ClaimServiceProofs` proves `Spec => []Inv`, with `Inv` being `LedgerInv`,
`TypeOK`, `FramesAreBuilt` and `RegisteredAreBuilt` (a claim a goroutine or
a table refers to has been built, so its cell and player mean something),
`RecordedIsRegistered` and `PaintsArePosted`. From it follow, for every
instance: `TypeCorrect`, `UnitsConserved`, `CellsExclusive`,
`RecordedRegistered`, `OnlyPostedPaints`. Each kind of step is treated once:
`StepsMoveLedger` says that any step of the service leaves the ledger or makes
one of its operations, so the ledger's half is cited from `LedgerProofs`.

Its second part proves that `Spec` implements `PixelCells!Spec`: the initial state
maps to the initial state, and each ledger operation to `Hold`, `Paint`,
`GiveUp` or a stutter.

The last part of `ClaimServiceProofs` extends that invariant for one request at a time.
`SeqInv` says what the one goroutine's place and frame mean for the tables: registered
claims are recorded or are the request's own, a lock is on its claim's cell and its
claim is registered, a superseded claim is out of the tables until it is restored.
`CanvasInv` adds what bitmap and screen lack of the ledger at each place in `Confirm`,
which is nothing when no request is under way.

`ProvisionProofs` starts from the database: units only come from `Fund`, whose second
transfer for a cell is refused, so a cell's account is worth one unit from the first
one on. `SweepIsSo`, `PaintIsSo` and `TouchIsSo` say what each program may take for
granted at each of its steps (accounts up to here exist, units up to there are given,
whatever failed before), and `created` and `allCreated` are then right. The refinement
cites the step lemmas of `LedgerProofs` for the instance with `acct` replaced by
`ReadyAcct`, and `FreeCellGranted` needs the invariant on both sides of a step.

`CanvasCacheProofs` has two invariants. `TypeInv` is `TypeOK` and that a fold's next
page starts at 1 or later and a snapshot's watermark is not negative; it holds whoever
posts. `Inv` then says of each of the three bitmaps, the server's, the fold's and the
file's, that it is `Sound` (a byte stands for a post on its own cell, not above the
mark) and `Current` (up to the mark no post of another colour is missing, where
nothing was lost). `WatermarkMeans` alone is not inductive: an event that is applied
moves the mark over every post before it, on all cells, so these must not be missing
either. For a lone writer `WriterIsAlone` says that what is above the mark is the
one post it has yet to apply, failed, or settled: the cell has its colour, or lost a
post. `StreamIsOrdered` says of either role that a post above the mark, so a failed one
too, is still to come in the queue, before anything newer and for the first time on
this connection, or settled. The same-colour return in `ApplyEvent`, republication,
duplicates and dropped queues each preserve this for a reason of its own, which is the
bulk of the proof. From `Inv` follow the four properties; that a restarted server folds
from the right place is `PageIsCurrent` with `PageIs`.

`HubViewerProofs` follows two aspects of every cell, its paint and its lock box, since
they are broadcast apart. What the server says of an aspect passes through five
stages: the events a request owes (`outbox`), the subscriber's channel, the batch of
the next flush, the wire, the screen. `Inv` has one conjunct for each: where no later
word is under way at an earlier stage, the last word at this one is what the server
holds. `ScreenIsServer` is the last conjunct with every stage empty. Each operation
that changes an aspect must therefore owe a word of it, or the cell is one of
`missed`, `astray`, `unsaid`, `crossed`, `kept` and `expired`; each stage must keep the order of the words
on one aspect, and where a flush joins several into one patch the last must win
(`LastOnIsLast`, `LastOnAppend`, `CollectedWord`). That adds and removes of a flush
lose their order is what `crossed` excuses, and only for boxes.

`ClientProofs` treats the four clients apart first. Each has a specification there, of
its own initial state and next-state relation, and without the bounds that a common
instance needs: `BotSpec` paints any finite set of placements. `Clients` looks at one
of them at a time and leaves the others as they are, so each of its steps is a step of
one of these, of the conversions, or the start of a run from a blueprint:
`ClientsInvariance` puts their invariants together, and the other three theorems about
`FairSpec` are read off it. What a compiled drawing hands to `paintRun` is a finite set
of placements because `ConvInv` says so, whatever the drawing.

- Paint page. That the newest grant is the one armed needs to know where all others
  are: ids are given out in order and a superseded claim has a later one (`InOrder`),
  a claim the page was not told of is in an answer under way (`Told`), a claim that is
  being painted or given up, or was, is not armed and not newer than what the page was
  told (`Spent`), and a page that was told anything has a cookie (`Known`). For the
  boxes, `BoxRight` says that the last event of a cell on the stream is what was
  announced of it, or if there is none that the box is right, or drawn `late`.
  The page's type invariant bounds the requests under way and the identities minted:
  every identity answers a first request, and every request is a click's
  (`NetBounded`), so there are never more players than clicks.
- Timelapse. `NewestCounts`: a query is still owed for the slider's position, or the
  newest one is under way for it, or what is shown is its answer.
- Paint bot. `OneJob` and `AttemptsCount` tie the jobs in the queue, with workers and
  in backoffs to the placements, `CountersAdd` ties the counters to both, and a job
  may be lost only after the context has ended.
- Load bot. The started claims are the sum of the counters and the agents at work, and
  ids never run out, since one is taken for each claim started (`IdsSuffice`). The
  ledger's half is `LedgerStep`, as for the claim service.

`TimelineProofs` first works on `HistoryIInv`. Its core is `Good`: the grid is whole,
and each checkpoint, in memory, evicted or taken by a frame under way, `Holds`: it is
the fold of the posts before it, but for those that `skewed` says it lacks. Beside it,
posts come in the order of time and none is from the future, and the bitmap is the fold
of what was applied, less the failed posts that a confirm has passed, and also of what
of it is not after `lastPaint` (`FrameNow` answers with the bitmap for that time). From
a checkpoint that holds, `FoldFrom` shows that folding the posts from its millisecond on
gives the frame: the posts of that millisecond are all folded, those before it are all
in the checkpoint or lacking there. `EvictKeeps`, `InsertKeeps`, `StampedKeeps` and `AdvanceKeeps` carry
the grid through the functions of `anchors.go`; that `evict` drops all but the newest
entry under the byte cap keeps a grid dense as well, and its pool exact. The loops of
`syncTo` and of the warm-up are recursive functions on a range of numbers; the library's
induction theorems cannot be used with these provers, so `Induction` (the least number
not in a set of numbers) and `Recursion` (such a function exists and obeys its equation)
are proved in the module.

The sidecar file comes next. `ScanOf(f)` is the scan of any file as a function of the
units passed, and `SidecarIInv` speaks of files through it. `Intact(f, n, safe)` says
that the first n units scan without a stop, that each blob found there is readable, and
that each safe checkpoint has an entry whose bitmap stands in the file. Before any
damage this holds of the whole file, and the process knows no blob that a scan of it
would not find, which is what makes a record of length 0 safe to write
(`ScanRecord`: one more record keeps it, with the blob it brings or the one it
reuses). After damage it holds of some first part, which no append can harm
(`ScanContinues`), so a scan at the next boot indexes at least that (`ScanGrows`).
`LastKnown` is the part that is easily missed: `lastAnchorHash` names a state the file
has, unless the process is up and a write was damaged. That damage never shows as
another canvas rests on `HeadsOffered`: whatever is torn, each header in the file is of
a checkpoint that was offered.

`Timeline` moves one half and leaves the other, so its invariant is both.

An earlier form of `WatermarkMeans`, which exempted only the lost post itself,
turned out not to be inductive in this proof, and TLC then found it false with four
posts; `redelivery_regresses` shows the behaviour, and the properties now exempt the
cell.

`ConversionProofs` proves about the pure parts what TLC checks on 3700 inputs, for
every grid, every size of a word and every input of the stated types. `Drawing` writes
each loop as a recursive function, so the module first shows that such a function
exists and obeys its equation (`Recursion`), and inducts over its steps with
`Induction`, which speaks of a set of numbers where the library's theorem wants an
operator. Sums over finite sets, which the community modules fold in an order that
`CHOOSE` picks, get the same treatment (`SumsExist`, `FoldIsSum`).

- Lines. `ErrorStep` bounds the error term after each step, and from it the walk is
  where the segment is, to half a cell (`OffTheSegment`); a walk that moves one cell a
  step along the longer extent ends in the right place and misses no column. A steep
  line is a flat one turned over its diagonal (`LineTurned`).
- Circles. Every state of the midpoint walk is the point of its row nearest to the arc
  (`ArcWalk`), a row has one (`OneOnArc`), and the walk ends where the octants meet; the
  eight reflections then give the points by their distances from the centre
  (`CircleMembers`).
- Texts. Columns are sums of character sizes, so they grow with the character, and
  glyphs of three columns never meet.
- Layers. The last shape over a point gives its colour, by induction over the shapes
  (`LayersAre`).
- Images. The spans of a scaled extent partition the source (`SpanOf`), none is empty,
  and a mean of equal values is that value (`MeanOfEquals`); that a box of one colour
  keeps it then needs that a colour of the palette is its own nearest (`NearestIs`). The
  alpha of any box is 255 for each of its opaque pixels (`SumOfChosen`, `AlphaCounts`),
  so a cell is kept exactly where `ImageIsWhole` says.
- Text art. The legend gives each colour a character of its own, so what `FormatTextArt`
  prints parses to the blueprint it came from.
- Codec. Ids pack and unpack, no two cells share an account, and of a claim's entries
  only the posted one paints, by each of the three ways.

`ConvInv` says that what was made is what its input comes to; the four properties
follow from the facts above.

Only model-checked: liveness (`LocksClear`, `CellsFairlyImplemented`, `PostsArrive`,
`PaintsShow`, `Disarms`, `RunsEnd`). Liveness and `ENABLED` are outside what the prover
supports.

## 7. Not modelled

Listed with reasons under `components` in `PROJECT.json`: metrics, scripts and
deployment have no state that any property could be about. In the modules that
exist: clocks (an expiry may fall at any moment; the server's and the database's
clock agree in `CanvasCache`, as `game.go` assumes); servers run with
`-warmup=false`; the checkpoints that `Confirm`, `ApplyEvent` and the warm-up also
advance are in `History`, which in turn takes loss and redelivery from
`CanvasCache`; in API mode, the bots' HTTP calls (their outcomes are those of the
direct mode); drawing on the canvas element and the look of the pages; the spelling
of numbers, colours and specs, JSON, hex and base64; the cookie's signature; the
dashboard's heartbeat; logging; and the byte layout of files and messages.
