# Coremon in TLA+

Coremon follows an Injective chain through the RPC of a CometBFT node, computes metrics of every
block and its transactions, and writes them to InfluxDB and StatsD. This directory holds TLA+
modules of its core, TLC configurations that model-check them, and TLAPS proofs. Paths below are
those of the repository, without the leading `src/`; `block_watcher.go`, `rfq*.go` and
`block_handler.go` are in `pkg/coremon`.

## The system

| Component | Code | State | Operations | What is hard | What makes it correct |
|---|---|---|---|---|---|
| Block getter | `block_watcher.go` 342-541, 636-646 | next height, backlog map, channel, condition variable | `getHeightToFetch`, `pullBlocks`, `announceBlocks`, `Close` | jobs in parallel, one sleeper on a condition variable, backlog limit, unsigned heights counting down | each height once, in order, none lost, no lost wakeup, bounded backlog, progress |
| Block fetch | `block_watcher.go` 543-634 | three channels, an error channel | three goroutines with ten attempts each | late errors against early reads, closing channels | a complete block or an error, no panic, termination |
| Block watcher | `block_watcher.go` 45-340 | kept block, `latestSyncedBlock`, `isClosing`, `isDone` | `StartWatching`, `handleNewBlockData`, `Close` | Close at any moment, random `select`, off-by-one starts in two directions | the handler sees adjacent pairs, each once, one at a time, at most one ends after Close |
| RFQ tracker | `rfq_points.go`, `rfq.go` 61-134 | block time cache, pending points | `ObserveBlocks`, `TxPoints`, `Flush` | points that wait for earlier blocks while the cache forgets later ones; the end of a backfill | one point per transaction, exact counts, none left behind |
| Block handlers, written points | `block_handler.go` 34-686, `rfq_handler.go` | nothing but the tracker | one call per pair of blocks | runs that overlap, crash, or lose batches; InfluxDB keeps one row per measurement, tags and time | counts over rows are exact, a run that lost nothing is complete |
| Last commit metrics | `block_handler.go` 695-753, 789-1016 | none | `lastCommitMetrics` and helpers | several computations over one set of signatures that treat nil votes and ties on their own | they agree with one another |
| RFQ transactions | `rfq.go` 136-613, `rfq_points.go` 108-319 | none | memo, message and error text functions, `TxPoints` | search through Go maps, forty patterns tried in order on nested texts, the least of several limits | a rerun writes the same rows, the inner reason wins, lateness is what the limits say |
| Arity counting | `events_arity.go`, `msg_arity.go` | none | JSON array lengths | none | - |
| System watcher | `sys_watcher.go` | timer | measure every 10s | the timer and the cancel ready at once, a part that fails | nothing begun after the cancel is reported, failures do not end the measuring |
| Pace reporter | `pace_logger.go` | previous value, stall start | report | only words log lines | - |
| Process | `cmd/coremon` | options, closers | start, shut down | a signal at any step of the start, closers against a running handler | a shutdown ends and loses nothing it waited for |
| CometBFT client, codec | `pkg/tmclient`, `encoding.go` | none | RPC calls | - | external: heights served, replies |
| Dashboards | `templates/` | none | offline generation | - | not modelled |

How they interact: `StartWatching` creates the getter, whose announcer sends blocks on
`newBlocksC`; the loop of the watcher receives them and calls the block handler with pairs of
blocks; the handler calls its tracker and passes points to the write API of the Influx client,
which queues them. A job calls the block fetch. `processCmd` starts the Influx client, the watcher and
the system watcher and binds a closer for each; on a signal the closers run one by one, the last
bound first. `Close` of the watcher meets the loop in two channels that are only ever closed.

## Modules

- `BlockGetter`: the getter. A block is its height. Everything between a `Lock` and its `Unlock`
  is one step, every other statement that other goroutines can observe is one of its own.
  `jobPc` and `annPc` are the places where the goroutines can be: `check` and `fetch` are the
  loop of a job up to its post, `backlog` its sleep, `waiting` and `woken` the announcer inside
  `jobCond.Wait`. `ChainGrows` and `Available` are the node.
- `BlockFetch`: one `fetchBlockByNum`. `BlockGetter` takes over its outcome as `FetchFails` or
  `FetchSucceeds`.
- `BlockWatcher`: EXTENDS `BlockGetter`, adds the loop and `Close`. `held` is the block kept for
  the next pair, `taken` the block received last.
- `BlockFeed`: what the handler may rely on, without jobs, channels or heights in flight: a first
  block in the direction of the run, then call after call with adjacent pairs, at most one of which ends after Close.
  `BlockWatcher` implements it (`Feed == INSTANCE BlockFeed`, property `FeedsInOrder`).
- `BlockTimes`: the operators of `blockTimeCache`; `BlockTimeCache`: a machine that calls them in
  every order.
- `RfqTracker`: EXTENDS `BlockTimeCache`, whose `cache` is the tracker's: the tracker at the end of a `BlockFeed`, which it instantiates: what is shown of
  it holds for the handler under any watcher that implements the feed, and this one does.
- `BlockHandler`: the points both handlers write over several runs, all measurements of them, and
  their rows. A failing call writes nothing and ends the run.
- `CommitMetrics`: the metrics of the last commit.
- `RfqErrors`: `rfqErrPatterns` in their order, `classifyRFQError` and `staleLateBy`. A log is the
  phrases it consists of, from the outermost wrapper inwards, the limits in time it names and those
  in the message it quotes: classification leaves the quoted message out, `staleLateBy` does not.
  The phrases are those of the code, with underscores for spaces and hyphens.
- `RfqActions`: `TxPoints` of one transaction: `findRFQTx`, `findJSONKey`, `parseRFQMemo`,
  `firstWasmExec`, the quote results, and the tags and fields of the points. A JSON document is the
  set of the key paths of its objects. The transaction is handled twice, with Go's maps iterated in
  any order, as `Method` still depends on it.
- `CoremonProcess`: `processCmd`, one step per statement that others can observe, the closers, the
  Influx client, `sysWatcher`, and the watcher as a `BlockFeed` with a handler call in the middle of
  its writes. `waiting` is `Close` of the watcher, `CloseGivesUp` its timer. The closer library and
  the client are external.
- `MC*`: starts, chains, sample blocks and symmetry for TLC. `*Proofs`: theorems.

Each module marks with "Mutant" plausible mistakes next to the definition they would be made in;
`PROJECT.json` says which property each one violates.

## Runs

| Run | Question | Bounds |
|---|---|---|
| `Getter` | where each height is at any moment, order, backlog, wakeups, with `Close` of the getter at any moment | forward, 2 jobs, 4 heights, channel and backlog limit of 1 |
| `WatcherForward` | the handler is fed as `BlockFeed` says, every block reaches it, Close ends the loop | 2 jobs, 4 heights, rewinds to genesis, to the tip, above it, none |
| `WatcherBackward` | the same backward, types of the unsigned heights, and that the loop idles at the end of the run | 2 jobs, 5 heights, the same rewinds, no stop height |
| `Fetch` | one fetch: all or nothing, no panic, it ends | 3 attempts |
| `TimeCache` | the cache, added to in any order | size 4, a chain of 40 blocks |
| `Rfq` | the tracker in both directions, and the end of a backfill | cache of 3, 7 blocks, 2 transactions, stop height 3 |
| `Handler` | rows of several runs | 6 blocks, 2 runs, either handler and direction |
| `Commit` | the metrics of one commit | 4 validators, 3 timestamps, symmetric |
| `RfqActions` | one transaction, handled twice | 3 keys, documents of up to 2 leaves at up to 3 levels with a search of 2, logs of up to 2 reasons with and without the wrapper, ids on both sides of every limit |
| `Process` | start, measuring and shutdown, what a shutdown may lose | 3 blocks, 2 points a call, with and without Influx and system watcher |

Why these bounds are enough to be interesting: with two jobs and a backlog limit of one, jobs
overtake one another, sleep on the limit and are woken; with a channel of one the announcer blocks
on it; the starts include the first block, the tip and a block beyond it, so a run meets blocks that
do not exist yet. A cache of three over seven blocks is trimmed at either end several times while
points wait, and timestamps lie below, on, between and above the blocks. In `Handler` two runs
overlap in every way the heights allow, and transactions of equal tags share blocks. Documents deeper
than the search have a key it must not find, and two leaves are what it takes for the order of maps
to matter; every pair of phrases of the patterns occurs as a log. With two points a call, a shutdown
meets the handler before, between and after its writes. The getter's
heights, its jobs and the attempts of a fetch are unbounded in the proofs.

The getter alone is run in forward direction, as `WatcherBackward` runs it backward. `TimeCache`
checks for deadlock. The other systems may stop: a backward run idles, the loop exits, a closed
getter ends, the calls of a fetch return, a run may never be started again.

Two runs end in a violation, each of a statement of the documentation:

| Run | Statement | What the code does |
|---|---|---|
| `RfqGenesisDoc` | `README.md:72`: one point per RFQ tx | a backfill to genesis without a stop height idles with points pending |
| `InfluxOffDoc` | `app_options.go:128`: the option enables the adapter and reporting | without it the handlers call methods of a nil interface at the first points and the process panics |

### Observations without a run

- `cmd_process.go:80` says a reverse run starts from the specified block. `announceBlocks` starts at
  `startHeight - 1` and `startHeight` is `REWIND_FROM`: the first block kept is the one below.
- `block_handler.go:797` calls `ReactionTime` the time since the earliest signature. The earliest is
  looked for among commit votes; a vote for nil may precede it and gets a negative time.
- `rfq_points.go:124` says offsets keep counts exact. `coremon_txs` points have the time of the block
  and the index as a field, so transactions with equal tags replace one another. The same holds of
  the points of events, attributes, messages and arities.
- `block_watcher.go:127` calls it stale when `Close` gives up for want of a new block. The timer runs
  from the call of `Close` and does not look at blocks, so it also fires during a handler call. And a
  loop that left by the `isClosing` case of its select never closes `isDone`, so `Close` waits out its
  timer although nothing runs any more.
- `rfq.go:404` says the inner reason must win over the wrapper. The patterns of `input` and `chain`
  come after that of the wrapper, so "No quote was filled" hides a validation error.
  `InnerReasonWins` leaves these classes out.
- `staleLateBy` reads the text with the message it quotes, which classification leaves out.
- The `method` tag of `coremon_wasm_errors` is the first key of a Go map; `RerunsAgree` allows it to
  differ for messages with several keys.
- `msg_arity.go` takes `binaryOptionsOrdersToCancel` from the orders to create.
- A signal between the start of the watcher's goroutine and the binding of its closer
  (`cmd_process.go` 177-180) closes the client while nobody asks the watcher to stop: it writes on
  until the process exits. `NothingLostAtExit` and `LossBounded` leave this start-up window out.
- For a client timestamp ahead of the transaction's block the count depends on the direction: forward
  `FloorHeight` can only answer with that block (a count of -1), in a backfill with a later one that is
  still cached (a count below it). `README.md:76` speaks of the latest block committed at the timestamp
  without saying what a block to come should count as; `MissedExact` leaves these timestamps out.

## Fairness

Goroutines are scheduled (weak fairness of every step of a job, of the announcer and of the loop,
each on its own); handler calls return; the chain grows, up to its bound. A fetch of a height the
node serves succeeds eventually if it is tried for ever (strong fairness of `FetchSucceeds`): the
job retries without limit, and an answer that never comes is not the code's to mend. Nothing forces
a `Close`, a fatal error or the order in which `select` prefers its cases. In `BlockFetch` every
request ends, as the RPC client has a timeout. In `CoremonProcess` `processCmd`, the closers and the
system watcher are scheduled, and the parts of a measurement return, as each has a timeout; nothing is assumed of the
handler, which may be stuck for ever, of the client, or of a signal.

## Proofs

For every number of jobs, capacity, limit, direction, stop height, chain and cache size:

- `BlockWatcherProofs`, the getter: `GetterInvariance` proves `GetterSpec => []GetterInv`. The properties are
  not inductive one by one: that nothing is lost needs that heights are placed once, which needs
  that the announcer stays behind the jobs (`Ahead`) and that nothing happened before the getter
  existed (`Newborn`). `GetterInv` is their conjunction; there is one lemma for each action.
  `BacklogBounded` has an invariant of its own: a post takes the count above the limit only with a
  job that goes to sleep, and one job at a time leaves.
  The watcher: `WatcherInv` adds that the kept block is the one before the next to be
  received, where sending and receiving cancel out (`Expected`), and that nothing below the lowest
  height is sent (`Reach`). `WatcherImplementsFeed` proves the refinement, with the assumption that
  nobody calls the getter's own `Close`, which is so in this program: it is exported by the
  interface and never called.
- `BlockFetchProofs`: `Accounted` says that a closed channel means its goroutine sent the part,
  reported an error before it closed, or had nothing to fetch; so a call that reads nil finds the
  error, and errC is closed only when all goroutines are past their send.
- `RfqTrackerProofs`, the cache: lemmas for every size and chain. Adding a block to a range of
  the chain gives a range of the chain (`AddSound`), trimmed at the end that did not grow
  (`AddAboveSound`, `AddBelowSound`); the blocks not after a time are an interval
  (`CommittedInterval`), so the look-up in a range answers for the whole chain (`FloorIsLatest`). The theorems about the cache, and those of the
  tracker, are drawn from them.
  The tracker: `TrackerInv` is behind all its safety properties. That a point is not
  made twice needs that the transactions of a call are new, which follows from the order of the feed
  (`HandledBehind`). That counts are exact needs that the cache still ends at the blocks of the pair
  (`CacheFollows`): a point that has waited asks for a time below the cache it waited for, so the
  look-up answers although the point's own block may have left the cache by then. `NothingLeft`
  needs that a point waits only while the feed goes lower (`PointsKept`). `PendingExact` says more of
  a backfill than that waiting is bounded: which points are kept is a function of how far down the
  run is. It needs that what a point does not miss any more stays covered, as the cache grows
  downwards (`WaitInv`). So every transaction waits for a fixed number of blocks below its own pair
  (`Lag`), which is what `Resolved` of `BlockHandler` takes for granted: `PendingFollowsLag`.
- `CommitMetricsProofs`: a finite set of times has a least and a greatest element, from which the
  delays and the duration of the round are what their definitions say; then each theorem follows from
  the one step that computes the report. Validators and times are any finite set and any integers.
  `StatusesAgree` compares the counts across a change of the validator set: they differ by exactly
  those who joined and those who left without a vote.
  The distances cancel (`DistancesCancel`) by facts about sums over a set: `SumOf` is a recursive
  function, shown to exist by the smallest set without one, and additive in what it sums.
- `MinMaxTheorems`: what `Min` and `Max` of a finite set of numbers are, for the other modules.
- `CoremonProcessProofs`: `ProcessInv`. That an exit loses nothing needs where `processCmd` can be
  when a closer is bound (`StartInv`: the client is bound before the watcher, so it is closed after
  it), where a running call is (`CallInv`), and what the closers that were called leave behind
  (`CloseInv`: the client is closed only once the loop has ended or was given up). That a `Close` that
  gives up costs at most the points of one call (`LossStaysBounded`) needs that only the last call of
  the feed can meet a closed client, and only after it has made its points (`LastCallInv`). There is
  one lemma for the steps of each goroutine.
- `BlockHandlerProofs`: `HandlerInv`. That counts are exact needs that everything queued or delivered
  is a point some block of the chain gives rise to (`PointsInv`), and that the nanoseconds two
  transactions take never meet, within a block by their index and between blocks because the offsets
  of one end before the next block. That a run is complete needs that, while nothing was dropped,
  what it handled is delivered, queued or pending (`KeptInv`), and that points are pending only above
  the stop height (`WaitInv`).
- `RfqActionsProofs`: for every document, log, transaction, depth and order of iteration. The search
  is a recursive function over levels; that it has a value at each (`FoundUnfolds`) is shown by the
  least level without one. A level answers with the first value in the order of the keys
  (`DeeperAnswers`, `FoundAnswers`) and not in that of a Go map, and so no point depends on the
  latter but for the `method` of a message with several keys. The inner reason wins because the
  patterns are those of the inner reasons, then the wrapper, then the classes `InnerReasonWins`
  leaves out (`PatternPlaces`). `LeastLate` needs that the patterns of stale texts come first
  (`StaleFirst`) and that the limits of a log are finitely many. Across the two calls the invariant is
  `PointsInv`: every point is one that some order of iteration writes for the transaction.

The assumptions are the `ASSUME`s of the modules: types of the constants, block times that grow with
the height and, in `BlockHandler`, leave room for the offsets (a microsecond per transaction, with
no more quotes in one than nanoseconds in it), and a cache of at least two blocks (the code has 3600; with one, a backfill would forget
a transaction's own block before it is counted).
`TxsAssumption` says what a transaction is: a document has the objects on the way to each of its
objects, limits occur in a text that says it is stale, a contract's error names one window, ids are
unsigned, and a quote that was filled has no error.

Only model-checked: liveness (temporal properties under fairness are out of the prover's
reach: `EveryBlockHandled`, `BackwardHandled`, `ClosingEndsLoop`, `CallEnds`,
`ShutdownEnds`, `MeasuresAgain`). Every other property of a passing run is a theorem.

## Not modelled

Counting of arities, options, logging and pace, StatsD, dashboards: see `PROJECT.json`. Text is what
the patterns tell apart, JSON its keys; sums of gas, fees and sizes are left out. Heights are
naturals: 2^64 is out of reach upwards, and the wrap below zero is excluded by the type invariants.
Timeouts are steps that may happen at any time. The chain does not reorganise (CometBFT blocks are
final). The data of a block is what the properties tell apart. `fetchBlockByNum` reads `block.Block`
of a reply that could have none; the node is assumed to send one.

## Plan

Done: every component that keeps state or decides what is written, and the proofs named above.

What is left: `BlockGetter` with a node that fails for good at one height, for the liveness of the
others.
