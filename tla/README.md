# Verification models for the SIS security estimator and its tooling

This directory holds TLA+ models of the Python code under `src/`. There are
TLC configurations that model-check them on small instances, and TLAPS proofs
of their main invariants. Every module is written from the source. The
`map` section of `PROJECT.json` names the lines each definition translates.

## 1. Inventory of the system

| Part | Source | State and operations | Interactions |
|------|--------|----------------------|--------------|
| BKZ width search | `prover/sis_estimation/bkz.py` `bkz_bit_security` (37-80) | Locals `min_m`, `max_m`, loop index `m`, bracket `l`, `h`, result. Steps: volume gate, linear scan for the first finite-cost width, probe of `f(max_m)`, bisection on real midpoints, bounded `minimize_scalar`, `assert sec.success`. | Calls the per-width cost `f`. Called by `find_deg` and `RingSisEstimation`. |
| Per-width BKZ cost | `bkz.py` `estimate_bkz_security_for_m` (101-165) | Pure. Branches: no lattice (inf), SVP oracle (`m <= 50`), reject (0), BKZ cannot reach delta (inf), block-size bisection and runtime. | Called by the width search. Its results are what the search brackets. |
| Refined BKZ model | `bkz2.py` | Pure float formulas and a `minimize_scalar` over block sizes. | Not called by the estimator. |
| Parameter search | `estimator.py` `find_deg`, `RingSisEstimation` (21-38, 63-75) | Loop over `deg in range(1, max_degree)`. BKZ check, then CPW check, then a record whose estimates are *recomputed* with other widths and the default strategy. | Calls the BKZ and CPW estimators. |
| CPW estimator | `.../combinatorials.py` | Dispatch between an exhaustive search over partitions and a pessimistic bound: density gate, `k` bisection, `m` reduction. Two tree-cost models with log-sum-exp, a recursive partition generator. | Called by the parameter search. |
| Direct SVP | `.../direct_svp.py` | Closed-form formulas. | None. |
| Stall watcher | `scripts/watch_start_env_with_rln.py` | Two threads share `last_line_time` and `saw_stall_marker_time`: a reader forwards output lines, and the main loop polls the child every 2 s, prints diagnostics after 120 s, joins the reader with a 2 s timeout, and handles Ctrl-C (terminate, wait 5 s, kill). | A child `make` process and its pipe. |
| RLN gasless demo | `testing-tools/e2e/rln_gasless_demo.py` | A sequential JSON-RPC script: funding, gasless send, receipt polling, paid fallback with a nonce, summary. | A node over RPC, with lost, late and error answers. |
| Trace range splitter | `tracer/scripts/split.py` | Reads CSV rows, keeps blank and comment rows, cuts each range `a-b` into pieces aligned on `BATCH_SIZE`, skips bad rows, writes the result. | A CSV file in, a CSV file out. |
| Import checker, hex converter | `check-imports.py`, `convert_hex_fields.py` | One-pass file rewriting. | Filesystem only. |

What is hard, and what each part needs:

* **BKZ width search.** The search is written for a convex cost surface, but
  nothing enforces that. The scan must only skip infeasible widths. The
  bisection runs on float midpoints, and its bracket must hold there: `h`
  infinite, `l` finite or still `min_m`. `max_m = l` can hand the minimiser
  an infeasible lower bound. The loop must terminate.
  Properties: `ScanSkipsOnlyInfeasible`, `BisectBracket`, `BoundaryWithinOne`,
  `NoSilentInfinity`, `Termination`. The proof `ContractRefined` covers the
  contract the search promises its caller.
* **Parameter search.** The record's `bkz_security` and `cpw_security` are
  computed again with `max_m = num_poly*degree` (not `secret_size`) and with
  the default strategy. The spec's end-to-end check (`bkz_security >= 128`)
  is therefore not guaranteed by the loop's own checks. `range(1, max_degree)`
  never tries `max_degree`.
* **Stall watcher.** Two threads race on shared timestamps. The diagnostics
  timer counts from the first marker, not from the last output. The 2 s join
  can return before the reader has forwarded the last lines. Ctrl-C can
  arrive during the join.
* **RLN demo.** A timed-out send that the node did accept, followed by a paid
  fallback that may reuse its nonce. An RPC error object parsed as hex. A
  funding wait whose result is ignored. A summary that prints OK
  unconditionally.
* **CPW estimator.** The dispatch guard `n < -1` is never true, so the
  exhaustive search is dead. The pessimistic bound floors and ceils the
  roots of float bisections, which at an exact integer root can land on
  either side. The tree models switch from log-sum-exp to max above 1000
  bits and add a repeat penalty inside the level loop.
* **Splitter.** Pieces must cover each range exactly, in order, cut at every
  multiple of `BATCH_SIZE`, and the loop must end. Single-block ranges are
  skipped by `int1 < int2`.

## 2. Plan

Modules, in the order they are built:

1. `BkzSearch`, the width search, with `MCBkzSearch` and `BkzSearchProofs`. **Done.**
2. `WatchStall`, the reader thread and the main loop of the watcher, with
   `MCWatchStall` and `WatchStallProofs`. **Done.**
3. `FindDeg`, the degree loop of `find_deg` and the record of
   `RingSisEstimation`, with `MCFindDeg` and `FindDegProofs`, and its
   contract `FindDegContract` (refinement checked and its safety part
   proved). **Done.**
4. `RlnDemo`, the demo script and the node it talks to, with `MCRlnDemo`
   and `RlnDemoProofs`. **Done.**
5. `BkzContract`, the abstract promise of `bkz_bit_security`, with the
   refinement `BkzSearch => BkzContract` checked by TLC and its safety part
   proved in `BkzContractProofs`. **Done.**
6. `CpwPessimistic` and `CpwTree`: the dispatch of `cpw_bit_security`, the
   pessimistic bound, the two tree-cost models and the partition generator
   checked against a reference set of partitions. **Done**, except the dead
   exhaustive loop itself.
7. `SplitRanges` and its specification `SplitSpec`. **Done.**
8. Proofs of the `BkzSearch` scan and boundary invariants (second half of
   `BkzContractProofs`), of the pessimistic bound (`CpwPessimisticProofs`)
   and of the splitter's refinement of `SplitSpec` (`SplitRangesProofs`).
   **Done.**
9. Proofs about the tree-cost models (`CpwTreeProofs`), after the partition
   generator moved to its own module `CpwPartitions`. **Done.**
10. Next: connect `FindDeg`'s BKZ table to `BkzContract`.

## 3. Modules

### BkzSearch (`bkz.py` 37-80, 101-165)

The per-width cost `f` is pure, so the model treats it as an unknown
function and reveals it lazily. `cost[s]` is `NotEvaluated` until the search
first calls `f(s)`. The first call picks any value in `Outcomes(s)`, and later
calls return the same value (`Eval`, `Reveal`). `Outcomes` keeps the control of
`estimate_bkz_security_for_m`:

* no lattice below `log2_q/log2_beta*n` gives infinity;
* `m <= MIN_BLOCK_SIZE` gives the finite oracle cost;
* otherwise the result is 0 (reject), a finite cost, or infinity.

The constant `Convex` selects what the search assumes. When it is TRUE, the
finite-cost widths form an interval `feasLo..feasHi` that contains every
oracle width. When it is FALSE, the surface is arbitrary.

The bisection computes `m = (h + l) / 2` in floating point. Widths are
therefore kept on a grid of `Scale` steps per unit: grid value `s` stands for
`m = s / Scale`. `MCBkzSearch` assumes `Scale` is a power of two no smaller
than the widest bracket, so every midpoint of the real bisection is a grid
point and the model computes the same midpoints as the code.

Actions: `Gate` (50-53), `ScanStep` and `ScanDone` (57-60), `Probe` (62-64),
`BisectStep` (65-70), `BisectDone` (65, 71), `Minimize` (75-80). The minimiser
is abstracted to "it returns some `x` in the bounds, or reports failure". A
failure raises at the assertion of line 78 (`pc = "error"`).

Fairness: `WF_vars(Next)`. The function is a sequential call with no waits,
so it keeps taking steps until it returns.

### WatchStall (`scripts/watch_start_env_with_rln.py` 16-61)

State: `child` (running or its return code), `pipe` (lines written and not
yet read, each TRUE when it holds `[dotenv@`), `pipeOpen` (some process still
holds the write end), `reader` (the reader thread), `lineAge` and
`markerAge` (the ages `now - last_line_time` and `now -
saw_stall_marker_time`), `pc` and `left` (the main thread and the time left
of its sleep, join or wait) and `rc` (the return value).

Ages saturate at `Window + 1`, because the code only compares them with the
window. Time moves by a `Tick` action. `Tick` is allowed only while the main
thread is blocked in `sleep`, `join` or `wait` and the reader has no line to
take. A line in the pipe is therefore read before time passes, as on a real
machine where forwarding a line takes no measurable time.

Actions:

* the environment: `Emit` (make writes a line), `ChildExit`, `WritersExit`
  (the last holder of the pipe exits), `Interrupt` (Ctrl-C);
* the reader thread (29-38): `ReadLine`, `ReadEOF`;
* the main thread: `MainPoll` and `MainWake` (44-47), `Diagnose` (48-51),
  `JoinReturns` and `JoinExpires` (53-54), `WaitReturns` and `WaitExpires`
  (57-61).

Fairness: weak fairness on the reader, the main thread and `Tick`. Both
threads always run when they can, and time always passes. The environment
gets no fairness: make may print forever or never exit.

### FindDeg (`estimator.py` 21-38, 63-75)

The two estimators are pure, so they are lazily revealed tables, as in
`BkzSearch`. `bkzTab[<<n, max_m, strategy>>]` and `cpwTab[<<n, m_0>>]` hold
`NotEvaluated` until first asked. They then hold one answer from the
estimator's control:

* BKZ: infinity when the gate of `bkz.py` 50-53 fails, and otherwise a cost
  level, 0, or `Raise` (the `AssertionError` of line 78);
* CPW: infinity when the density gate of `combinatorials.py` 59-63 fails,
  and otherwise a cost level.

`Clears(v, margin)` is the check of lines 68 and 72. `inf - margin` passes
it.

Actions: `CheckBkz` (64-69), `CheckCpw` (71-73), `BuildRecord` (line 75 and
`RingSisEstimation.__init__`, with `num_poly = ceil(secret_size/deg)` and
both estimates recomputed at `num_poly*deg`), and `Exhausted` (the end of
`range(1, max_degree)`). Fairness is `WF_vars(Next)`: the loop is a
sequential call.

### FindDegContract (spec sections 4.6 and 7; refined by `FindDeg`)

What `find_deg` promises, without its loop. The estimators are the same
lazily revealed tables, and any query may be asked (`AskBkz`, `AskCpw`). The
call then ends in one of three ways:

* `Accept(d)`: the least degree below `max_degree` that clears both margins
  is returned, every smaller degree having been asked and rejected. The
  record holds `num_poly = ceil(secret_size/d)` and both estimates at that
  size.
* `Exhaust`: search exhaustion (section 7 (d)). Every degree below the cap
  was asked and rejected, and `None` is returned.
* `Fatal`: a BKZ estimate raised, and the call raises with it (section 7
  (b)).

`FindDeg` maps onto it with the same tables and record. The contract's
`status` is `pc` once that is `"done"` or `"error"`, and `"running"` before.
Its fairness `WF_cvars(Next)` says the call ends.

### RlnDemo (`testing-tools/e2e/rln_gasless_demo.py` 82-91, 120-130, 158-478)

The script's state is its place in `main()` (`pc`), its local `nonce`,
`sent` (the transaction `sent_hash` names), `fallback`
(`used_paid_fallback`), the checks `left` in the current
`wait_for_condition`, and the exit status `rc`.

The node's state covers only the karma user's transactions:

* `chainNonce`: the transaction count at "latest";
* `pool`: the pending transactions;
* `mined`: the transactions in blocks;
* `balance`: whether the user holds ETH;
* `fund`: the faucet's funding transaction;
* `accepted`: a history of every transaction the node admitted.

A transaction is a nonce and a kind: "prior" (a zero-fee transaction left
pending by an earlier run), "gasless" or "paid".

Every RPC goes through `rpc_call`, which returns `{"error": ...}` both for an
error answer and for an exception. A send (`Send`) is therefore one of three
things:

* admitted, with its hash answered;
* admitted, with the answer lost;
* rejected or never received.

The node admits a transaction if:

* its nonce is not yet used on chain;
* a paid transaction has a balance to pay from;
* it outbids a pending transaction with the same nonce, which it then
  replaces.

A read that returns an error dict crashes the script when it is parsed with
`int(..., 16)`; this is `Crash`, which leads to exit 1.

Script actions follow `main()` step by step: `ReadBalance`, `ReadNonce`,
`Estimate`, `SendGasless`, `FallbackBalance`, `FaucetNonce`, `FundSend`,
`FundPoll`/`FundGiveUp`, `RefreshNonce`, `SendPaid`, `Monitor`,
`MinePoll`/`MineGiveUp`, `Receipt` and `FinalCheck`. The node's actions are
`MineTx` and `MineFund`.

Fairness: weak fairness on the script, which always takes its next step.
There is none on the node: the node may never mine, which is why both waits
have timeouts.

### BkzContract (spec section 4.3; refined by `BkzSearch`)

`BkzContract` says what `bkz_bit_security` promises its caller, with none of
the search. Its state is the call's `n` and `max_m`, the values `allowed[s]`
that `f` may take at each width, the revealed costs, the result and a
status. It has four actions:

* `Evaluate`: evaluate `f` anywhere. A revealed cost is never changed.
* `Reject`: return infinity when even `max_m` gives no lattice
  (`max_m * log2_beta < log2_q * n`).
* `Return`: return `f(x)` for a width `x` that has a lattice and uses at
  most `max_m` inputs.
* `Raise`: raise.

The call ends (weak fairness on the last three). `BkzSearch` instantiates it
as `Contract`. The mapping sends `allowed` to `Outcomes` and the status to
`pc` when the search has returned or raised, otherwise to `"running"`.
`BkzContractProofs` proves that the search implements `Contract!Safety` for
every value of the constants and on any cost surface (section 5).

### CpwPessimistic (`combinatorials.py` 18-95)

This module covers `cpw_bit_security`'s dispatch (`Dispatch`) and the whole
pessimistic bound:

* the density gate (`GateReject`, `GatePass`);
* the choice of `k` (`KAtMax`, `KZero`, `KBisect`);
* the reduction of `m` (`MReduce`, `MKeep`).

It computes on exact rationals kept as integer cross-products. `m_0` ranges
over powers of two, so `max_k = min(log2 m_0, n)` is an integer. Powers of two
are the recursive function `Pow2` rather than `2^k`, so that the proofs can
unfold them.

The two `scipy.optimize.bisect` calls are the only float steps whose outcome
the model cannot fix. They are modelled by the outcomes IEEE rounding can
give:

* Away from an integer root, floor and ceiling are exact.
* At an exact integer root `j`, `math.floor` may give `j - 1` or `j`
  (`FloorRoot`), and `math.ceil` may give the root or one more (`CeilRoot`).

These outcome sets were compared with a replay of scipy's C bisection in
floats on every input of the runs.

### CpwTree and CpwPartitions (`combinatorials.py` 98-186)

`CpwPartitions` holds the partition generator. `partitions(n, I)` becomes the
recursive operators `Partitions` and `PartitionsFrom`, which return the
sequence of tuples the generator yields. They are checked against
`PartitionSet`, the set of non-decreasing sequences of positive parts summing
to `n`. The generator is kept out of `CpwTree` because it is `RECURSIVE`, and
`CpwTree` is the module `CpwTreeProofs` reasons about.

`CpwTree` holds the two tree-cost models (plain and HNF). The constant
`Tuples` is the set of tuples `ls` the models are called with; `MCCpwTree`
sets it to everything `partitions(n, 1)` yields for `n` in `1..4`. `hnf`
selects the model, `Setup` is the set-up, and `Round` is one merge level.
`Pow2` is `2**j` as a recursive function, `PartSum` the running sum
`sum(ls)` (line 103) and `WeightSum` the running sum
`sum(ls[i] * 2**(k-i-1))` (line 106). Every quantity is a rational whose
denominator divides `2^k` (`k = len(ls)`), so the model keeps it multiplied
by `S = 2^k`. The log-sum-exp `log2(2^a + 2^b)`:

* is exact when `a = b`;
* otherwise may be any grid value in `[max, max + 1]`, which brackets the
  float value.

`elapsed` and `repeats` are history variables for the properties.

### SplitSpec and SplitRanges (`tracer/scripts/split.py` 8-53)

Each input row is a record of its kind (`empty`, `comment`, `garbage` for a
first cell that `int()` or the unpacking rejects, `range` with two integers).
Each output row is a kept row, a `tile` piece or the separator.

`SplitSpec` writes the whole file in one step. Each range's pieces are given
by a closed form: the batches `a div B .. b div B`, each cut to `a..b`.

`SplitRanges` follows the code step by step:

* `KeepRow` (lines 37-40);
* `SkipInvalidRow` (50-51) and `SkipInvalidRange` (48-49);
* `StartRange` (43-45);
* `Tile`, one iteration of the `while` of `process_range` (11-14);
* `EndRange`, the separator and the append of the pieces (15-16, 46-47);
* `WriteFile` (`write_csv`, line 53).

`SplitRanges` instantiates `SplitSpec` with `written <- (pc = "done")`.
`SplitContract == Abs!Spec` is the refinement property, including its
liveness. Fairness is weak fairness on `Next`, because the script runs alone
until it writes.

## 4. Runs

| Run | What it checks | Result |
|-----|----------------|--------|
| `bkz_search` (`MCBkzSearch.cfg`) | `TypeOK`, `ScanSkipsOnlyInfeasible`, `BisectBracket`, `BoundaryWithinOne`, `NoSilentInfinity`, `Termination` | pass, about 35,000 states |
| `watch_stall` (`MCWatchStall.cfg`) | `TypeOK`, `ChildStoppedOnReturn`, `ReturnsAfterExit`, `StallDiagnosed` | pass, about 16,000 states |
| `watch_stall_join` (`MCWatchStallJoin.cfg`) | `ReaderFinishedBeforeReturn` | violation |
| `find_deg` (`MCFindDeg.cfg`) | `TypeOK`, `FirstClearingDegree`, `NoneOnlyIfNoneClears`, `FindDegTerminates`, `ImplementsContract` | pass, about 1,000 states |
| `find_deg_record` (`MCFindDegRecord.cfg`) | `RecordReportsAcceptedEstimates` | violation |
| `rln_demo` (`MCRlnDemo.cfg`) | `TypeOK`, `ReportedSendAccepted`, `DemoTerminates` | pass, 662 states |
| `rln_demo_summary` (`MCRlnDemoSummary.cfg`) | `SummaryOnlyIfMined` | violation |
| `rln_demo_fallback` (`MCRlnDemoFallback.cfg`) | `FallbackOnlyAfterRejection` | violation |
| `cpw_pessimistic` (`MCCpwPessimistic.cfg`) | `TypeOK`, `LevelAffordable`, `ReducedStillDense` | pass, 198 states |
| `cpw_floor` (`MCCpwPessimisticKIsFloorOfRoot.cfg`) | `KIsFloorOfRoot` | violation |
| `cpw_tree` (`MCCpwTree.cfg`) | `TypeOK`, `PartitionsExact`, `RuntimeCoversRounds`, `RuntimeGrows` | pass, 331 states |
| `split_ranges` (`MCSplitRanges.cfg`) | `TypeOK`, `SplitContract` | pass, about 185,000 states |

What the passing runs show:

* `cpw_pessimistic`: whichever way the bisections round, the level `k` the
  bound settles on is one the tree can reach and the density can fill
  (`LevelAffordable`). The shrunk `m` keeps that level's lists non-empty and
  is what the bound reports (`ReducedStillDense`).
* `cpw_tree`: `partitions(n, 1)` yields every partition of `n` exactly once
  (`PartitionsExact`). Neither model's running time falls below a round's
  time, through the max switch, the log-sum-exp or the repeat test
  (`RuntimeCoversRounds`), and no merge level lowers it (`RuntimeGrows`, an
  action property).
* `split_ranges`: `split.py` implements `SplitSpec`, including termination
  (`SplitContract`).
* `watch_stall`: the watcher never returns while make runs
  (`ChildStoppedOnReturn`), on the normal path or through Ctrl-C. It always
  returns once make has exited, even when a descendant keeps the pipe open
  for ever (`ReturnsAfterExit`). While make stays up after the marker, the
  diagnostics come again and again (`StallDiagnosed`).
* `find_deg`: a returned record is for the first degree that passes both
  checks (`FirstClearingDegree`). `None` comes only after every degree in
  `range(1, max_degree)` failed a check (`NoneOnlyIfNoneClears`). The loop
  ends (`FindDegTerminates`). `find_deg` implements `FindDegContract`,
  fairness included (`ImplementsContract`).
* `rln_demo`: whenever the demo exits 0, the transaction it reports was
  admitted by the node and is of the kind that `used_paid_fallback` names
  (`ReportedSendAccepted`). This holds whatever answers are lost. The demo
  always ends (`DemoTerminates`).

Bounds of `bkz_search` and why they are enough:

* `log2_q = 3`, `log2_beta = 2` and `n` in `{1, 2}` give volume bounds of 2
  and 3. These lie on both sides of `MIN_BLOCK_SIZE = 2`, so both the oracle
  branch and the BKZ branch of `f` occur.
* `max_m` in `1..5` makes the gate both reject and accept.
* The cost surface ranges over every interval of the grid. The scan can
  therefore skip widths, and the probe can find `f(max_m)` both finite and
  infinite.
* With `Scale = 4`, the bisection runs up to three halvings.
* One finite cost level is enough: the properties talk about finite versus
  infinite, not about which finite value.

Bounds of the other runs:

* `cpw_pessimistic`: `log2_q = 2`, `log2_beta = 1`, `n` in `1..6` and `m_0`
  in `{1, 2, ..., 64}` (powers of two). The gate rejects and passes, all
  three ways of choosing `k` occur, and both the reduced and the kept `m`
  occur. Integer roots occur both for `k` (for example `n = 3`, `m_0 = 8`, where
  `2^2 / 3` equals the density) and for `m`.
* `cpw_tree`: `n` in `1..4` (trees of depth 1 to 4, `S` up to 16) and `m_0`
  in `{2, 8}`. This leaves the HNF model short of free inputs and well
  supplied, and makes the optimal `m` both larger and smaller than `m_0`.
  With `m_0 = 2 < n` the HNF width `min(m_0 - n, optimal_m)` of line 110 is
  negative. The model includes that case, but no property speaks of it. The
  HNF model's only caller (line 26) is inside the exhaustive loop of
  `cpw_bit_security`, behind the guard `n < -1`, which no call satisfies. The
  cutoff is 4 bits instead of the code's 1000, so that both the log-sum-exp
  and the max branch happen on these small trees.
* `split_ranges`: `BATCH_SIZE = 5` as in the code, range ends in
  `{0, 4, 5, 9, 12}` and up to three rows. Starts and ends fall on the first
  and last number of a batch and inside one. A range lies in one batch, ends
  on an edge, or spans three batches. Every kind of row follows every other.
* `watch_stall`: `Window = 3`, `Poll = 1`, `JoinTimeout = 1`,
  `WaitTimeout = 2` and up to `MaxLines = 3` lines. The window is longer
  than a poll, so a stall is noticed on a later wake-up than the one that
  starts it. A line can arrive inside and outside the window. Both timeouts
  can expire and can be beaten. Three lines allow a marker followed by more
  output.
* `find_deg`: `log2_q = 3`, `log2_norm = 2`, `secret_size = 3`,
  `max_degree = 4` (degrees 1 to 3) and two finite cost levels either side
  of the target, with margins 0 and 1. Every degree can pass or fail each
  check. `ceil(3/deg)*deg` is 3 for degrees 1 and 3 but 4 for degree 2, so
  the record's recomputation differs from the checks.
* `rln_demo`: two checks in each wait. A first check can fail and a second
  succeed, or both fail. The pool may start with a pending prior transaction
  from an earlier run, and the account may start with or without ETH.

**Findings.** Each is a `violation` run: TLC finds the stated property
violated by the model of the code.

* `cpw_floor` (`combinatorials.py:85`). At an exact integer root `j` of `f`, the float
  bisection stops just below it and `math.floor` loses a level. For example,
  `log2_q = 4`, `n = 6`, `log2_beta = 1` and `m_0 = 32` give `k = 1` and 13
  bits, where the floor of the root gives `k = 2` and 10 bits. The bound then
  overstates security. A replay of scipy's algorithm confirms it.
* `watch_stall_join` (`watch_start_env_with_rln.py:53`). The comment of line 52 says "Ensure reader
  finishes", but `t.join(timeout=2)` returns whether or not it did. When a
  descendant of make keeps the pipe open, the function returns with the
  reader still blocked on the pipe. `sys.exit` then kills the daemon reader,
  and whatever output that descendant writes later is never forwarded. In
  TLC's trace, make exits, the pipe is empty, the reader is blocked and the
  join times out.
* `find_deg_record` (`estimator.py:75`). `find_deg` checks BKZ at
  `max_m = secret_size` and CPW at `m_0 = 2*secret_size`. The record
  recomputes both at `num_poly*deg` (and BKZ with the default strategy). The
  returned record can therefore report estimates below the target that were
  never checked, contrary to spec section 8.
* `rln_demo_summary` (`rln_gasless_demo.py:455`). When the wait for mining
  times out, the demo still prints the success summary and exits 0, whatever
  happened to the transaction.
* `rln_demo_fallback` (`rln_gasless_demo.py:306`). A rejection and a lost answer look the
  same. If the node admitted the gasless transaction and the answer was
  lost, the paid fallback uses the same nonce and replaces it. The demo then
  reports that the node rejected the zero-fee submission.

Further divergences, read off the code while modelling it. The models
reproduce them, but they are plain facts of a single line, so no run restates
them:

* `combinatorials.py:19`. The comment of lines 10-12 says
  the exhaustive search runs for `n < 60`. The guard is `n < -1`, so lines
  20-36 are dead and every estimate is the pessimistic bound (spec section
  4.5 describes a threshold, and open question 79 notes the guard).
* `combinatorials.py:95`. The comment of lines 48-49 and spec section
  4.5 say the pessimistic estimate is lowered by 20 bits. The code returns
  `k + log2_beta * m / 2^k` undiscounted.
* `combinatorials.py:137`. The comment says a repetition is paid when
  the final list may be empty. The test is inside the level loop, so every
  level's shortfall is added. Both tree models are reachable only from the
  dead exhaustive branch.
* `watch_start_env_with_rln.py:47`. `last_line_time`
  is written for every line but never read. The stall test measures from the
  marker time alone, so "potential stall" diagnostics are printed every
  window after the marker while make is still printing.
* `rln_gasless_demo.py:338`. The result of the funding wait is ignored.
  "Karma user funded" is printed, and the paid fallback is sent from an
  account without ETH.
* `bkz.py:75`. Spec section 4.3 says minimisation runs within the feasible
  `[min_m, max_m]`. When the scan finds no finite width below `max_m` (for
  example `n = 2`, `max_m = 4`, `f(3) = inf`, `f(4)` finite), `min_m` stays
  at the volume bound, of infinite cost, and is the minimiser's lower bound.
  `NoSilentInfinity` bounds the harm. The minimiser gets an infinite upper
  end only after every integer width from the volume bound to `max_m` was
  evaluated and cost infinity. Then `l` never left `min_m`, the minimiser
  gets the single point `min_m`, and infinity is returned. A finite cost that
  exists only at a fractional width strictly between two such integers is
  missed. TLC finds such a surface (`n = 2`, `max_m = 4`, finite cost only at
  width 3.25), but it is a divergence the property states rather than one it
  checks for. When the scan found a finite width, the result is not infinity
  on a convex surface.

## 5. Proofs

`BkzSearchProofs` proves the following for all constants satisfying
`ParamsAssumption` and `CostsAssumption`:

* `TypeCorrect`: `Spec => []TypeOK`. `TypeOK` is inductive on its own, with
  the lemmas `EvalType` and `RevealType` about the lazily revealed cost table.
* `BisectBracketHolds`: `Spec => []BisectBracket`. `BisectBracket` is not
  inductive on its own. `Probe` opens the bracket with `l, h = min_m, max_m`,
  so the proof needs two more facts:
  * `MaxUntouched`: `max_m` is still the caller's `max_m` before the bisection;
  * `ScanWithinRange`: the scan never moves `min_m` past it.

  The inductive invariant is `IInv = TypeOK /\ MaxUntouched /\
  ScanWithinRange /\ BisectBracket`. The step for `BisectStep` uses
  `RevealKeeps`, which says `f` is pure and a revealed cost never changes, and
  `MidBetween`, which says the midpoint lies in the bracket.

`BkzContractProofs` proves `ContractRefined`: `Spec => Contract!Safety`.
This is the safety part of the refinement of `BkzContract` by the search, for
all constants. The proof has three facts:

* the initial states map to contract initial states (`ContractInit`);
* each step of the search is a contract step, or leaves `n`, `max_m`, the
  cost surface, the revealed costs, the result and the status unchanged
  (`ContractStep`);
* an inductive invariant holds (`CInvInit`, `CInvStep`).

The step proof has one case per action:

* the rejecting gate is `Reject`;
* the scan, the probe and the bisection are `Evaluate` (lemma
  `EvaluateStep`), or stutter;
* `Minimize` is `Return` on success and `Raise` on failure.

`Return` needs `x` to have a lattice and to be at most `max_m`, and the
search's `IInv` does not say so. The inductive invariant is
`CInv = IInv /\ GateOpen /\ ScanFromCeil /\ MaxWithin`:

* `GateOpen`: after the gate, `min_m >= ceil(log2_q / log2_beta * n)`;
* `ScanFromCeil`: the scan starts there;
* `MaxWithin`: `max_m` is never raised.

The arithmetic rests on two lemmas about the ceiling:

* `CeilAbove`: `ceil(a/b) > m` implies `m*b < a`. The gate rejects only
  when there is no lattice.
* `CeilBelow`: `ceil(a/b)*b >= a`. Every width from `min_m` on has a lattice.

That the call ends is the liveness part of the contract, which only TLC
checks.

`WatchStallProofs` proves `TypeCorrect` and `ChildStoppedOnReturnHolds`
(`Spec => []ChildStoppedOnReturn`) for every window, timeout and line bound
satisfying its `ASSUME`.

`ChildStoppedOnReturn` is not inductive. A join that returns is safe only
because the main thread reached `join` after seeing make's return code. The
inductive invariant therefore adds `ExitSeenBeforeJoin`: in `join`, and
after a normal return, the child has exited, since a process that has exited
never runs again. The Ctrl-C path is covered by `WaitReturns`, which
requires an exit, and `WaitExpires`, which kills.

`FindDegProofs` proves `TypeCorrect`, `FirstClearingDegreeHolds` and
`NoneOnlyIfNoneClearsHolds`. The inductive invariant adds:

* `LoopRejects`: every degree below the current one was evaluated and fails
  a check;
* `BkzPassed` and `CpwPassed`: the current degree passed each check already
  made;
* `Returned`: the result is the current degree or `None` after the last
  degree.

These facts need lemmas about the lazily revealed tables: a revealed entry
never changes (`TableKeeps`), and the rejections and clearances it recorded
stay true (`RejectedStable`, `ClearsStable`). They also need lemmas about
`ceil(secret_size/deg)*deg >= secret_size` (`CeilDivBounds`,
`WidthsCovered`).

`FindDegProofs` also proves `SafetyRefined`:
`Spec => Contract!Init /\ [][Contract!Next]_(Contract!cvars)`, the safety
part of `ImplementsContract`. `SameJudgement`, `SameAnswers` and
`SameDomains` show that under the mapping the contract judges degrees and
answers queries as the model does. The step lemmas then give each action its
contract step:

* `CheckBkz` is an `AskBkz`, or a `Fatal` when the answer is `Raise`;
* `CheckCpw` is an `AskCpw`;
* `BuildRecord` is an `Accept` of `deg`, or a `Fatal`;
* `Exhausted` is an `Exhaust`.

`Accept` and `Exhaust` need what the loop established about earlier degrees.
`IInv` supplies it: `LoopRejects`, `BkzPassed` and `CpwPassed`.

`RlnDemoProofs` proves `TypeCorrect` and `ReportedSendAcceptedHolds`, for
any number of checks in the waits and any behaviour of the node. The
inductive invariant adds:

* `SentAdmitted`: a `sent` transaction is in `accepted` and its kind
  matches `fallback`;
* `SentRecorded`: `sent` is set exactly from the place where a hash was
  answered;
* `NonceRead`: the local nonce is a number once read.

`accepted` only grows, so a transaction once admitted stays reported
correctly even after it is replaced or mined. The two send steps use
`SendKeeps`: the "answered" and the "error" branches of a send are
exclusive.

The second half of `BkzContractProofs` proves `ScanSkipsOnlyInfeasibleHolds`,
`BoundaryWithinOneHolds`, `MinimizerEndHolds` and `NoSilentInfinityHolds` for
every value of the constants. The first three hold for every cost surface.
`NoSilentInfinity` is the conjunction of two parts:

* `MinimizerEnd`: the minimiser gets a finite-cost upper end, or the single
  point `min_m` after every integer width from the volume bound to `max_m`
  cost infinity;
* `FiniteResult`: the result is not infinity once the scan found a
  finite-cost width.

It is proved, as it is checked, under `Convex`, the spec's assumption that
the finite-cost widths form one interval. Only `FiniteResult` needs that
assumption. None of these invariants is inductive. The inductive
invariant `SInv` adds to `BkzContractProofs`' `CInv`:

* `ScanPrefixInfinite`: while the scan runs, `min_m` is still the volume
  bound and every width passed had infinite cost, so the `break` of line 60
  sets `min_m` just past a run of infeasible widths;
* `GateFresh`: nothing is evaluated before the gate;
* `RevealedOutcome`: a revealed cost is one `f` can have at that width;
* `BracketStrict`: `l < h` while bisecting, unless both are still `max_m`;
* `BoundaryKept`: the minimiser gets the caller's `max_m` or `l` one unit
  below an evaluated infeasible `h`;
* `ScanExhausted`: after a scan that found no finite-cost width, `min_m` is
  the volume bound and every integer width below `max_m` cost infinity;
* `ProbedInfinite`: the bisection runs only after `f(max_m)` was infinite;
* `SurfaceFixed`: under `Convex`, the surface is convex.

`MinimizerEnd` then holds on any surface. `l` moves only to finite-cost
midpoints, so the bisection closes either on a finite-cost `l` or on
`l = min_m`. In the second case, `ScanExhausted` and `ProbedInfinite` say
every integer width up to `max_m` was infeasible. `FiniteResult` follows on a
convex surface. Both ends of the minimiser's interval are then finite-cost
widths, and the finite-cost widths form an interval, so no width between
them costs infinity.

`CpwPessimisticProofs` proves `TypeCorrect`, `LevelAffordableHolds` and
`ReducedStillDenseHolds` for every `log2_q`, `log2_beta`, `n` and power-of-two
`m_0`. The inductive invariant `IInv` adds the program counter's facts: the
result is unset before `done`, the density gate passed before `k` is chosen,
and the chosen `k` is affordable while `m` is reduced. The arithmetic rests on:

* `Pow2Succ`, `Pow2Type` about `Pow2`, and `LeastNat`, the least element of a
  non-empty set of naturals (from well-foundedness of `<`);
* `Crossing`, a discrete intermediate-value lemma: on `0..max_k`, the last
  affordable level is followed by an unaffordable one, so every root the
  float bisection may round to, floor or ceiling, is affordable
  (`FloorRootAffordable`, `CeilRootAffordable`);
* `DivBounds` and `MulCancel`, about integer division.

`SplitRangesProofs` proves `TypeCorrect` and `SafetyRefined`:
`Spec => Abs!Init /\ [][Abs!Write]_(Abs!vars)`, the safety part of
`SplitContract`, for every `BATCH_SIZE`, set of integers and row count. The
proof uses the type invariant `TInv` and the refinement invariant `RInv`:

* in `row` and `tile`, nothing is written and `out` is `Done(idx - 1)`, the
  expansion of the rows already read;
* in `tile`, the pieces appended so far are `Tiles(lo, start - 1)` and
  `start` is `lo`, a multiple of `BATCH_SIZE` or `int2 + 1` (`TileInv`);
* in `done`, the file is `Expand(input)`.

`Flat` and `Done` name the prefix folds of `FlattenSeq` (lemma `FlatDef`,
from `FiniteNatInductiveDef`, and `ExpandDone`). `TilesStep` shows that one
iteration of `process_range`'s `while` appends the next piece of the closed
form: the piece of batch `start div B` ends at `min((start div B + 1)*B - 1,
int2)`. `WriteFileIsWrite` maps `write_csv` to `Write`, and every other step
leaves the input, the file and `written` unchanged (`OtherStepsStutter`).
The invariant was model-checked before it was proved (185,252 states with
`BATCH_SIZE = 5`).

`CpwTreeProofs` proves `TypeCorrect`, `RuntimeGrowsHolds` and
`RuntimeCoversRoundsHolds` for every `log2_q`, `log2_beta`, cutoff, set of
`m_0` and set of non-empty tuples (`CpwTreeAssumption`). Neither property is
inductive as it stands: `rt >= elapsed` must hold in every state, not only at
`done`, and `Round` needs `1 <= i < k` to read `ls[i + 1]`. The inductive
invariant is `IInv = TypeOK /\ rt >= elapsed /\ (pc = "setup" => i = 0) /\
(pc = "round" => 1 <= i < k)`. `RoundStep` shows that a merge level keeps
`IInv` and does not lower `rt`: the log-sum-exp and the max are at least the
larger argument (`LogSumExpAbove`), and the repeat test subtracts a negative
list size. `RuntimeGrowsHolds` follows from that step, as an action property
of `[Next]_vars`. The lemmas `Pow2Type` and `SumsNat` show that `2^j` and the
running sums are natural numbers; they unfold the recursive functions with
`FiniteNatInductiveDef` and argue by a least counterexample (`LeastNat`, from
the well-foundedness of `<`).

Only model-checked: the liveness properties (`Termination`,
`ReturnsAfterExit`, `StallDiagnosed`, `FindDegTerminates`,
`DemoTerminates`), which need fairness and `ENABLED` and are beyond TLAPS;
the liveness part of the `BkzContract` refinement (that the search ends is
`Termination`, on convex surfaces), of `FindDegContract` and of
`SplitContract` (that the script
eventually writes, under weak fairness); and `PartitionsExact`.
`CpwPartitions` declares a `RECURSIVE` partition generator, and TLAPS loses
its SMT backend in such modules. What a recursive definition computes for
every input is also induction over data, which the installed provers cannot
do. `PartitionsExact` is therefore a bounded check against the reference set.

## 6. Not modelled

* The floating-point formulas of every estimator: root-Hermite factors,
  log-sum-exp, normal distributions. They are pure arithmetic and are
  abstracted to small sets of cost levels.
* `direct_svp.py` and the bodies of `bkz2.py`: closed-form formulas.
* `check-imports.py` and `convert_hex_fields.py`: one-pass file I/O.
* The exhaustive loop of `cpw_bit_security` (`combinatorials.py` 20-36),
  the running minimum over partitions. Its guard `n < -1` holds for no
  output size, so no call reaches it, and `CpwPessimistic` stops in
  `pc = "search"` there. What the loop calls (the partition generator and
  both tree models) is modelled in `CpwPartitions` and `CpwTree`.
* `split.py`'s argument parsing (lines 55-61) and the CSV text format. A row
  is modelled by what `read_csv` and the parse make of it.
* Of the watcher, the text `diagnostics()` and `sh()` print. They change no
  state and are part of the `Diagnose` step.
* Of the demo, the contents of RPC requests, signatures and the logs'
  wording. Only the control they lead to (admitted, answer lost, rejected,
  parsed as hex) is kept.
