# Agent Threshold in TLA+

Agent Threshold is a firewall for the transactions of AI agents. An agent asks
for a transaction to be screened; the answer is *approve*, *escalate* or
*reject*; an approved transaction is executed once, an escalated one waits for
a human, and every decision is audited and anchored on a chain. The services
are Python (FastAPI, SQLAlchemy over PostgreSQL at READ COMMITTED, Redis), the
contracts Solidity. This directory holds models of the parts where something
can go wrong that a test hardly reaches, their TLC configurations, and proofs.

Contents: [Inventory](#inventory) · [Plan](#plan) · [Modules](#modules) ·
[Runs](#runs) · [Divergences](#divergences) · [Proofs](#proofs) ·
[Not modelled](#not-modelled)

## Inventory

Paths are relative to `src/`. `PROJECT.json` lists every component with its
files and its status, and the hazards with their lines.

| Component | State it keeps | Operations | Talks to |
|---|---|---|---|
| `services/execution` (adapter: `executor.py`, `tokens.py`, `validation.py`) | `transactions.status, nonce, tx_hash, broadcast_attempts`; Redis token per decision | prepare, submit, cancel | Redis, the nonce allocator, an RPC node |
| `services/execution` (worker: `monitor.py`, `rbf.py`, `worker.py`) | `status, block_number, broadcast_at, stuck_at, tx_hash`; the worker's session | confirm, detect reorgs, flag stuck, replace | RPC node, orchestrator pipeline |
| `services/blockchain` | Redis counter per wallet; a fork process and its port per simulation | reserve a nonce, send, simulate, gas, price | RPC providers, a fork |
| `services/orchestrator` | one row, one audit record and one approval per screening; a behavioural profile per agent | screen: kill switch, policy, classifier, simulation, context, decision, commit; compute and refresh the profile | policy engine, screening agents, anomaly scorer, database |
| `services/policy-engine` | none | evaluate nine rules | called by the orchestrator |
| `services/screening-agents` | circuit breaker of the LLM client, shared by its threads | classify, interpret, summarise | an LLM API |
| `services/anomaly-scorer` | none (a baseline per agent is stored by the orchestrator) | score | called by the orchestrator |
| `services/api-gateway` | agents, API keys, policies and versions, `agents.halted`, approvals, rate-limit buckets | screen, halt, resume, list and decide approvals, CRUD, audit proofs and exports | orchestrator, database, Redis |
| `services/notification` | `approvals.notified_at, notify_attempts, notify_next_attempt_at` | claim, deliver, mark, retry; expire overdue escalations | webhooks, database |
| `services/audit-service` | `anchor_batches`, `audit_records.anchored_batch_id`; attempts in memory | load pending, anchor, wait, resolve an ambiguous failure, record, mark | contract `AuditAnchor`, database |
| `contracts` | `AuditAnchor`: last batch id, root by id; `PolicyRegistry` | anchorBatch, getters | audit-service |
| `shared` | models, Merkle trees, settings | | all |
| `sdk` (Python, TypeScript) | attempts of a call, whether the client is closed | screen, retry, sign, close | the gateway, over a network |
| `mcp-server`, `dashboard`, `infra`, `prompt-registry` | none of their own (the MCP server has the gateway's rate limit) | | the gateway, Redis |

**How they interact.** The gateway calls the orchestrator's pipeline in its own
process. Everything else meets in tables: the pipeline inserts the transaction
with its audit record and its approval; the gateway's approvers and the
notification worker's sweep decide an escalation; the execution service moves
an approved row on, and its worker finishes it; the audit worker batches the
records. The services are deployed with two replicas each
(`infra/helm/agentthreshold/values-*.yaml`), one process per replica. The
gateway runs its handlers in a thread pool; the execution service runs them,
and its worker, on one event loop with synchronous database calls.

**What is hard.** No handler locks what it reads: a session keeps the rows as
loaded, awaits pass, and the flush writes by primary key only those columns
whose value differs from the loaded one. So reads are stale when used, two
replicas do the same work, an uncommitted UPDATE holds a row lock across an
await, RPC answers are lost although the payload was taken, processes restart
between a side effect and its commit, chains orphan blocks, and stages time out.

**What makes each part correct.**

- *Execution*: a decision is executed at most once; nonces of a wallet never
  collide; attempts are counted and bounded by tokens; a cancel is final.
- *After the broadcast*: `executed` means confirmed to the depth; it is left
  only through a reorganisation; a replacement is sent only for a row that is
  stuck; what is old is flagged and what is orphaned is found.
- *Screening*: limits count all that came before; nothing is approved that the
  simulation or a signal speaks against; a first contact waits; a halted agent
  gets nothing; what a client is told is recorded.
- *Policy engine*: the harshest applicable rule wins, and no tightening of the
  inputs earns a milder decision.
- *Escalation*: an approval that a single session has written agrees with its
  transaction (that both always flip together is what the code promises and does
  not keep, see [Divergences](#divergences)); silence rejects; every escalation
  is resolved, failed sweeps included.
- *Notification*: attempts bound deliveries, a notified row was delivered,
  repeats need a fault, nobody is forgotten.
- *Audit*: marked records have a proof that verifies against their batch and
  against the chain; altering the hash column of an anchored record breaks the
  proofs of its batch (the content of a record is not hashed again when a proof
  is made); no record is lost.
- *Policies*: a reader gets the newest version; updates that do not overlap stand.
- *Rate limit*: no window admits more than the bucket and its refill, whatever
  the replicas' clocks say; who waits as told is admitted.
- *Breaker*: it refuses only for a cause it has seen, and recovers.
- *Baseline*: what the newest profile lacks was committed after its history was
  read, and soon after its date.
- *Score*: a more unusual transaction scores no less.
- *Simulator*: a process is left behind only if the wait for its end was cut
  short; no ceiling is passed (violated, see [Divergences](#divergences)).
- *SDK*: only an approval is signed; an approval is in vain only if its answer
  was lost, late or mangled; every call ends.

## Plan

Written, in this order: `Execution` and its proofs, `StuckTx`, `AuditAnchor`,
`Escalation`, `Outbox`, `PolicyEngine` with `PolicyTightening`, `Screening`
(which uses the policy engine's own operators); then `Decision`, the abstract
life of an approved decision, and the proof that `Execution` implements it;
`PolicyVersions`; `AuditTrees` (the Merkle trees);
`TokenBucket`; `CircuitBreaker`; `SdkClient`; `Baseline`; `Scorer`; `Simulator`;
then the compositions `Gateway`, `ScreeningParts` and `AuditTrail`, which carry
the properties of their parts for any constants, and the proofs: every safety
property that a run checks to hold is now a theorem.

What is left, most important first:

1. A composition `System` of `Escalation`, `Execution` and `StuckTx` around one
   row, with the SDK in front. Each of the three takes the columns the others
   write as its environment now (`Broadcast` in `Escalation`, `Init` in the two
   others), and `Decision` covers the life of a row up to its broadcast.
2. Refinements: that `Escalation` and `StuckTx` implement their share of
   `Decision`, so that the three proofs about a row's life rest on one promise.
3. The price oracle and the comparison of two RPC providers (`oracle.py`,
   `rpc.py`), when something besides a check's answer depends on them.

The runs are kept few: each is a question to one instance, and parts that share
no state share a run (below).

## Modules

All modules share some conventions. An action is what a handler does between
two points at which another actor can step in: an await (on an event loop), a
statement or commit (between threads or replicas), a Redis script. `Null` is
`None`. A definition that ends in `Mutant` is a plausible bug of the definition
it is named for; no specification uses it.

### The life of a transaction

**`Execution`** (`executor.py`, `tokens.py`, `nonce.py`, `main.py`). State:
the committed columns, the row locks, the Redis tokens and counters, where each
request is, and the payloads sent, accepted and mined. Actions:
`Prepare*` (read the nonce, reserve it, save it unconditionally, issue a token),
`Submit*` (consume the token, load, validate, the conditional UPDATE that takes
the row lock), `Send*` (post, retry, give up; the lock is held across the await),
`Cancel*`, `TokenExpire`, `Crash` (rolls the open transactions back), and a node
that accepts and a chain that mines. `Busy(p)` is the event loop of replica `p`:
no request of `p` moves while another is between awaits, blocked on a row lock
included. A payload is its row (the validated fields), nonce and price; signing
and validation of other fields are abstracted to `ValidSigned`.

**`Decision`** is what the adapter promises of a decision, without tokens,
nonces, locks or replicas: it is sent under authorisations, one recorded attempt
each; one attempt is under way at a time; it ends broadcast or cancelled; nothing
is posted unless an attempt is under way; a crash forgets an attempt.
`Execution` itself states the mapping (`Promise`, with `state <- status`,
`granted <- ` tokens issued, `counted <- broadcast_attempts`, `sending <- ` rows
locked by a submit, `posted <- ` rows with a payload sent), a run checks it, and
`ExecutionProofs` proves it.

**`StuckTx`** (`monitor.py`, `rbf.py`, `worker.py`). The worker's tick is
`Confirm*`, `Watch*`, `Flag*`: load as many rows as the query's limit allows into
the session, one or two RPC reads per row, one flush. `found` is what the flush
will write. An RPC read that fails (`ConfirmError`, `WatchError`) skips its row;
a row whose chain has no provider in this process (`NoProvider`) raises another
exception, which ends the tick and with it the passes that follow; so does any
other exception (`TickFails`). `configured` is what a process has read from its
environment: rows were broadcast while all chains were configured, and a restart
may find fewer. `Replace*` is the
endpoint: load and validate, await the screening (a free choice here), claim
with a conditional UPDATE, post, commit. Its error paths go through
`CommitClaim`, see [Divergences](#divergences). Time is counted in blocks. The
token that a replacement has to present is an input; nothing in the repository
issues it for a stuck row.

### Screening and what it rests on

**`Screening`** (`pipeline.py`, `context.py`, `confidence.py`, `stages.py`,
`transactions.py`). One action per stage; the three queries of the context are
three steps, since each sees what is committed by then. `Advise` and `ReadKnown`
choose the signals freely, absent ones included. `FailClosed` is a gating stage
that failed or ran out of time. `Decide` combines `Evaluate`, the simulation and
`Confidence` (exact, in hundredths of a percent). `ledger` is the table of
transactions with their audit records. `haltedSince` and `before` are history.
The active policy does not change, so its read is part of `LoadAgent`; the time
of day stays in one minute; the daily window does not slide, the minute's does
(`Age`).

**`PolicyEngine`** (`engine.py`) defines `Evaluate`, the first applicable of nine
rules in their order. **`PolicyTightening`** is a state machine over its inputs:
the initial states are all bounded inputs, a step makes one of them harsher, so
that invariants speak of every input and an action property of every pair.

**`Baseline`** (`orchestrator/baseline.py`, `anomaly_scorer/baseline.py`). A
profile is the set of transactions it counts (`of`), the time it is dated with
(`at`) and, as a history variable, the time its history was read (`read`).
Screenings read the
newest, compute one when there is none or it is stale, commit their transaction,
and refresh at most every `Fresh`. Reading the history and committing the profile
are two steps; `Read` remembers which row will be overwritten.

**`Scorer`** (`scorer.py`) is the arithmetic of the four factors, in hundredths
of a point and rounded down, as a state machine whose steps make a transaction
more unusual. The expected rate is the fraction `count / Days` of the code, so
that `Spike` compares `Days * n` with `count`. `Screening` takes the score as an
input.

**`Simulator`** (`simulator.py`, `simulate.py`, `gas.py`, `rpc.py`). `Start` picks
a port believed free, `Bind` is the process taking it (or not), `Ready` polls
whatever answers there, `EthCall`, `EstimateGas` and `Report` are the calls,
`Cancel` the budget of the stage at one of their awaits. The `finally` terminates
the process and awaits its end (`reap`): it exits by itself (`Exits`, `Reaped`),
or is killed after five seconds (`Kill`), or the budget ends the wait
(`CancelReap`), and then nothing kills it any more (`cut`).

**`CircuitBreaker`** (`circuit_breaker.py`, `llm.py`). Calls of several threads
begin while the breaker lets them and end at any time. The provider's health
turns; a call may meet it as it has been at any time while the call ran (`saw`),
so that a call begun during an outage can still time out after the recovery.
`outcomes` is a history of the last outcomes with their ages.

### The gateway and its clients

**`PolicyVersions`** (`policies.py`, `agents.py`, `schemas/policy.py`). An update
reads the active row, then commits the next version as active and deactivates the
row it read; two may read the same. `given` is what the admins have given,
`overlapped` whether two updates ever overlapped. `InForce` is what a reader gets.

**`TokenBucket`** (`rate_limit.py`, `redis.py`). One Redis key, drawn from by
replicas whose clocks are ahead of Redis by up to `Skew`; the key expires by the
clock of Redis. `Outage` is a
script that ran and whose answer was lost. `start` and `spent` measure an
arbitrary window; `promises` are the waits that refused callers were told.

**`SdkClient`** (`client.py`, `client.ts`, `signing.py`). Either SDK: attempts,
time-outs, answers that arrive late, and a gateway that screens every request it
gets and commits a row for each, or refuses it without one (`Refuse`, which
includes the `reject` of a 200 without a row). The answer to an attempt that was
screened may be replaced by a status nobody expects or a body that does not
parse (`mangled`): what each client retries is `Refused`.

**`Escalation`** (`approvals.py`, `expire.py`, insertions of `pipeline.py`). The
notification workers sweep what is overdue, `SweepLimit` rows at a time; every
read of the queue sweeps all of it; so does a decider before it loads and writes
its target. `seen[a][t]` is the transaction status a session has loaded: `Flush`
leaves out a column whose new value equals it, which is what the unit of work
does. `SessionFails` is a database error: what the session has changed is rolled
back, a worker sweeps again at its next tick, a request is over. An approved
transaction is broadcast or cancelled by the execution service. `contested` is a
history variable, the approvals that a session has written after another one had.

**`Outbox`** (`outbox.py`, notification `worker.py`, `channels.py`). Claim (load,
then one commit with attempt and lease), deliveries that succeed, fail, or
succeed unnoticed, the mark, the retry with its backoff, crashes, decisions that
close an approval, and a clock that counts waits down.

### The audit trail

**`AuditAnchor`** (`audit-service/*`, `AuditAnchor.sol`, `audit_events.py`). A
tick loads pending records, reads the last batch id, estimates (a simulation of
the contract's checks), sends, waits for confirmation or times out, resolves an
ambiguous failure by comparing roots, upserts the row of the batch and marks the
records, in two commits. A submission may land at any later time. A root stands
for the set of its leaves.

**`AuditTrees`** (`merkle.py`, gateway `audit.py`). `Levels` are the values of
`level` in the loops of `merkle.py`, `Ancestors` those of `idx`, `Height` the
number of rounds; `MerkleRoot`, `MerkleProof` and `Recomputed` are its three
functions. Recursive functions rather than operators, so that they can be
reasoned about. `InOrder` is ORDER BY `created_at`, `id`. Rows are written with
the time their transaction began, so they appear out of order and may tie;
`Siblings` is the order in which the gateway rebuilds a batch, `Exported` the
rows of an export. keccak256 is an injective pairing.

### Composition of the runs

Parts that share no state share a run. `AuditTrail` (`AuditAnchor`, the same
module once more on the same variables with another set of workers and no faults,
and `AuditTrees`), `ScreeningParts` (`Screening`, `PolicyTightening`, `Baseline`,
`Scorer`, `Simulator`) and `Gateway` (`PolicyVersions`, `TokenBucket`,
`SdkClient`, `Escalation`, `Outbox`, `CircuitBreaker`) instantiate their parts,
and a frozen variable `part` picks the one that
moves: a behaviour is one of a single part, so that no product of independent
state spaces is explored. Fairness and properties are those of the part. The
compositions are as parametric as their parts, and the theorems are about them,
so that what is proved is, word for word, what the runs check. The `MC*` modules
only give constants their values.

## Runs

| Run | Instance | Shows |
|---|---|---|
| `exec_replicas` | two replicas with one call each, two rows of one wallet, one crash, four requests | `TypeOK`, `NoNonceCollision`, `SentIsCounted`, `CancelIsFinal`, and `KeepsPromise`: every step implements `Decision` |
| `exec_one_replica` | one replica, two concurrent calls about one row, eight requests, two sends per submit, one crash | `AtMostOneMined`, `BroadcastMatchesRow` |
| `exec_double` (violated) | two replicas with one call each, one row, four requests, one send, no crash | `AtMostOneMined` fails |
| `exec_self_block` (violated) | one replica, two calls, fairness | `CallsReturn` fails |
| `stuck` | one replica, two rows, the provider of one of which may be missing after a restart, two rows to a pass, two concurrent replacements of either mode, one reorganisation, one crash or failed tick, two blocks | `ExecutedIsConfirmed`, `ExecutedIsStable`, `ReplacedOnce`, `ReorgIsFlagged`, `OldIsFlagged` |
| `stuck_limbo` (violated) | one row, one replacement | `BroadcastingIsTransient` fails |
| `audit` | one worker, two records, two faults, one reorganisation; two workers over two records without a fault; trees over four records of two organisations with equal times and hashes, up to three to a batch | `ProofReachesChain`, `MarkedIsCovered`, `NothingLost`; `EveryProofVerifies`, `TamperEvident` |
| `audit_export` (violated) | the trees alone | `ExportedProofVerifies` fails |
| `screening` | three requests, two at a time, one to a new counterparty, limits of one a day and one a minute, a kill switch; every policy with one field set, two values per field, every request and context; two screenings of one agent over four units of time with a failure; histories, values, deviations and counts around every condition of the score; two simulations, two ports, a failure, and a budget that may end at any await | `LimitsHeld`, `ApprovedIsVerified`, `FirstContactWaits`, `HaltedRejects`; `HarshestWins`, `NeverMilder`; `FreshOrRecent`; `NeverScoresLess`; `ForkLeftOnlyIfCut` |
| `simulator_ceiling` (violated) | the simulator alone | `CeilingNeverPassed` fails |
| `gateway` | two policy requests and three versions; a bucket of two tokens, two clocks one apart, ten ticks; a call from either SDK with two retries, two messages lost or mangled; two approvers of one escalation and a worker that sweeps one of two at a time, one failed session; one worker over two escalations of which one has no channel, three attempts, three faults; three threads and a threshold of three | `SequentialUpdatesStand`, `NeverOlder`; `Quota`, `RetryAfterHonest`; `SignedIsApproved`, `InVainForLoss`, `CallsEnd`; `UncontestedAgrees`, `SilenceRejects`, `Resolves`; `DeliveredOnce`, `EveryoneIsTold`; `RefusesForCause`, `Recovers` |
| `approvals_half` (violated) | the queue alone: one approver, one worker that sweeps two at a time, one reader | `NeverHalfApplied` fails |

Every property of a passing run has a mutant in `PROJECT.json` that breaks it.
Deadlock checking is off throughout: once its bounds are used up, a model stops.
`Decision`'s promise is checked by `exec_replicas` and proved in general.

**Why the bounds are enough.** The races of this code are between two sessions
over one row: one that loads and one that commits in between. Two calls (or
workers, requests) and one row show them; two rows are there for what is shared
beyond a row (a wallet's counter, a flush that waits for several locks, a batch
id). Depths and ages are one block or one unit, so that each boundary is crossed
inside the bound. One crash or reorganisation suffices where a property
speaks of a single history, since both return a process or a payload to a state
it can be in without them. Three attempts in the outbox let a backoff double
once. The pipeline needs three requests: a first contact that is recorded, and
two that are alike. The policy inputs set one field at a time because the
properties compare rules pairwise; the rules that need no field (new
counterparty, anomaly) are present in every input. A batch of three leaves is
the smallest whose tree pads a level; a fourth record makes a second batch. The
breaker needs as many threads as failures open it, so that all of them are
under way when it opens. Of the queue, two sessions that decide and one that
sweeps meet in every order, and with a sweep of one row at a time the second
escalation has to wait for a later pass, which a failure may delay; more sweeps
beside them (`Readers`) are left to `approvals_half` and to the proof. Two
retries and two losses let a call lose an answer, have another one mangled and
still end with the third. What is proved holds without the bounds.

**One replica or two.** `AtMostOneMined`, `BroadcastMatchesRow`, the `stuck`
properties and `DeliveredOnce` hold with one replica, and `ProofReachesChain`
says so in its own text (`OneWorker`). The charts deploy two; what then fails is
listed below. `MarkedIsCovered` and `NothingLost` are checked with two audit
workers as well; with two, the run has no faults.

**Conditions in the properties.** `ExecutedIsConfirmed` and the first properties
of `audit` speak of a history without a reorganisation (`reorgs = 0`): after
one, rows are wrong until the worker finds out, or for good in the audit
service, which never looks again. `SentIsCounted` excludes a crash, which rolls
the count back. `ReorgIsFlagged` and `OldIsFlagged` hold once ticks get to their
end for good (`TicksEnd`): no replica has blocked itself (`SelfBlocked`) and no
row that a pass polls is of a chain without a provider. `ReorgIsFlagged` also
needs the executed rows to fit in one pass (`PassFits`), and `OldIsFlagged`
excludes rows after a replacement; each condition is a divergence below.
`LimitsHeld` counts what was committed before the request was sent;
requests handled at once overshoot, each by at most what it is itself allowed.
`SequentialUpdatesStand` speaks of histories in which no two updates overlapped.
`FreshOrRecent` leaves out the screenings that have not come to their refresh, or
whose own refresh failed; of the others it says what the newest profile may still
lack. `UncontestedAgrees` speaks of approvals that a single session has written.
`InVainForLoss` counts as missed an attempt the client gave up on, and as
mangled one whose answer was replaced under way.

**Fairness.** `Execution`'s `FairSpec` is fair to every step of a request that
has begun: an RPC answers or times out. `StuckTx`: the worker loops for ever;
strong fairness, because its steps are disabled while another task holds the
event loop, and because polls may fail any number of times as long as each
row's is answered in the end; a claim is synchronous code, so it is not
suspended for ever. `AuditAnchor`, `Escalation`, `Outbox`: the worker loops for
ever (`while not stop`, with every exception caught), time passes, faults are
finitely many (`MaxFaults`, `MaxFailures`). `AuditAnchor` also assumes of the
chain that what its node has taken is executed in the end (`WF(Land)`): without
it nothing is ever anchored. `SdkClient`: an attempt is answered or times out
(`timeout` of the HTTP client). `CircuitBreaker`: a call ends within its timeout
and time passes; `Recovers` assumes, in its own text, a provider that answers for
good.
No fairness is assumed for clients, approvers, readers of the queue,
reorganisations, or, in `Execution` and `StuckTx`, for the chain.

## Divergences

The violation runs, and what they show:

- `exec_double`. Two prepares of one decision in two replicas both read a NULL
  nonce and save their own unconditionally (`executor.py:93`). A payload with
  the first nonce may be posted, its answer lost; after the second save another
  payload with the second nonce is valid, and both are executed. `tokens.py:3`
  promises one broadcast per decision.
- `exec_self_block`. The claim's UPDATE is synchronous in an async handler
  (`executor.py:125`). When a call of the same process holds the row lock across
  its await, the UPDATE blocks the event loop that the holder needs: neither
  returns. `rbf.py:135` has the same shape (`SelfBlocked` in `StuckTx`).
- `stuck_limbo`. The error paths of a replacement assign `tx.status = "stuck"`
  (`rbf.py:155`) to an object loaded as stuck: no column changed, no UPDATE is
  emitted, and the claim, a Core UPDATE, is what is committed. The row stays
  `broadcasting`, which nothing handles.
- `audit_export`. The export rebuilds each batch's tree from the rows it exports
  (gateway `audit.py:232`): one organisation's, filtered, at most 500. A batch
  with another row has another root, and the printed siblings do not lead there.
- `simulator_ceiling`. A failed estimate is a gas of 0 (`simulator.py:235`), which
  is below every ceiling: the simulation succeeds.
- `approvals_half`. A sweep's session loads an overdue approval, and then reads the
  transaction as `rejected`, since another sweep has committed in between. A
  decision that had loaded the pending approval commits `approved` to both rows
  (`approvals.py:142`). The first session's commit then writes the approval
  alone, because its transaction's status has not changed for it: the approval
  is `expired`, the transaction `approved`, and it can be broadcast. `expire.py:28`
  says that the two flip together. Every replica of the worker sweeps, and so does
  every read of the queue (`approvals.py:59`, `approvals.py:120`).

The same models show more, with the change of an instance that is named here:

- `stuck` with a second replica and four blocks: `ExecutedIsConfirmed` fails. A
  confirmation pass that loaded the old hash commits `executed` over a
  replacement. `ExecutedIsStable` and `ReplacedOnce` fail too: a pass of the
  other replica flags as stuck what was confirmed or replaced since it loaded.
- `ReorgIsFlagged` and `OldIsFlagged` without `TicksEnd`: a row whose chain has no
  provider in this process raises `NoProviderConfiguredError` (`rpc.py:78`), which
  is no `RPCError`, so that `monitor.py:78` and `monitor.py:122` do not skip the
  row: every tick ends there, later passes never run, and nothing is confirmed,
  found orphaned or flagged any more. `monitor.py:9` says that all RPC failures
  are tolerated, `worker.py:8` that the next tick proceeds: it fails again.
- `ReorgIsFlagged` without `PassFits`: the watch takes any 200 of the executed rows
  in its window (`monitor.py:112`), in no order; the others may never be looked at.
- `OldIsFlagged` without its last condition: a replacement keeps `stuck_at`
  (`rbf.py:159`) and `flag_stuck` only selects rows without one (`rbf.py:76`).
- `Kinds` with `"altered"`: a replacement in mode `rbf` may carry other calldata,
  since only `to` and `value` are compared (`rbf.py:181`) and the calldata of the
  original row is screened (`rbf.py:208`).
- `StuckAfter` below `Conf`, as by default (60 s, 12 blocks): a mined row is
  flagged stuck while it waits for its depth, and is not confirmed any more.
- `audit` with a second worker: `ProofReachesChain` without `OneWorker` fails. The
  loser of a batch id overwrites the winner's row with its own root
  (`worker.py:177`). What the marks say stays true (`MarkedIsCovered`, checked with
  two workers and proved for any number), but they do not stay: the loser moves
  records that the winner marked.
- A submission that lands after the ambiguity was resolved (`batcher.py:87`) and
  before the next batch id is read (`batcher.py:80`) is anchored once more under
  the next id; and between the commits of `worker.py:189` and `worker.py:197` an
  anchored batch has no records, contrary to `worker.py:7`.
- `Escalation`: two deciders of one approval are both told that they succeeded; a
  sweep that loaded a pending approval expires it after it was approved and
  broadcast. `UncontestedAgrees` says when the two rows still agree.
- `Outbox` with a second worker: `DeliveredOnce` fails (`outbox.py:62` selects
  without a lock).
- `PolicyVersions` with updates that overlap: one update is lost without a word,
  two versions with the same number are active (`policies.py:71`), and two
  updates that each give one end of the window may leave its ends in the wrong
  order (`policies.py:97`). Without overlaps: an update that omits the anomaly
  threshold resets it to the default of the schema (`policies.py:104`), where
  `schemas/policy.py:12` says that omitted fields carry over.
- `Baseline`: a profile is brought up to date by the next screening only, so
  the five minutes of `baseline.py:73` are a bound as long as there is one. And a
  profile saved late over an early reading is dated when it is saved: what it
  lacks stays hidden for five minutes more.
- `CircuitBreaker`: `circuit_breaker.py:3` says that a tripped breaker refuses calls
  for `cooldown_seconds`. A late success closes it before they are over, and a
  late failure starts them again; after them all calls pass, there is no half-open
  state in which a single one would probe. `RefusesForCause` holds either way: it
  bounds refusals, and does not say that there are any.
- `Scorer`: a maximal outlier scores 60 points, 61.5 with a single counterparty,
  of the 70 that flag, where `scorer.py:24` says that it must exceed the threshold
  by itself. And `context.py:61` counts the transactions of a minute, which are
  scored as those of a day (`scorer.py:56`), so that a spike is hardly ever seen.
- `Simulator`: the budget may end the wait of the `finally` (`simulator.py:174`), and
  a cancellation is no `Exception`, so `kill()` is skipped: an anvil that does not
  obey stays, with its port, contrary to `simulator.py:3`. A cancelled simulation
  may spend five seconds in that wait, beyond its budget. Where two pick one
  port, a simulation's calls are answered by the other one's fork.
- `SdkClient`: `client.py:40` says that 5xx are retried and that retrying is safe
  because screening is read-only. A 5xx ends the call at once
  (`ScreeningUnavailableError`), and every screening commits a row that counts
  against the limits: an approval whose answer was lost is in vain (`InVainForLoss`).
- `StartNonce` above 0: the allocator is seeded by its default getter, which
  returns 0 (`nonce.py:49`), whatever the wallet has sent.
- `Screening`: an advisory stage that fails is an absent signal and costs no
  confidence (`pipeline.py:158`), so that a request is approved although a stage
  failed, where the repository's `README.md:9` says it is not; a rejection by
  `_fail_closed` (`pipeline.py:460`) leaves no row and no audit record, where
  `README.md:11` says it is logged.

Read off the code while modelling it, and not in a model: the state difference a
simulation returns is always empty, contrary to `simulator.py:14`; a transport
failure of the `eth_call` is reported as a revert; when the fallback provider
fails, the primary's answer is taken without a comparison (`rpc.py:90`), where
`rpc.py:4` promises a cross-check that fails closed.

## Proofs

Eight modules hold theorems, all of them about any number of processes, rows,
requests and steps, from the named assumptions on the constants. Every invariant
and every safety property of a step that a passing run checks is stated by one:

| Module | Theorem | Statement |
|---|---|---|
| `ExecutionProofs` | `TypeCorrect`, `NoNonceCollisionHolds`, `CancelIsFinalHolds`, `SentIsCountedHolds` | the properties of `exec_replicas`, any number of replicas |
| | `AtMostOneMinedHolds`, `BroadcastMatchesRowHolds` | the properties of `exec_one_replica`, one replica |
| | `AttemptsWithinTokensHolds` | attempts never exceed the tokens issued |
| | `KeepsPromiseHolds` | `Spec => KeepsPromise`: `Execution` implements `Decision` |
| `StuckTxProofs` | `ExecutedIsConfirmedHolds`, `ExecutedIsStableHolds`, `ReplacedOnceHolds`, `TypeCorrect` | with one replica, any rows, requests, crashes, reorganisations and depths |
| `AuditAnchorProofs` | `TypeCorrect`, `MarkedCovered` | any number of workers |
| | `ProofReachesChainHolds` | any number of workers; the property itself speaks of one |
| | `MarksStandHolds` | one worker, any records, attempts, crashes, timeouts |
| `ScreeningProofs` | `HaltedHolds`, `FirstContactHolds`, `TypeCorrect` | any number of requests, any policy |
| | `ApprovedVerified` | the same, for any threshold above 30 |
| | `LimitsHold` | any limits, amounts and ages of records |
| `PolicyVersionsProofs` | `NewestInForce`, `NeverOlderHolds`, `SequentialUpdates`, `TypeCorrect` | any number of updates at a time |
| `GatewayProofs` | `QuotaHolds`, `RetryAfterHolds` | any bucket, cost, number of callers, clocks within `Skew` |
| | `SilenceRejectsHolds`, `QueueTypeCorrect` | any number of approvers and sweeps |
| | `UncontestedAgreesHolds` | the same, any limit of a sweep and any failures |
| | `SignedIsApprovedHolds`, `InVainForLossHolds` | any number of calls, retries and losses |
| | `RefusesForCauseHolds` | any number of threads, any threshold and cooldown |
| | `DeliveredOnceHolds` | one worker, any escalations, leases, backoffs and faults |
| `ScreeningPartsProofs` | `HarshestWinsHolds`, `NeverMilderHolds` | every policy, request and context |
| | `FreshOrRecentHolds` | any number of screenings that overlap, any intervals |
| | `NeverScoresLessHolds` | every history, value, count and window |
| | `ForkLeftOnlyIfCutHolds` | any number of simulations and ports |
| `AuditTrailProofs` | `ProofRecomputesRoot`, `RootTellsLeaves` | any leaves, in any number |
| | `TreesInvariant`, `EveryProofVerifiesHolds`, `TamperEvidentHolds` | any records, times, hashes and batch size |

**Execution.** `TypeOK` is not inductive: the steps after an await need what the
request knew before it. `Shape` adds `CallShape` (target, payload and nonce by
the point a request has reached; a request in an await holds its row's lock, and
its payload carries the nonce it read) and `LockShape` (a held lock is held by a
request in an await about that row, which is still `approved`). For any number
of replicas, `NonceOwners` says that a nonce below a wallet's counter is known
to one row only, wherever it is known: in the column, in a request between
reserve and save, in a payload that was sent. A reservation is the only step
that makes a new owner, and the counter it takes is fresh. `CancelIsFinal`
follows from `Shape`, since a submit that could still write the row holds its
lock. `Counted` ties each sent payload to the attempts of its row or to the
claim in progress. `OneReplica` is an assumption of the last two theorems, and
with two they are false (`exec_double`). `LoopExclusive` says that at most one
request is between awaits, which makes read, reserve and save of a nonce atomic;
with `RowNonce` every payload sent for a row then carries the row's nonce.
`ChainShape`: a mined payload of a wallet is below its next nonce, and one
payload at most is mined at each. Two mined payloads of a decision share wallet
and nonce, so they are one.

**Refinement.** That every recorded attempt has a token of its own is no local
fact: tokens are overwritten, expire, and are burned by requests that die before
they record anything. Inductive is a budget: the attempts recorded, the submits
under way and the outstanding token never exceed the tokens issued. With it each
step of `Execution` maps to a step of `Decision` or to a stutter.

**After the broadcast.** The tick and the requests of a replica share its event
loop. `TodoShape`, `PolledShape` and `FoundShape` say what a tick knows between
its awaits: rows it has still to poll are as it loaded them, a receipt between
the two reads is that of the row's hash, and what it is going to write is still
true of the row. They are preserved because only a row that is `stuck` is
written by a request (`LockShape`: it holds the row's lock), and a worker never
holds such a row; because a block only adds to the chain; and because a request
that has to claim and a worker that has to commit do not coexist
(`LoopExclusive`). `RowShape`, a row whose `stuck_at` is not set has its first
hash, then gives `ReplacedOnce`: the divergence about `stuck_at` is what keeps a
row from being replaced twice.

**Audit.** `SeenIsAnchored`: a worker that goes on to record its batch has seen
its root on the chain, as its own submission or as what it found there when the
submission's fate was unknown; and without a reorganisation the contract only
adds roots (`RootsKept`), so what it marks is covered. Types come first
(`TypeInv`: rows that a session loaded exist when it flushes). With one worker
(`OneWorker`; with two it is false) the records of the batch under way are
unmarked and its batch id is newer than every marked one (`BatchUnmarked`,
`IdFresh`): so the mark makes the batch exactly the siblings of its id, and an
upsert, of a retry or after a crash, never touches a row that marks refer to.
`MarksStandHolds`, which no run states, follows from the first of the two: a
marked record is never moved to another batch, reorganisations included. With two
workers it is, by the one that loaded it before the other marked it.

**Screening.** `StageInv` says which signals exist at which stage, and that a
row of the ledger is what its request decided. An approval passed the rules of
`Evaluate`, so the anomaly that was obtained is below the policy's threshold;
`Decide` has compared the confidence with `Threshold`. A critical risk
leaves a confidence of at most 30, which a threshold above 30 does not let pass.
`FirstContactHolds` needs that known counterparties only grow. `LimitsHold`: what
a request read of the day is at least what was approved before it was sent, since
the ledger only grows and a sum of natural numbers grows with its set. The sum is
the community modules' fold, a recursion over finite sets; see below.

**Policies.** That one row is active is no invariant when updates overlap. One
is that a row of the newest version is active (`NewestIsActive`): an update
deactivates only the row it has numbered its own after. As long as nothing
overlapped, the base of an update about to publish is the active row, so what it
carries over is what was given (`StandInv`).

**Rate limit.** A conserved quantity: what was spent in the window plus what is
left in the bucket grows no faster than the clock of the last caller; and a key
that has expired had refilled by then (`BucketSized`). A promise is kept because
refusals do not draw.

**Escalation.** Only a decision writes `approved` (`SweepCommit` writes
`rejected`, and a session that leaves a status out leaves it as it was), a
session that decides holds the approval it was asked about, and what was decided
stays decided. What both tables say together is another matter: a session leaves
out a status it has loaded already, so it must be the row's still. It is as long
as nobody else has written: while an approval is pending and uncontested its
transaction is `escalated`, and no session has read it otherwise
(`UntouchedIsEscalated`), so that the first session to write writes both rows.
Whoever writes afterwards makes the approval contested. `UncontestedAgree` is
kept by everything else, as the execution service only moves an approved row on.

**Policy engine.** The rules are ordered by what they decide, so the first that
applies is the harshest (`EvaluateIs`). A step of `PolicyTightening` keeps every
rule that applies (`StepIsTighter`, rule by rule and input by input), and where
more rules apply the decision is not milder.

**SDK.** An answer that approves has a committed approval of its own attempt
(`ApprovalIsCommitted`), so what a call signs on is its own row. The converse needs
more: an attempt is screened and answered once (`AnsweredOnce`), the answer to a
screened one is its row's unless it is mangled (`AnswersAreTrue`), and an attempt
that the call has gone beyond, or that is still on its way when the call is over,
is one it gave up on or whose answer was mangled (`BehindIsKnown`,
`OutlivedIsKnown`). `MovesOn` proves once, for all ways in which a call leaves its
wait without a signature, that the invariant survives.

**Breaker.** The state of the breaker is a function of the log of outcomes: the
count is the length of the run of failures the log begins with (`CountsTheRun`),
and once that run is full the cooldown counts from its latest (`OpenSinceLast`).

**Outbox.** An escalation that may be sent without a new fault was delivered at
most as often as faults have hidden it (`HiddenByFaults`). With one worker an
escalation is in one place: due in the table, claimed, being sent or being
marked (`OneAtATime`). With two workers both may claim it, and it is false.

**Baseline, score, simulator.** A screening ends with a profile recent enough for
its transaction (`EndsUpToDate`), profiles only get newer, and each counts all
that was committed before its reading (`ReadingsComplete`). The score grows with
each of its factors: a quotient `w*d \div (s+d)`, rounded down, grows with `d`
(`SquashedGrows`, by cross-multiplication, and `OutlierGrows`, `SpikeGrows` on top),
also where the spike's deviation is negative. A process runs only for a
simulation under way or one whose wait was cut, and only a process that runs
listens (`OwnedByRunning`).

**Merkle trees.** Two facts about trees over any number of leaves. A proof
recomputes the root (`ProofRecomputesRoot`): after k steps the digest is the
leaf's ancestor on level k, since a node hashed with its sibling is its parent
(`ParentOf`), padding included. And a root tells its leaves, given their number
(`RootTellsLeaves`): equal parents have equal children (`ParentsTellLevel`), level
by level from the root down. Their number has to be given: the last leaf,
duplicated as a leaf of its own, gives the same root. Then about the order of the
rows: a row's rank is the number of rows before it, ranks are a bijection
(`InOrderIs`, by counting), and the first k rows are in the order of their own
set (`PrefixInOrder`), which is why the gateway, that only knows the marks,
rebuilds the tree the worker built. `TreesInv` says so of every batch: its root
is that of the rows that carry its id. Rows written later are in no batch, and a
new batch takes only rows that were in none.

**Induction over data.** The library states induction with an operator as a
parameter, which the provers do not instantiate. What the proofs here use
instead is `Least`: a nonempty set of natural numbers has a least element, from
the library's theorem that `<` is well founded. A set is first-order, so
induction on n is `Inductive` applied to the set of the n for which the
statement holds. The same way a recursive function is shown to exist, by
partial solutions up to n (`RunsExist`, for all three recursions of the trees;
`SumExists`, along the cardinality, for sums). keccak256 without collisions is
an assumption of the model (a digest is the pair of what it digests), not of a
proof.

Only model-checked: the liveness properties (`ReorgIsFlagged`, `OldIsFlagged`,
`NothingLost`, `Resolves`, `EveryoneIsTold`, `CallsEnd`, `Recovers`), which under
fairness need ENABLED and are out of the prover's reach; and the properties that
the violation runs refute.

## Not modelled

- *I/O, lookups and views*: API keys, authentication, metrics, the search of
  audit records, the MCP protocol, the dashboard, channels other than the
  webhook, schema migrations, Helm. They keep no state of their own, or none that
  another actor races for.
- *`PolicyRegistry`*: no service calls it. *Ownership and upgrades* of
  `AuditAnchor` are the administrator's and change nothing the service relies on.
- *The price oracle and the cross-check of a read against a second RPC
  provider*: in the models a call is answered or fails.
- *Missing from the repository*: the incident model and its outbox
  (`transactions.py` and the notification worker import them). Halting and
  resuming are in `Screening` without incidents.
- *The composition*: see [Plan](#plan).
- *Abstracted*: signatures, hashes, addresses and amounts beyond equality and
  order, the wording of reasons and prompts, one chain per wallet, a Redis that
  keeps its data (but for expiry), one agent per `Screening`, `Baseline` and
  `PolicyVersions` instance. The SDK's mapping of transactions to requests is left
  out: `client.ts` reads amounts as numbers, which lose precision above 2^53, and
  the Python signer drops the chain id and the nonce of what it was given.
