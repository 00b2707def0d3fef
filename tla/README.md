# Warpkeep in TLA+

This directory is a verification development kept beside the Warpkeep sources.
Warpkeep is a persistent browser strategy game: a realm lives in SpacetimeDB
modules, a Cloudflare Worker (the *auth bridge*) turns Farcaster proofs into
browser sessions, and a React client plays. The development covers the parts in
which an order of steps nobody tested would cost a player something: the
authoritative gameplay of version 0.4, its command protocol, the client that
retries over a lossy network, the two Durable Objects that decide who is signed
in and the one that notifies a player, the import of the realm's atlas, and the
ledger that lets a release be deployed outside the normal path at most once.

Contents: [inventory](#1-inventory) ·
[modules](#2-modules-and-how-they-correspond-to-the-code) ·
[runs and bounds](#3-runs) · [fairness](#4-fairness) · [proofs](#5-proofs) ·
[disagreements with the documentation](#6-disagreements-with-the-documentation) ·
[what is left out](#7-what-is-left-out) · [plan](#8-plan)

All paths are relative to the root of the repository. To check a run:
`tlc -workers 2 -config <run>.cfg <module>.tla`; to check the proofs:
`tlapm <module>.tla`.

## 1. Inventory

| component | state | operations | who calls it |
|---|---|---|---|
| **gameplay 0.4 core**, `spacetimedb/gameplay04/` | rows of one keep: revision, last accepted sequence, receipts, balances, workers with their assignment and last return, buildings, one project | initialize, dispatch, recall, build, read; reconciliation inside each of them | the procedures of the PTR module |
| **PTR adapters**, `spacetimedb/ptr/src/` | the tables that hold those rows, scheduled tables for workers and projects, the owner's anchor | procedures, one scheduled reducer, provision and suspend | browser, the platform's scheduler, an administrator |
| **PTR atlas**, `spacetimedb/ptr/src/atlas*.ts`, `scripts/ptr-production-import-core.ts` | one release with its totals, phase, cursor and running digest; the tables of its rows | stage, import components, regions and chunks, verify in batches, seal | a tool run by administrators, who may also call by hand |
| **0.4 browser controller**, `src/ptr/gameplay04/` | phase, last view, pending envelope, confirmed receipt, what it is busy with | refresh, submit, retryPending, dispose | React, a timer of five seconds |
| **PTR realm connection**, `src/ptr/*.ts(x)` | lease of 120 s, connection, capability | read, mutate, give up after 30 s, expire | the controller |
| **session families**, `services/auth-bridge/src/sessionFamily.ts` | one record per sign-in: pending or bound to an epoch, generation, grace, expiry | create, get, refresh, revoke, alarm | refresh, access-status and logout handlers of `app.ts` |
| **challenge exchange**, `challengeStore.ts`, `app.ts` | one challenge until it is claimed or expires | put, get, consume, alarm; the exchange handler | browsers that post a proof |
| **notifications**, `admissionNotifications.ts` | per player: subscriptions, one delivery with its retries, receipts, one alarm | enable, disable, queue, recover, attempt, alarm | webhooks of the host, `app.ts`, an operator |
| **rate limit**, `services/auth-bridge/src/` | a counter per bucket | — | `app.ts` |
| **release recovery**, version 2, `services/release-recovery/src/` | a control object (authorized epoch, prepared intents, what was consumed) and one object per request with a row and an alarm | prepare, arm, reserve, issue, claim, finish, reconcile | the signer worker, a GitHub job, the platform's alarms |
| **Genesis 001 module**, `spacetimedb/src/` | admissions (`allowed_fid`), founding, 0.3 workers and keeps, chat | reducers | browser, bridge, administrators |
| **Genesis 002 module** | sealed | — | — |
| **legacy client, renderers, scripts** | presentation; 0.3 subscriptions | — | — |

How they interact. A procedure of the PTR module is one database transaction:
it loads the rows of a keep, lets the core compute new ones, and stores them; an
error rolls everything back. Timers are rows of scheduled tables inserted by the
same transactions; the platform later runs the scheduled reducer for a due row
and drops the row. The controller holds one command at a time and talks to the
procedures over a connection that may answer late or never. The bridge's
handlers await Durable Objects (each runs one request at a time) and the realm's
database, and any number of handlers interleave between two awaits.

What is hard, and what correctness means there:

- **Keep.** Everything a command does is preceded by settling what became due
  (workers that are home, a project that is complete), and the same settling is
  done by reads and by timers, which may come late, twice or not at all. Correct
  means: each journey and project is settled exactly once with the terms it was
  started with; balances are the sum of what happened; no sequence of legal calls
  stores rows the code itself refuses (there is no repair procedure); what a
  client can see changes only together with the revision.
- **Command protocol.** Commands carry a sequence, a nonce and the revision their
  author saw; receipts of the last few are kept to answer retries. Correct means:
  at most once, in order, without gaps, at the quoted revision; a retry gets the
  original result.
- **Controller.** An answer may arrive after a timeout, a retry may overtake the
  original, a second device may use the same sequence. Correct means: no intent is
  executed twice, nothing is reported as executed that was not, a refused command
  stays unexecuted, an unknown outcome is resolved, and the page recovers.
- **Session family.** Several tabs refresh with the same cookie, replies get lost,
  the admission changes between two awaits. Correct means: one successor per
  generation, no token for an admission that ended before the request, logout is
  final.
- **Challenge.** The same proof is posted twice, every upstream call may fail after
  the claim, time passes meanwhile. Correct means: one proof signs in once, is not
  lost by a failure upstream that tells the player to try again (only by one of the
  challenge's own object), and does not sign in after its expiry.

- **Atlas.** The tool plans from a status it read, submits, and may lose the call,
  be stopped, or run twice with different builds. Correct means: verification takes
  in each row exactly once, nothing is sealed but one approved build, and the
  import reaches its end whenever nothing foreign was stored.
- **Notifications.** Subscriptions, the player's request and the configuration
  change while a delivery awaits the network; an answer may be lost; the object may be
  evicted between its transaction and its alarm. Correct means: a notice goes to one
  live token, nothing is sent after its receipt, and nothing is kept for ever.
- **Release recovery.** Two objects are written by calls that read first, hash, and
  write under a comparison of revisions, by workers deployed with different
  configurations, while the job, the alarm and crashes interleave. Correct means: an
  authorized epoch deploys at most once and only what was prepared for it, a row
  always has the alarm it needs, and a recorded outcome is what happened.

The hazards this amounts to, at their source lines and with the properties that
cover each, are listed in `PROJECT.json`.

## 2. Modules and how they correspond to the code

```
 Policy04 ── Journey04 ──┬── JourneyWalk04 (reference)   CommandLog04 (abstract)
                         │                                  ▲ refinement
             Commands04 ─┼── Gameplay04 ────────────────────┘
                         └── Session04
 SessionFamily    ChallengeExchange    AdmissionNotification      (auth bridge)
 AtlasImport      RecoveryLedger                                  (releases)

 *Proofs: Gameplay04 (with Policy04, Journey04 and CommandLog04), JourneyWalk04, Session04,
 SessionFamily, ChallengeExchange, AdmissionNotification, AtlasImport, RecoveryLedger
 MC*: the instances TLC checks
```

**Policy04** (`policy.ts`): cost, duration, yield and travel of given levels, and
`Credit`, the capped addition. The tables of the game are constants.

**Journey04** (`workerJourney.ts`): a journey is the record of its dispatch terms;
`Phase`, `Earned`, `NextDueAt` and `Complete` are derived from it and the clock,
as `observeJourney04` derives them; `RecallJourney` is `recallJourney04`;
`JourneyValid` and `Observable` are what the code checks before it trusts a row.

**JourneyWalk04** is the reference the closed formulas are held against: a worker
that really walks edge by edge and gathers unit by unit.

**Commands04** (`commands.ts`): `Preflight` (`preflightSequence04`) classifies a
command as replay, fresh or one of the refusals; `WithReceipt` stores a receipt
and prunes the oldest.

**CommandLog04** is the abstract specification of a keep as seen by its commands:
one log, numbered without gaps, each entry accepted at the revision it quoted.

**Gameplay04** (`workers.ts`, `keep.ts`, `construction.ts`, `reconciliation.ts` and
the PTR adapters): `db` holds all rows of one keep; revision 0 is no keep.

| action | code |
|---|---|
| `Initialize`, `DispatchWorker`, `RecallWorker`, `StartBuilding` | the four procedures: validate, `Fresh` (sequence, quote), `Reconcile`, act, `Committed`; a refused command is a stuttering step because the transaction rolls back |
| `GetKeep` | `getGameplay04KeepV1`: settle, advance the revision if anything changed, store |
| `RunWorkerWakeup`, `RunProjectWakeup` | `runGameplay04ScheduleV1` for a due row; the row is dropped even if the reducer does nothing |
| `LoseWakeup` | a scheduled row that is dropped without a run that succeeded |
| `ProvisionOwner`, `SuspendOwner` | the owner reducers; suspension has no inverse |
| `Tick` | time |

`Reconcile` follows the order of the code: the project first (a completed building
raises levels), then the workers, in the order of their ordinals, each credited
into what the one before it left (`Accumulated`). `accepted`, `returned` and `lost`
are history variables that no guard reads (`lost` only bounds `LoseWakeup`).

**Session04** (`createGameplay04Controller.ts`, `ptrRealmConnection.ts`): sessions of
one player against a keep reduced to its command protocol. `calls[s]` is what was
sent and not run yet, `answer[s]` what is on its way back to the awaited call.
A call may be run after it was given up; its answer is then dropped
(`awaitGameplayInvocation`). `Deliver` and `Timeout` run the continuation of
`readAuthoritative` or `sendPending` up to its next await. `told` is a history of
what controllers concluded. SpacetimeDB procedures of one connection need not be
run in the order they were sent; sessions in the constant `Ordered` have calls
that are.

**SessionFamily** (`sessionFamily.ts` and three handlers of `app.ts`): one family, the
admission row it follows, one browser with a cookie jar and several requests. Each
step of a handler lies between two awaits: `Send`, `GetFamily`, `ResolveAdmission`,
`StampRefresh`, `Refresh` or `Revoke`, `Reply`. `Transition` is
`transitionSessionFamily`. `overlap` remembers whether two requests ever ran at once,
which is what makes `OneBehindAtMost` a statement about a browser with one tab.

**ChallengeExchange** (`challengeStore.ts` and the exchange handler): one challenge, any
number of posts of its proof; one action per await of the handler, each with all
of its failures. `HasClaim` is not a variable of the code: it says that a handler
is between its successful `consume` and either a restore or its end. A post ends
"refused" before it had the challenge, "unavailable" (the player is told to try again),
"spent" or "succeeded"; `trouble` remembers what failed. A call to the object itself may
fail after it has taken the challenge out, or before it has put it back: the history
variable `lost` records that, and nothing else sets it.

**AdmissionNotification** (`admissionNotifications.ts`): the object of one player.
`rows` are its two records, written together; `work` is the operation that runs
(the object serializes them). `EnableToken` and `DisableApp` are the webhooks,
`QueueAdmission` the bridge's call, `RecoverAdmission` and `RepeatRecovery` an
operator's. A delivery is `AttemptDelivery`, `VerifyRequest` (the realm is asked
whether the request still waits), `SendOne` to the host and `StoreOutcome`, each up to
the next await; `Schedule` is the `setAlarm` after the transaction, `HandleAlarm` the
alarm. `Crash` evicts the object at any await, `Deploy` changes the kill switch or the
configuration.

**AtlasImport** (`atlasImportReducers.ts`, `atlasAuthority.ts` and the tool in `scripts/`):
each reducer (`StageRelease`, `ImportComponents`, `ImportRegions`, `ImportChunk`,
`BeginVerification`, `VerifyBatch`, `FinalizeRelease`) is a function of the database
that returns it unchanged when the reducer throws or the work is done; `Execute`
applies one that is under way. A batch of components, a chunk, or a batch of verification
is taken as a whole or not at all. A component that is stored already, or named twice
in one batch, is passed over when it is the same row; a different row under its key, a
row whose ordinal or identity is taken, a chunk whose handle is taken, a row or a
component that verification does not find, or a resource that does not follow the one
before it (`ResourceFollows`) refuses all of it. The tool is `Start`, `Recheck`, `Submit`, `Compare`.
`LoseCall`, `CallByHand` and `ProvisionOwner` are its environment. A digest is the
sequence of what went into it, so that equal digests mean equal contents in order.

**RecoveryLedger** (`ledgerDurableObjectV2.ts`, `ledgerV2.ts`, and the signer's calls):
a method of an object is two steps, because the code reads a row, hashes it, and
writes it under a comparison of revisions: `Load`, then the action. Only a row
without a reservation needs no hash (`Plain`), so `ReadStatus` of it is one step.
`Reconcile` tries again after a write that lost, with the time it began with.

| actions | code |
|---|---|
| `ReservePreparation`, `FinalizePreparation`, `HandOutReceipt` | the preparation of an epoch, by a worker deployed disabled; a receipt is signed between the first two |
| `StartIssue`, `ReadStatus`, `InstallArming`, `AuthorizeReserve`, `ReserveIssue`, `AuthorizeFinalize`, `FinalizeIssue`, `ReadAgain` | issuing: the control enables the epoch, the request's row goes from nothing to `issuing` to `issued` |
| `StartClaim`, `AuthorizeRead`, `ReadRetained`, `AuthorizeClaim`, `Claim` | the one claim of an issued authorization; its expiry is looked at when the call begins, and again by each method, at the time read after the control was asked |
| `Finish`, `Complete`, `Reconcile` | the outcome as the job proves it |
| `Ring`, `RunAlarm`, `LookForEvidence`, `SettleByAlarm`, `Crash` | the alarm of a request's object; it looks at GitHub when a claim was never finished |
| `StartDeployStep`, `Deployed`, `EndJob` | the deployment job on GitHub, external |
| `SignStatus`, `Abandon`, `Tick` | a status call; a call that fails anywhere; time |

Operators whose comment starts with *Mutant:* are plausible wrong versions of the
definition that follows them. They are used by nothing; substituting one makes
the property named in `PROJECT.json` fail, which shows that the property can.

## 3. Runs

| run | instance | what it shows |
|---|---|---|
| `walk` | routes of 0–3 edges, the speeds and yields of two levels, four durations (one of them shorter than the way and two not a multiple of the quantum), dispatch at 0 or 1, time to 20 | formulas equal the walk for every recall instant, including dispatch, arrival and stop |
| `journeys` | 2 workers, 1 location with 2 nodes one edge away, cap 1, 4 commands, time to 8, one lost timer, suspension allowed | conservation, every journey once, stored state never refused, suspension freezes |
| `keep` | 1 worker, one location, 1 building that is economy building, barracks and cathedral, 5 commands, time to 10, one lost timer | captured terms, levels by project, revision pins the view; work ends by timers alone and by polling alone |
| `retries` | 2 nonces, 1 retained receipt, 5 sequences, time to 4 | refinement of `CommandLog04` |
| `sessions` | 2 sessions (one with ordered calls), 2 intents, 2 faults, 2 calls in flight each, 1 receipt | at most once per intent, honest reports, pending commands resolve, pages recover |
| `tabs` | 2 concurrent requests, lifetime 3, grace 1, 3 generations, 2 epochs, time 3, 1 lost reply | one successor, epoch held, only forward, record valid, never two generations behind without overlap |
| `mismatch` | as `tabs`, shorter | fails: see section 6 |
| `exchange` | 3 posts, expiry 2, time to 3 | one claim, a failure upstream never costs the challenge, sessions confirmed in time |
| `release` | 1 request, 1 call, 1 epoch, time to 6, 1 crash | the row is loadable, has its alarm, moves on, tells the truth |
| `epochs` | 2 requests, 2 calls with any configuration, 2 epochs, no time | one claim per epoch, prepared once |
| `notices` | 1 client, 2 tokens, 1 request, 1 recovery, 2 attempts, time to 4, 1 deployment, 1 crash | one live target, receipts win, nothing stays |
| `atlas` | 2 copies of the tool with batches of 2 and 3, 2 builds, 1 call under way, 1 lost, 1 by hand | verified once, only an approved build is ready, the import ends |

Why the bounds are enough. A journey to a location one edge away takes 2 units
out, 1 or 2 to gather and 2 back, so 8 units hold a whole journey, a late
settlement and the dispatch of a second one, or two workers that come home in one
reconciliation; a cap of 1 makes crediting overflow; two workers and two nodes
fill a location. In `keep` a journey earns what two buildings cost: the worker is home
at 5, a building takes from 5 to 7, and the worker sent out again at 5 is out until 10, so
that the building completes meanwhile, before or after a recall, and a second project
could be paid for if the builder were not busy. Suspension is part of `journeys`.
One retained receipt makes pruning happen at the second command, so that a retry can
come while its receipt is kept and after it is gone. Two sessions are what is
needed for a competing sequence; two faults allow a timeout of the first send and
of its retry. Two requests are enough for every pair of interleaved handlers, and
the properties of `tabs` relate pairs; a third generation makes a presented
generation older than the previous one. Three posts let one restore the challenge
while two wait.

The ledger has two runs because its hazards are of two kinds. `release` is about
one request and time: an authorization of 2 and a claim window of 2 fit into 6 units
with the alarm's retry before and after each deadline, and one crash is enough to
separate a row from its alarm. `epochs` is about who may write what: two calls hold
snapshots of the control while both epochs and both requests are armed and prepared
in every order; no deadline matters there, so its clock stands still. In `notices` two
tokens of one client make a subscription replace another while a delivery is under
way, two attempts give a retry after a lost answer, and 4 units exceed the life of a
delivery (2) and of a subscription (3). In `atlas` the two builds have one
public name and the same rows and differ in one chunk's detail, so that only digests tell
them apart; batches of 2 and 3 cut the tables at different places; and one call under way next to the other copy, stopped just before its submission, gives every
overtaking of one call by another.

Deadlock is checked in `walk`, `retries`, `release` and `epochs`, where something is
always possible (resting, reading the keep, a status call); the other systems may really
stop (a suspended owner, pages that were closed, a session that was revoked, a
challenge that is used up, a player without rows, a release that is ready).

The bounds that exist only for TLC are named in the modules (`BOUND` in the comment
of the constant): `MaxSequence`, `MaxLost`, `MaxIntents`, `MaxRevision`, `MaxFaults`,
`MaxQueue`, `MaxEpoch`, `MaxTime`, `MaxCrashes`, `MaxDeploys`, `MaxRequest`, `LastIssue`,
`LastCall`, `MaxFlight`, `MaxManual`, and `Kinds`, which selects the calls of the signer.
In `Gameplay04`, `MaxTime` is also a limit of the code (the largest timestamp), so actions
refuse what it would exceed.

## 4. Fairness

- `Gameplay04`: `FairSpec` makes time pass. `Timers` (weak fairness of running a due
  timer) is the platform's promise to run scheduled reducers; `TimersFinish` assumes it,
  claims nothing once a timer was lost, and needs no player. `Polling` (weak fairness of
  `GetKeep`) is an open page that refreshes every five seconds
  (`useGameplay04Controller.ts:32`); `PollingBringsHome` assumes only that and holds with
  lost timers. No command is ever assumed. The two are hypotheses of the
  properties and not part of the specification, so that each property names the
  one mechanism it relies on.
- `Session04`: calls that were sent are run and answered, the page polls (weak
  fairness), and the player presses retry again and again when it can be pressed.
  The last is strong fairness because every poll makes the button unavailable
  for a while; it is an assumption about the player, and without it an unknown
  outcome rightly stays unknown, since the controller never retries by itself.
- `RecoveryLedger`: the clock runs, and the platform rings a due alarm and runs its
  handler to the end (Durable Objects repeat an alarm whose handler failed).
  Nothing is assumed of the signer's calls, the operator, or the job: `RowsMoveOn`
  says that a row is settled when nobody is ever heard of again.
- `AdmissionNotification`: the running operation ends (`Work`), a due alarm is handled, and
  time passes. Time is strongly fair, because it passes only between operations and
  while the network is awaited, and calls may come again and again meanwhile.
- `AtlasImport`: the tool's copies take their steps, and are started again, until the
  release is ready; a call that was submitted is carried out or lost after a finite
  time. `ImportGetsReady` makes no claim once a row of another build was stored
  (`Foreign`): no reducer removes it.
- `SessionFamily` and `ChallengeExchange` have no liveness property: all of their waiting is
  bounded by deadlines and alarms.

## 5. Proofs

TLAPS checks, for all values of the constants that satisfy the named assumptions:

- `Gameplay04Proofs`, first the facts about policy and journeys: `CreditSound` (cap and
  conservation of one credit), `NextDueInFuture` and `WakeupStaysRight` (a timer set for
  the next due time is in the future and stays right until it is due), `RecallSound`. They
  rest on the order of dispatch, arrival, stop and return (`JourneyTimes`).
- `Gameplay04Proofs`, the keep: `TypeCorrect`, `CommandLogImplemented`, `CommandsInOrderAlways`. Every
  action is shown to store well-typed rows and to be a step of the log or a
  stutter. The invariant is `TypeOK` and *nothing exists at revision 0*: without the
  second conjunct a timer could advance a keep that has not been created, which the
  log does not allow. The facts the operators need about workers away from home
  (`AwaySound`) are not part of the invariant: the code validates the stored rows
  before it uses them, and the guards give exactly that. `CommandsInOrderAlways` then
  follows from the refinement and a theorem about the abstract log (`LogCorrect`): its
  inductive invariant adds the type of the log, since the new entry's sequence and
  revision exceed all earlier ones only because those are bounded by the counters.
  `RevisionPinsViewAlways` and `SuspensionFreezesAlways` need nothing more.
- `Gameplay04Proofs`, journeys: `EveryJourneyAccountedAlways`, `CapturedTermsAlways`. A
  transaction does one of three things to a worker: keeps it, brings it home or sends
  it out. The invariant says that the outcomes of a worker are numbered up to its
  assignment revision without the one it is still on, and that its last return is
  among them; each of the three preserves it. Since a recall may bring a worker home
  in a second reconciliation, bringing home is shown to compose (`SettlesTwice`).
- `Gameplay04Proofs`, stored state: `NeverRefusedAlways`, `LevelsByProjectAlways`. The invariant is
  the stored-state validation itself at the current time, with two additions: the
  receipts are those of the last sequences without a gap (or there might be no single
  oldest one to delete), and before the keep exists nothing of it does. Commands and
  reconciliations restore validity at the time they run; between them only time passes
  and timers are used up or lost: `TickValid` rests on `WakeupStaysRight`, and
  `FewerWakeups` says that a missing timer is always valid.
- `Gameplay04Proofs`, balances: `ConservationAlways`. The invariant (`MoneyInv`) adds to
  the stored-state validity that every balance is the sum of the credits of the journeys
  that ended less the costs of the accepted builds, and that the history holds outcomes
  and builds of the keep only. The steps are `Accumulated`, one worker after another
  (`WorkersPaid`), a reconciliation, which may credit several workers at once
  (`ReconcilePaid`), and a recall, which may reconcile twice (`RecalledPaid`). A journey
  is paid once because its outcome was not in the history before (`NotYetHome`, from
  `EveryJourneyAccounted`). The sums of `Conservation` are folds over sets in an order
  that CHOOSE fixes; that adding a member adds its value whatever the order is
  (`SumTake`, `TotalAdd`) is proved by a smallest counterexample among the subsets of a
  finite set (`Smallest`), which needs no induction principle with an operator parameter.
- `JourneyWalk04Proofs`: `FormulasFollowWalkAlways`, for every valid journey. The
  invariant says, for each part of the way, where the walk is at an instant in terms of
  dispatch, arrival, stop and return (`WalkInv`); a step of time (`TickStep`) is split by
  whether one of these is reached, and a recall (`RecallStep`) turns around or stays on
  its way back. The formulas are equal to that at every instant (`InvFollows`).
- `ChallengeExchangeProofs`: `OneClaimAlways`, `NeverForgotten` and `SessionsConfirmedAlways`
  for any number of posts. The first two are inductive together with the types; the
  argument is that three kinds of step matter (working on, claiming, putting back),
  each a lemma about where the challenge moves. For the third the invariant ties the
  stored family of a post to its phase: it is live only while the post confirms it
  and after it succeeded.
- `RecoveryLedgerProofs`: `LedgerCorrect` (the inductive invariant), `OneClaimPerEpochAlways`,
  `PreparedOnceAlways`, for any number of requests, calls and epochs. Neither property
  is inductive: a call holds configurations and rows it read long ago. The argument
  has three links. The control enables an epoch only above the largest one ever
  consumed, so the history `armed` names at most one request per epoch and is never
  overwritten. A row enters an epoch only through a call whose configuration the
  control had accepted, so every row's epoch is armed for that row's request. And no
  event of a row, even one computed from a stale read, changes its epoch. Two claimed
  rows of one epoch are then the same request. For the preparation the invariant adds
  what a call that will hand out a receipt has in its hands. `LedgerInv` was first
  checked by TLC on the instances of `epochs` and `release`.
- `RecoveryLedgerProofs`, the second argument: `TypeCorrect`, `AlarmScheduledAlways`,
  `OutcomeIsTrueAlways`, over the larger invariant `SoundInv`. Calls and the alarm handler
  act on rows they read earlier, so the invariant says what a row in somebody's hands has
  to do with the stored one (`Later`): it is never ahead of it, is the stored one when
  the revisions are equal, and an alarm set for its deadline is not too late for the
  stored one either. An alarm is missing only while its handler runs. What somebody
  brings as evidence of the job was true when it was found and stays true, because the
  stages it speaks of are final (`Shown`).
- `SessionFamilyProofs`: `TypeCorrect`, `OneSuccessorAlways`, `EpochWasHeldAlways`,
  `OnlyForwardAlways`, for any number of concurrent requests. The invariant ties the
  record to the history (`rotations` has one entry per superseded generation, and the
  grace ends no later than the last rotation allows) and every request to the admission
  (what it resolved as enabled is among the epochs enabled since it was sent).
  `Refresh` is analysed once: the successor record either rotates or keeps the
  generation within its grace (`Succeeds`).
- `SessionFamilyProofs`, `OneBehindAlways`, for a browser that makes one request at a time.
  The property alone is not inductive, for a refresh could present anything. `BehindInv`
  adds that a request presents what is still in the jar and that a reply carries the
  current generation or nothing (`Shows`), as long as no other request is under way.
- `Session04Proofs`: `TypeCorrect`, `OncePerIntentAlways`, `ConfirmedIsDoneAlways`,
  `RefusedIsNeverAlways`, `ReadyIsCurrentAlways`, for any number of sessions, calls under
  way, timeouts and retries. None of the five is inductive: what a controller concludes
  depends on copies of its command that are still on their way. `SessionInv` says where a
  command can come from (`OwnerOK`: an intent has one envelope, which one session carries,
  in its controller or in its calls, and what was executed under its intent is that
  envelope), what the keep has executed (`LogOK`: as many commands as the accepted
  sequence says, each at the revision it quoted), what an answer on its way still says of
  the keep when it is taken (`Fits`), and that once the awaited call of an ordered
  session is answered none of its calls is left to run (`QueueOK`). The last gives
  `RefusedIsNever`; `TypeCorrect` contains that no answer is ever older than what the
  controller has shown. `SessionInv` was first checked by TLC on the instance of
  `sessions`.
- `AdmissionNotificationProofs`: `TypeCorrect`, `ReceiptsWinAlways`, `OneTargetAlways`,
  `OneLiveTargetAlways`, for any number of apps, tokens, requests, webhooks, attempts and
  evictions. The argument has two levels. Each operation on rows, and each composition of
  them that an action makes, keeps the rows sound (`RowOK`: what the object accepts when
  it loads them, and tokens that are not both subscribed and revoked) and *follows* the
  rows it started from (`Follows`): receipts only grow, a token that is given up leaves
  a tombstone, and a delivery that goes on keeps the token of its attempt or is over.
  Over that, `NoticeInv` says what an attempt that is under way relies on (`UnderWay`): its
  delivery is neither delivered nor exhausted without a recovery, its token is still
  subscribed, and it is the attempt that is stored, unless it belongs to a recovery. A
  delivery without an attempt has nobody to go to, or is over (`Aimed`); without this
  conjunct a delivery could be sent to one token and, after its attempt was dropped, be
  given another. The part of `OneLiveTarget` about tokens taken back is proved as long as
  the tombstones have room for every token (`Cardinality(Token) <= MaxRevoked`): the code
  forgets the oldest when its list is full (`withRevokedTokenIds`), and a late copy of its
  webhook would then subscribe it again. `NoticeInv` was first checked by TLC.

- `AtlasImportProofs`: `ReadyIsApprovedAlways`, for any builds, sizes of batches, copies of
  the tool, calls by hand and losses. The property is not inductive: that the sealed
  tables are those of one build is decided much earlier, when the verification begins. The
  invariant (`DbInv`) says that while a release is imported its digest is its first line
  and the chunks that are stored, in order, and that the stored cells, slots and resources
  are those of these chunks; an equal digest then gives back the components, the chunks
  and the regions (`ShaCancel`). From there on only the phases of the components move: a
  batch, which may be refused as a whole, changes no component's row (`Follows`), and in
  the last phase every component before the cursor is complete (`Progress`). A batch is a
  fold over its rows; `BatchKeeps` follows it through by a smallest counterexample among
  the sets of places, as above. What the tool plans is one of the calls the reducers know
  (`PlanIsCall`), whatever it reads. `Inv` was first checked by TLC on the instance of
  `atlas`.
- `AtlasImportProofs`: `VerifiedOnceAlways`, for the same parameters: wherever the
  verification has stopped, the digest of the release, the counts of its regions and the
  digest of every component are those of the rows before the cursor, each taken in once and
  in order. The property speaks of two states of the release only; `FollowInv` adds what
  the import must have left for it to begin and go on:
  - the keys of the components differ (`KeysDiffer`), and so do the ordinals and the
    identities of the rows of a kind (`RowsDiffer`), so that `RowAt` is one row and as many
    rows as the total are exactly those with the ordinals below it;
  - while a release is absent or importing, a component's digest is its key (`Fresh`),
    the cursor and the counts are zero;
  - from the beginning of the verification on, the property, and a cursor that is within
    its table (`Followed`).

  The argument goes from small to large. `FlattenNext` and `LongerList` say how the lines of the
  finished phases grow by those of one more, `InOrderNext` that the rows of a set in the order
  of their ordinals grow at the end by a row that comes after all of them. One row, one chunk or one
  component then takes the digests and counts at a cursor to those at the next
  (`RowGood`, `ChunkGood`, `ComponentGood`), a batch does so for each of its initial segments
  (`BatchGood`), and the values at the end of a phase are those at the start of the next
  (`DigestOver`, `CountsOver`, `ComponentOver`). What the digests are computed from does not
  move meanwhile (`SameTables`). Each reducer keeps `FollowInv`
  (`RunFollows`), whoever calls it. `FollowInv` was first checked by TLC on the instance
  of `atlas`.

Only model-checked: liveness (`TimersFinish`, `PollingBringsHome`, `PendingResolves`,
`PlayerCanAct`, `RowsMoveOn`, `NothingStays`, `ImportGetsReady`), which is out of the
prover's reach. Every other property that a passing run checks is stated by a theorem.

Assumptions: `PolicyAssumption`, `JourneyAssumption`, `CommandAssumption` and
`GameplayAssumption` state the shape of the game's tables (costs and durations are
natural numbers, durations positive, travel positive, up to four workers);
`NoneAssumption` (of Gameplay04 and of AdmissionNotification) that the value for *no
row* is not a row;
`WalkAssumption` that the walk starts from journeys as `dispatchJourney04` makes them (valid and
not recalled);
`SessionAssumption` that the bounds are natural numbers;
`AtlasAssumption` that all builds name the same regions, that components, chunks and the
rows of a chunk are lists, that a component has a key, and that batches are not empty;
`ExchangeAssumption` that the expiry is a positive time; `SessionFamilyAssumption` that
durations and bounds are natural numbers; `NotificationAssumption` the same, that the
apps are finitely many, that a token belongs to one of them and that there is a delay to
retry after; `LedgerAssumption` that no request or
call is the value that stands for none, that no request is a call, that an authorization
outlives the reservation it comes from, and that it ends before the claim's deadline does (900 s,
`protocol.ts:498` and `ledgerDurableObjectV2.ts:595`, against 1200 s, `ledgerV2.ts:31`). TLC evaluates all of them.

## 6. Disagreements with the documentation

- `mismatch`. `services/auth-bridge/README.md:352-354`: a bound family revokes when its
  admission becomes missing or disabled or its epoch no longer matches. It also
  revokes when it matches: a refresh that resolved the admission as *missing* just
  before the player was admitted arrives after another tab's refresh has bound the
  family. The player, admitted a moment ago, is signed out. Nothing unsafe
  happens; a retry of the resolution would avoid it.

Observed, without a run of its own:

- `RefusedIsNever` is stated for sessions whose calls are run in order. For others TLC
  finds a retry that is refused (the keep has moved on, or a worker is busy) and
  dropped by the controller while the first copy of the command, sent before, has yet
  to run and can still be accepted if its quote is current at that moment. And
  `RECEIPT_EXPIRED` is shown as a refusal although the command was possibly executed;
  the property leaves it out.
- `services/auth-bridge/README.md:330-332`: *only an explicitly retryable verifier outage,
  Maincloud failure, or signing failure may restore the same still-live challenge*.
  The handler also restores it when storing the session family fails (`app.ts:2793`).
  `OneClaim` and `SessionsConfirmed` show the consequence to be harmless: one attempt
  at a time still has the challenge, and a family that was stored although the call
  failed is one nobody holds a cookie for.
- `services/auth-bridge/README.md:493-495`: *Once selected, a request's transport target is
  immutable*. It is for one delivery (`OneLiveTarget`); but the kill switch, an expiry or a
  cancellation drops the delivery without a receipt, and queueing the request again
  selects anew, and a recovery whose token became invalid is given the token of a later
  enable.
- `scripts/greater-realm-production-import-core.ts:1386-1387` says that a stale operator can
  never submit a plan derived from an earlier state. Time passes between its recheck
  and its submission, so it can; the reducers refuse or ignore what such a plan
  asks for, which is what `VerifiedOnce` and `ReadyIsApproved` check.

## 7. What is left out

- Data that no property tells apart: names, layouts, route geometry beyond its
  length, the four resources (runs use one, proofs any number), wording of errors.
- Building placement: a build names one of the sites its code would accept.
- In the keep the atlas is active with a fixed revision. A procedure that finds no
  login or no atlas fails without effect (`RunFails`). The owner reducers also check
  that the tables of a PTR population are empty (`requirePtrPopulationEmpty`); no reducer
  fills them, and the check is left out.
- Connection, lease and reconnect: the end of a lease ends the session (`Dispose`);
  a new one starts with nothing, as in the code.
- In the family: foreign origins (refused before anything is read), untagged
  pending families of an older version, and the last second of a family, in which
  a cookie can no longer be issued.
- In the exchange: the comparison of the proof with the challenge is one choice
  (fits or is refused), and a proof that was refused is not told apart further.
  `NotForgotten` excepts what the code documents as best effort: a call to the
  challenge's own object that fails while the challenge is out of it
  (`restoreRetryableChallenge`) loses it, and the player has to ask for a new one.
- In the ledger: the contents of tokens and evidence (a proof is right or wrong); the
  observation services, version 1 and the archive. A second signature of one receipt
  differs from the first (ES256 is randomized), so finalizing it again is refused.
  Reading the status of an armed row and the installation of the arming are one step
  each, since armed rows need no hash. The code reconciles three times at most after
  writes that lost; here a call tries as often as its row moves.
  The job on GitHub is external: it deploys only with a receipt that is still valid.
- In notifications: deliveries in the form from before requests existed, the record of
  diagnostics, and several clients (the runs have one, the module any number). Two
  consequences of the code are in the model and exempt from properties: an enable
  that arrives after the disable that followed it subscribes again, and a crash inside
  the alarm handler, after a delivery was cleared and before the next alarm is set, loses
  the alarm that would clean up (the exemption in `NothingStays`).
- In the atlas import: digests and cross checks inside a payload (geometry, hydrology,
  sections, the locations that resources share), which make a payload right or wrong as a whole; more than one kind of
  resource; the timestamp of a chunk in the verification digest (the tool takes that
  digest from the status); audit rows, the operation limit and its receipts; reads.
- Not modelled at all: the rate limit, Genesis 001 gameplay and founding, Genesis 002,
  the legacy client, renderers and scripts; each has its reason in `PROJECT.json`. By
  lines these last are most of the repository: presentation, asset pipelines and
  observers, which hold no protocol state. The development covers the protocols, and
  its share of all lines is accordingly small.

## 8. Plan

Done: Policy04 and Journey04 with their reference; Commands04 and the abstract log;
Gameplay04 with its runs and proofs of all of its safety properties;
Session04, SessionFamily, ChallengeExchange, RecoveryLedger, AdmissionNotification
and AtlasImport with proofs of all of their safety properties.

Next, models:

1. `Placement04`: footprints, rotation and overlap against a reference that
   enumerates cells; then `Site` of Gameplay04 becomes what it accepts.
2. `RealmLease`: login, the 120-second lease and reconnects around Session04.
3. `RateLimit`, and the Genesis 001 worker authority.

Next, proofs: those of the models above. Of the present ones only liveness is left to
TLC, because the provers cannot reason about fairness here.
