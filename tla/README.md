# Formal models of TenkaCloud Challenge

This directory keeps TLA+ models of the programs in this repository that carry
state: the *Crypto Battle* reducer with the page it is played on, the *Forensic
Casebook* reducer with its panel and practice adapter, and the StackStack runtime
with its ten scenarios. TLC checks small instances; TLAPS proves most of the
invariants for every value of the constants. `PROJECT.json` maps every definition
to the lines it models, and lists the hazards the properties are for.

Paths below are relative to the repository's `src/` unless they start with a
module name; `game/` means `battles/crypto-battle/game/src/`, `scenarios/` means
`runtimes/stackstack/app/scenarios/`.

## 1. Inventory

### Crypto Battle

One match is one value, `CryptoBattleState`, read and rewritten as a whole by
`validateOp`, `applyOp` and `tick` (`game/reducer.ts`). The platform serialises
the calls: the concurrency is *which* call comes next, and how late the clock is.

| part | state | operations | what is hard |
|---|---|---|---|
| Match clock (`reducer.ts` tick…, `match-length.ts`, `booster.ts`, `lightning.ts`) | `nowMs`, `startedAtMs`, `phase`, `nextContractAtMs`, `contracts`, `issuedOrderCount`, the end in force, `endgameBooster`, `endgameLightning` | `tick`, START, READY, the platform's report of the end | the host polls when it likes; the end moves both ways while orders and cards hold copies of it |
| Order answers (`reducer.ts`, `hints.ts`, `fhe.ts`, `mpc.ts`, `evolution.ts`) | `contracts`, `score`, `publicLedger`, `completedContractIds` | leak, the calculating methods, the interactive proof, hints, `declare-lightning`, rotate | an order closes for one of many reasons, and a card, a price or an opponent depends on which |
| Duels and predictions (`rps.ts`, `rps-hunt.ts`, `commitment.ts`, `hunt-budget.ts`, `hunt-key.ts`) | `contracts[].rps`, `huntAttempts`, `publicLedger` | rps-commit, rps-open, hunt-rps, hunt, rotate, expiry | two teams, third parties and the clock race; a refund must find the row of a generation that has been retired |
| Other HUNTs and their records (`hunt-success.ts`, `hunt-log.ts`, `hunt-time-slots.ts`, `integer-slots.ts`) | packed logs and guards | hunt-sudoku, hunt-cipher, hunt-rotor, hunt-rsa | once-only rewards and chronological order survive a dense encoding |
| Score item (`score-steal.ts`) | `scoreSteal` | offer, claim, use | moves points between teams, once per victim |
| Stored row (`ledger-codec.ts`, `migrateState`) | the row itself | encode, decode, migrate | a match of an earlier version goes on as it was promised |
| Teaching cryptography (`shamir.ts`, `sudoku.ts`, `ladder.ts`, `rotor.ts`, `rsa.ts`, `fhe.ts`, `mpc.ts`, `curriculum.ts`, `fixtures.ts`) | none | derivation of keys, the plan of Orders, what an answer publishes | what is public gives a key away at the threshold and not before |
| Replay and score reasons (`replay.ts`, `score-reasons.ts`) | none | the time line and key moments of a debrief | it is put together from what the row still holds |
| Portal and hosts (`battles/crypto-battle/portal`, `dev`) | browser state, rehearsal clock | polls, moves, the tabs of a proof, the ageing page | late and overlapping answers; what is shown between two of them |

### Forensic Casebook

`battles/forensic-casebook/game/index.ts` keeps, per team, a revision, progress,
hints, a score and the newest 64 receipts. `portal/StatusPanel.tsx` sends
operations that carry the revision they were composed for, repeats one whose
answer was lost, and polls. `dev/server.ts` is the practice adapter, `dev/app.tsx`
the page with the practice reset. The members of a team share the revision, so
panels race; requests, answers and polls are lost, late and repeated; a reset
replaces the run under them.

### StackStack

`runtimes/stackstack/app/server.mjs` is the one server of ten problems; the
environment of a container names its scenario, which is imported at boot. Handlers
run to their end without yielding, but checkpoints and probes ask *this* server over
HTTP and decide when it has answered: other requests, edits and restarts come between.

| scenario | state | what is hard |
|---|---|---|
| the board (`server.mjs`, `config.mjs`, `overrides.mjs`, `board.mjs`), `onboarding` | mounted file, override in `/tmp`, posts, settings | a refused setting is written first and taken back afterwards |
| `first-request` | what was told, faults | a body in pieces, an answer that must be given once |
| `ship` | releases, key generation | a copy of a key grows old; a check credits what it asked earlier |
| `secrets` | keys, manifest, journal of bounded length | an old run speaks for the job of now |
| `vibe-build` | child process, calls, queue of measurements | a measurement shares its child with visitors and keeps the stamp it began under |
| `observability` | relay, log, settings and their epoch | posts that leave the board before they are relayed |
| `recover` | policy, probes, incidents, ledger of restarts | four requests of a probe, anything in between |
| `defend` | rounds of the drill, drafts, budgets | a round judged against what was counted before it asked |
| `safe-exposure` | access document, drafts | three surfaces asked one at a time |
| `gameday` | facts of seven imported scenarios, phases, error budget | a tick that awaits; one rotation, whose answer may be lost |

### The rest

The microservice battle (`coordination/router.ts`: two assignments), the security
battle (a deliberately weak API), the labs under `challenges/` (exercises, several of
them broken on purpose), catalogue validation scripts and cloud templates. The
components list of `PROJECT.json` has one row for each, with the reason where it
is not modelled.

### What makes the parts correct

* A player's result depends on the moves and the instants at which they were
  made, never on how often the host polled.
* An order ends once, for one reason, and everything that refers to it (card,
  opponent's order, prediction, score) learns of that end in the same step.
* Nobody is asked for an answer that can no longer be given, and nobody waits
  for ever for an opponent.
* Attempts, points and operations are counted exactly once, through retries,
  evictions, refunds, rotations, resets and upgrades of a stored row.
* What a page tells a player is true, and does not go back.
* A green gate, a receipt and a sign-off are true of the system as it is, not only of
  what a probe met on its way.

## 2. Modules

```
MatchClock ── OrderBelt ── MatchView ── MCOrderBelt          run Belt
DuelHunt ── MCDuelHunt                                      runs DuelPlay DuelPool DuelSealDoc
ScoreItem, HuntRecords ── MCScoreItem                       run ItemRace
CasebookPromise ◁ Casebook ── MCCasebook ◇ PracticeReset    run CasebookRuns
PracticeReset                                               run ResetRetryDoc
MovePanel ── MCMovePanel                                    run PanelLateDoc
MovePanel, WitnessTabs ── MCPages ◇ StoredRow (OldRows),
             PublicRecord (Sudoku, SampleKeys), HiddenSums,
             Debrief, HuntSlots                             run Pages
Shipyard ── MCStackBuild ◇ OpsKeys, VibeBuild, SearchGates,
             StackBoard, FirstRequest                       runs StackBuild StackGateDoc
GameDay ── MCStackWatch ◇ Relay, Recover, Defend,
             SafeExposure                                   run StackWatch
```

(`──` EXTENDS, `◇` INSTANCEs, `◁` is implemented by. Each `…Proofs` module extends the
module it is about, see section 4.)

A module that INSTANCEs others composes *alternatives*: a container loads one
scenario, and a page, a stored row and a debrief share no state with one another, so
a behaviour chooses its part in its first state and runs the steps of that part
only. A property of such a part is guarded by its name (`scenario = "secrets" => …`).

**MatchClock** — the pure part of the crypto battle: `Tick`, `Advance`,
`TickEvent`, `TickAtTime`, the issue of slots and duels, the endgame awards, the
reported end. Every operator maps a match to a match, as the reducer's functions
do; the whole match is one record `m`. What the seed derives (task, rush, jitter
of each arrival) is an entry of the constant `Seeds`, two sequences that start over where a
match outlasts them: the model explores chosen seeds instead of computing HMACs, and the
proofs take any. The set `m.orders` stands for the list
`contracts`; an order's id is its team and number.

**OrderBelt** — the behaviours: `Ready`, `Start`, `TickAt`, and one action per
operation on an order. Whether an answer is right is a choice of the environment
(`Solve` or a miss), never arithmetic. Every operation ends with
`SettleLightning`, as `applyOp` does. `closed` is a history variable.

**MatchView** — a page of that match (`projectForTeam`), taken at some instant and aged
by the browser until it is looked at or a move names what it shows.

**DuelHunt** — duels in full detail: who sealed what, what the judge holds, what
is public, who predicted what against which key generation, and the attempt
budget shared with ordinary HUNTs. It abstracts what MatchClock details: the
belt's other orders are a fee `RotateFees`, slots that a full belt skips are a
choice in `TickSome`, and every instant is one step because the reducer replays
every one. A seal is kept as its logarithm, `Seal(hand, r)`; two hands collide
only as they do in the group of order `Q`. `judged` is a history variable.

**HuntRecords**, **HuntSlots** — the HUNTs that succeed once for each pair, with their
log and guards through rotations and the upgrade of an old row; and how a row of the
log packs one number per team into the shortest of several forms. `won` is a history.
HuntRecords reads a row as what it unpacks to: a time and a rank per team (`Rows`); a log
is read by the place of each of its cells in the order of time, rank and position
(`Decoded`), which is what a stable sort of them gives. What an older version stored is a
constant, and `StoredAssumption` says what such a log is: no success twice, none of a time
to come. It is loaded before anyone rotates.

**ScoreItem** — the item that moves points: offered instead of an ordinary order,
claimed, used. It abstracts the belt to a choice of teams with a slot and every
other move to `Play`; it visits every instant. `own` is a history variable: what a
team's own moves and penalties added up to.

**StoredRow**, **OldRows** — a match that a deployment hands to the present version: the
ledger codec, the budget rows and every repair an entry point makes; OldRows holds
what earlier versions left. `posted`, `spentOn`, `given`… are histories in the form of
no version.

**PublicRecord**, **Sudoku**, **SampleKeys** — what the posts of one team give away. The
keys that still fit the record are computed by enumeration and compared with what
the code claims of it (`exposed`, when a HUNT is let in). **HiddenSums** — the FHE and
MPC Orders: every view of the public figures is equally likely under every input.

**Debrief** — `buildReplay` and `keyMoments` against a history of the match.

**MovePanel** — the page a player answers on: overlapping polls, one move at a time,
what is typed, pinned and claimed. The browser's clock differs from the host's by an offset that
cancels. **WitnessTabs** — the tabs in which a team has an interactive proof open.

**Casebook** — one team: reducer, adapter, wire and panels. A request is an
operation on `wire`; the adapter handles it at any later time, so losing an answer
(`Fail`) and a request that arrives late are the same freedom. A digest is the
operation itself (the code compares digests of canonical content). `log` is a
history variable. **CasebookPromise** is what a team may rely on: a solved
question pays once, hints open in order, a new run starts over.
**PracticeReset** — pages of one seat that confirm and repeat a reset, and the
server's receipts.

**SearchGates** — what the five gates of vibe-build ask of the participant's search. A
function is its deviations from the rules R1 to R9 (`Slips`, and `Shortcuts` that guess
what a gate looks at): a list of likely ones, for there is no end to wrong functions. A gate
lays entries of its own, sends its requests and judges the answers, while the importer
rotates its lots and people post, a pair of words that a gate asks for included. What the
gates certify is said of inputs, `Asked` and `Unasked`, not of the list.

**Shipyard**, **OpsKeys**, **VibeBuild**, **StackBoard**, **FirstRequest**, **GameDay**, **Relay**,
**Recover**, **Defend**, **SafeExposure** — the scenarios of StackStack. A handler that runs
to its end is one action; a checkpoint or probe that asks over HTTP is one action to
begin, one for each answer and one to decide. A policy, manifest or document is a
member of a small set of those that the gates tell apart.

### How names correspond

Operators and actions carry the name of the function they model where TLA+
allows it (`PairTeams` is split into `RingAt` and `OpponentIn`); `MutX` next to
`X` is a plausible bug of `X`, used only to show that a property can fail.
`None` is an absent field. Times are units of the event clock, not
milliseconds: the code compares and adds instants, nothing depends on the size
of the unit.

## 3. What the runs check

| run | instance | shows |
|---|---|---|
| `Belt` | 2 teams of which one plays; one of three parts: every end an order and its card can come to, a bell that is moved, a page of the match | `TicksSound`: an additional tick before any later one changes nothing the later one leaves, and the endgame comes once, at the boundary fixed at START; `OrdersSound`: deadlines are those of the present end, no order is answered twice, its card and its twin stand and fall with it, the bell leaves nothing open; `ViewSound`: what a page shows at any age is true; `BeltForward`: what it shows is what is paid, and the end is final |
| `DuelPlay` | 2 duels that lapse together, hands 1–3, group of order 3 | `PairAgrees`, `SealsFinal`, and that every duel ends (`DuelsEnd`) |
| `DuelPool` | 3 duels, 1 attempt, a rotating target, a third team that predicts both sides | `ReservationsExact`, `AttemptsHonoured`, `PendingSealed`, `CancelledFree` |
| `ItemRace` | 3 teams, offers from 1, deadline 2 later, end 5; 6 HUNTs, 3 old states, 2 upgrades | `ItemSafe`, `ScoreExplained`, `LapsedForGood`; `HuntsSound`: paid once, budgets exact, breaches told, and the log replays every success in its order, through upgrades |
| `CasebookRuns` | 1 panel and a member by hand, window of one receipt, 2 runs; 2 pages that reset | `OperationsOnce`, `ScoreEarned`, `KeepsPromise` (refinement), `VerdictHonest`, `ViewForward`; `ResetsSound`, `LostAnswerRecovered` |
| `Pages` | one of seven parts | `PanelSound`, `PanelForward`; `ProofsSound`; `RowsSound`: a match of an earlier version goes on as promised, a row of the HUNT log of up to 5 slots reads back what was packed, and a debrief tells what happened; `KeysSound`: what is posted gives a key away at the threshold and not before, and hidden sums say nothing of their inputs |
| `StackBuild` | one of five scenarios, or the gates of vibe-build over each function with at most two deviations | `ShipSafe`, `DeployKeepsServing`, `OpsSafe`, `VibeSafe`, `BoardSafe` (with first-request); `GradingSound`: a gate's verdict is the function's, whatever is posted and rotated meanwhile, but for a post with the words of `drafts_withheld`; green everywhere is being right on inputs of the kinds the probes send and says nothing of thirteen others; no gate is implied by another |
| `StackWatch` | one of the five others | `DaySafe`, `RelaySafe`, `RecoverSafe`, `DefendSafe`, `ExposureSafe` (with what the gates do and do not certify of the reads) |
| `DuelSealDoc`, `ResetRetryDoc`, `StackGateDoc`, `PanelLateDoc` | as above | findings, below |

A property is a conjunction of named parts where several belong together; the parts
have their own comments in the modules.

### Bounds, and why they are enough

* **Belt.** `Ttl = 5 > Interval = 3` lets two deliveries overlap, so a queue of
  `MaxOpen = 2` fills up; `RushTtl = 3` separates the two lifetimes;
  `Retained = 1` batch makes pruning happen inside the match; `DuelEvery = 2`
  brings several duels into it. Reports 10 and 13 are on both sides of the configured
  length, and shorten a match into an open order's time. The page's part, whose constants the
  configuration holds, ends at 7 and has a cooldown of 3; the two others are instances in
  `MCOrderBelt`.
  `MaxSkip = 1` visits every instant (3 in the part whose end moves); that a longer pause loses nothing is what
  `PollingImmaterial` says of every reachable match and every later instant.
  Elsewhere `Cooldown = 9` makes one card and one rotation a match. `LastStart` and `Horizon` end
  the exploration; the match ends before the horizon.
* **Duels.** Three duels are the fewest with evidence from two openings and a
  prediction about the third. `MaxGen = 2` retires one generation. Group order
  3 (11 in the code) still has every hand collide under another blinding. `MatchEnd`
  cuts the last duel, so two lapse in one step.
* **Item and HUNTs.** Three teams are the fewest in which one item can be stranded. With
  end 5 an order that lapses leaves an instant in which a second offer could be made;
  scores of 0 to 3 with a loot of 2 (10) make whole, partial and empty takings. Old states
  put the three repairs of a log to use, twice.
* **Casebook and reset.** A window of one receipt (64; 100 for resets) makes eviction
  happen after two operations; `MaxIds`, `MaxSends` and `MaxReads` bound what panels
  compose, send and have open; `MaxRuns = 2` lets a request of the first run arrive in
  the second. Two pages, four runs, four confirmations, three broken connections.
* **Pages.** One page with two polls, a move and two Orders, one of them a duel that its
  deadline completes. Two tabs; the secrets, draws and challenges of a proof are samples
  from all of the group of order 11, with 0 and the last element. Old rows of two teams
  with one post more and two ticks after the last old order. A record over the field of 5
  with threshold 2 of 3 (the code: 3 of 5), two generations and three posts: the
  enumeration of the keys that still fit is exhaustive for Caesar, the rotors and the
  shares; `Texts` are samples. Sums over the field of 3 and every mask of it. A debrief
  of two teams, three moves, reports 2 and 4 and at least 3 units left at START, so that
  each phase has an instant of its own. A digit of one bit (6) makes every text of a packed row
  long, so that each form is the shortest of some row.
* **StackStack.** Three deployments and two versions leave a release with an old copy; a
  journal of 3 lines (300) drops one; two visitors and two waiting calls (8) fill the map
  of calls; of measurements one (3) is under way and the next is refused - in
  `StackGateDoc` two, and for any bound in the proof of `VibeSafe`; two probes are the fewest with a save in between; two saves leave a source
  and come back to it; three posts (200) overflow the board; one slot, one fault kept, one
  byte of body more than allowed. A drill window of 3 (20) keeps drafts that are minted
  every second round; a page of 3 (10) in the gates, two slips of a function, one rotation of
  the lots and one post while they are measured; two probes at a time in recover, two edits, one ledger entry; one
  edit of the portal between its three surfaces, and one draft of a member besides the four,
  of either tenant, private or shared. Gameday: three probes of which one is
  dropped, a hold of one tick, `DarkShare` 3, time up to 3 and two charged ticks.
* **Symmetry** is over polls, tabs, visitors or teams that no definition tells apart.

### Environment and fairness

* The platform never reports an end that has passed (`match-length.ts:32-35` says
  that the reducer relies on it), hence the guard of `TickAt`; a report the code rejects may come at
  any time. `PollingImmaterial` asks in addition that the new end lies after the
  earlier tick: a host that had seen an end come and go cannot move it.
* `DuelsEnd` assumes `WF_vars(TickSome)`: the platform ticks a running match.
  No player is assumed to do anything.
* `ResetRetryDoc` assumes `Persistent`: the server handles what reaches it and the
  player keeps pressing the button. Without those the property would fail for
  the wrong reason.
* Nothing else is a liveness property: a match ends because time is bounded, and a
  participant of StackStack owes nobody a step.
* Deadlock is checked in `Belt`, where the clock never stops offering a
  step. Duels stop at `MatchEnd`, the others when the bounds are used
  up, so `CHECK_DEADLOCK FALSE` there.

### Findings

* `DuelSealDoc`: `commitment.ts:6` says hands are opened only once both
  commitments are on the board; `rps.ts:37-40` takes an opening before. Nothing is
  *published* early (`PairAgrees` holds).
* `ResetRetryDoc`: two pages on one seat; after the other page's reset, the
  confirmation kept by this page is refused for ever (`dev/app.tsx:30-43`).
* `StackGateDoc`: a measurement keeps the stamp of the source it began under while its
  requests run whatever is saved next (`vibe-build.mjs:1200-1217`); the starter's stamp
  comes back when a save is discarded, with a gate measured on another source. For a
  *saved* source the comment is right, and that is proved (`VibeIsSafe`).
* `PanelLateDoc`: a late poll is told by the host's clock alone (`FastMovePanel.tsx:1163`);
  one served at the same reading as a move replaces the answer to the move.

Smaller disagreements met while reading, without a run: the casebook's README
counts twelve evidence files and says `stateSchemaVersion: 1` while
`game/index.ts:26` says 2; the comment of `pruneTerminalOrders` names
`completedContractIds` as the double-submit guard, but
`validateOrderSubmission` does not read it: what keeps a pruned order from being
answered is that it is gone and that numbers are never reused (`OrdersSound`).
A retry whose receipt has left the window is refused although it was carried
out; `VerdictHonest` states that exception. A panel accepts a late projection of
an *earlier* run (`StatusPanel.tsx:97`); `ViewForward` is stated within a run.
`gameday.mjs:666` says every phase after Join has both kinds of facts, which not every
phase has; `gameday.mjs:924-928` says the store is never two versions on, which a rotation
by the participant between the read and the request makes it; after a failed tick the
hold of `gameday.mjs` around 1085 goes on from its old start. `recover.mjs:734-738` calls
a verdict that of the present policy although an edit there and back during the probe
leaves it (`GatesTrue` excepts it). `fixtures.ts:296` counts six slots where the rotation has five.
The hints of `vibe-build.mjs:1497-1507` name the errors `query_required` and
`query_too_long`; the requirements and the gate ask for `q_required` and `q_too_long`
(the deviation `otherName` fails).

Two places where green says less than one might read into it; both are in the properties:

* *vibe-build.* No probe sends what tells a regular expression from a substring, a word from
  a part of one, or an entry in capitals from another (R5: the terms are hex tags and two
  words with a hyphen); a query with blanks around a term (R2, R3); ids of different lengths
  (R7); `&` or `'` on the page, or the term of a search that has hits (R9); a term found in
  an author's name; another field beside `query` and `matches`. `GreenMeansNoMore` checks
  that for each of these kinds (`Unasked`) all five gates pass a function that is wrong on
  it. The other way round a right function fails `drafts_withheld` if a post has the pair of
  words it draws (`vibe-build.mjs:693-698`); `VerdictOfFunction` states that exception.
* *safe-exposure.* The probes ask as sre-anzu and mika-hoshino; pm-kenji is asked for one
  draft of their own. A rule with `subject:pm-kenji` or `subject:sre-anzu` may therefore let
  pm-kenji read more, or less, than intended under five green gates. `ReadsRight` excepts
  exactly that (`Singled`): without such a rule no document can tell the two apart. What a
  member reads of their own shared drafts, what a caller without a key reads of shared ones,
  and what the administrator reads through the members' routes is not probed either.

## 4. What is proved

TLAPS checks eight modules. Their theorems hold for every roster, schedule, group,
price, window, policy and bound that satisfies the named assumptions of the modules
(`RosterAssumption`, `PaceAssumption`, `SeedsAssumption`, `QuestionAssumption`, `PanelBounds`,
`PageBounds`, `StackBounds`, `WatchBounds`, `HuntBounds`, `StoredAssumption`, …), which TLC evaluates in every run. The
assumptions say of what kind a constant is (a natural number, a finite set, a value
that is not `None`), and where the code fixes a constant, what it fixes.

**SumTheorems** — what several proofs need. The library states induction with
an operator as a parameter, which the provers cannot instantiate; here it is proved
once for a *set* of naturals (`NatSteps`, from the pigeonhole principle on finite
sets), and applied to comprehensions. `FoldIsTotal` shows that the fold the models sum
with has the recursion it should, for any choice of order; `Iterates`, that a function
which applies step after step has a value at every number.

**BeltProofs** — `BeltIsSound`, `BeltIsTyped`, `EndgameIsOnTime`, `EndIsFinal`,
`ClockIsSound`, `ViewIsSound`, `PagesAreHonest`: the reducer's core and what a page shows of it,
for every roster, seed, timing, report and pause between two looks at the clock. A tick replays
all the instants it skipped, so the proof has three layers. *One batch, one lapse, one settlement*:
each part of `TickAtTime` leaves a row `Sound` (orders numbered once, open deadlines those of
the present end, the two sides of a duel open together) and cards that have not run out with
their order (`HeldUntil`). Two orders of a duel are issued together because the circle
schedule is an involution (`OpponentMutual`, a counting argument on the ring). *Repetition*:
batches that are due and instants that are replayed are recursive functions; what holds of
each step holds of all (`Iterates`, by `NatSteps`), and there are enough steps because each
arrives later than the one before (`DueArrives`, `ReplayedPoised`). *Stored rows* (`Settled`): nothing is
due, the endgame is distributed if it has come, an armed card has its order, and the phase is
`ended` exactly when the end is past; `RescheduleKeeps` moves the end, and each operation
keeps the rest. `OrderLivesOnce` needs that what is open was open or is new (`Evolves`) and that
numbers only grow. `BeltIsTyped` needs that a slot is delivered only where the belt has room
(`Roomy`) and that an armed card names a number (`Named`). `EndgameIsOnTime` needs the
invariant to say *when*: what has been distributed is past the boundary (`Timely`), a row that
was stored has no boundary behind it and undistributed (`Alive`, `Still`), and of a tick that it
distributes exactly if it reaches the boundary (`Ticked`); reports only move an end that lies
ahead. `ReplaySteps` unfolds a replay from the front: the next instant first, then the rest.
`EndIsFinal` follows since no order is open and no instant lies ahead: the
replay of a finished match is one tick that finds nothing to do.

`ClockIsSound` compares two histories, one with a tick more, so it needs a relation of two
rows and not an invariant of one. Rows are *alike* (`Like`) if they differ in their end, in
what follows from it (deadlines of open orders, the cards of those) and in closed orders that
only one side has pruned; every part of a tick that both ends lie ahead of keeps them so
(`LikeDuels` to `TickLike`). A tick that finds nothing to do prunes, and otherwise only moves
the clock: the next one absorbs it (`QuietAbsorbed`, `TickTwice`). Hence a replay that stops on
the way and goes on leads to the same row (`ReplayOn`, by induction on the time left). A
report on the way makes the second row the *image* of the first under the other end
(`RescheduleImage`, `ReplayImages`), and a row has one image under an end (`ImageUnique`), so
that both orders of tick and report store the same row.

`ViewIsSound` and `PagesAreHonest` compare a page with a match that has gone on without it. What
the page shows is true of the row it was made of; so the invariant (`ViewInv`) says of a page
only what every later row keeps of it, and adds to `Settled` what a row must say for that (`Row`):
no order is dated ahead, an open order was issued under its team's present key unless it is a
duel, and a card that was declared doubles its order as long as that is unspoilt. *The row*: what
the clock leaves (`Lets`) and what an operation edits (`Edited`) are both told to a page in the
same words (`Tells`): a key or a counter only grows, an order is the one it was or has a number
that was not given out, a card in play is not dealt again. Each operation is `Honest`: it tells
this, keeps `Row`, and an answer earns what the order or its declared card says (`Earned`). *The
page* (`PageTrue`): its cooldown ends no earlier than the team's (`VaultTrue`), its boost no
earlier than the boost or the match as it was then (`BoosterTrue`), its price of a rotation
covers the orders on it that a rotation voids, up to the score shown (`PenaltyTrue`, a counting
argument), and each order of it that is still open is the one shown, with its key and at least
the reward shown, unless an answer was wrong (`OrderTrue`). `PageStands` carries a true page
through every `Honest` step, `PageMade` says that a new one is true. That a hint costs no more
than shown is what sending the price along is for (`Asked`): a page that shows another price
than the present one is refused. The two assumptions that these proofs add, `PausesAssumption` (the
boost and the cooldown are numbers) and `ReaderAssumption` (the page is a team's), hold of
the constants in the code.

**DuelHuntProofs** — `TypeCorrect`, `BudgetHonoured`, `RefundsExact`, `PairsAgree`,
`PredictionsAreBlind`, `SealsAreFinal`, `CancelledIsFree`. `ReservationsExact` is not
inductive: a refund subtracts from a counter, and nothing in it says what the
counter *is*. `RowsExact` says that a row of the present generation is the answers
judged plus the predictions pending, and a retired row is either exact or gone; with
`PredictionsPlaced`, `AttemptsHonoured` and `FutureUnjudged` (a generation that does not
exist yet has no answers, so a rotation opens an empty row) it is inductive. `TypeOK`
needs that invariant because a refund must not go below zero. Of the duels the
invariant is the list of the stages of a duel (`StagesInv`): untouched, in play,
shown, lapsed, each with what its two Orders, seals, openings and record are; that two
sides agree is read off the stage, and each step takes a duel from one stage to the
next. `CancelledIsFree` is a statement about the fold over lapsing duels, by induction on
them (`NatSteps`).

**ScoreItemProofs** — `ItemIsSafe`, `NoSecondChance`, `ScoreIsExplained`, `HuntsAreSound`. `OncePerTeam`
becomes inductive by its second half: a team's item is spent exactly when it has gained,
so the check `held` excludes a second gain. `VictimsLast` is a counting argument on top of
it: victims and takers are equinumerous, and two holders have not taken.
`ScoreIsExplained` is a sum that grows by one term with each transfer, on both sides of
it (`SumTheorems`).

`HuntsAreSound` is about the log of HUNTs and the guards beside it, for any roster, prices,
number of attempts and stored state. *Reading*: an order by time, rank and position is total
on the cells of a log, so the number of cells before a cell is its place, and each place is
taken once (`Ranked`, a counting argument; `Reading`). *Appending*: a success of a secret
that the log does not hold takes one new cell and moves no other, although its row may get a
new base (`AppendedCells`); its rank is above every rank of its millisecond
(`NextRankIs`), so it is read last (`AppendedReads`). *Upgrading*: rows stay rows
(`CompactedWellFormed`), and a log whose order would change is kept (`KeptReads`). The
invariant (`HuntsKept`) adds to the property what it does not say of the guards: a success
without a record has its guard (`Guarded`), and a guard without a record stays until its
generation is over (`Refused`), which is why an upgrade may drop the others; and that no
attempt is of a generation to come (`Books`), so that a rotation opens an empty budget.

**CasebookProofs** — `CasebookTypes`, `OperationsAreOnce`, `ScoreIsEarned`, `PromiseKept`,
`ViewsGoForward`, `VerdictsAreHonest`. `AppliedOnce` rests on `LogPast`: whatever the log
holds of this run was composed for a revision below the present one, so a repeat is
either a known receipt or stale, however small the window. `PromiseKept` is the
refinement: every step of the reducer with its wire and panels is a step of
`CasebookPromise` or none. `ViewForward` says nothing of the projections that are still on
their way, so the invariant is over *all* that were seen: of two projections of one run
the one with the higher revision has all of the other (`SeenInOrder`). `VerdictHonest`
needs to know what a refusal means: that the receipts are the newest operations of the
run, in order, and that each request in doubt is the one its panel waits for
(`VerdictInv`).

The reset of a practice seat is proved in the same module: `ResetsAreSound`,
`LostAnswersCostNothing`, from `ResetInv`: the k-th reset ended run k, an id stands for one
confirmation, the receipts are the newest, and a page that was told had its own carried
out. An id that is carried out twice would have to name two runs.

**MovePanelProofs** — `PanelIsSound`, `CountsDown`, `PanelGoesForward`. That the page shows nothing as lapsed
too early needs that every snapshot, on its way or on show, was taken in the past
(`ClocksPast`) and that the page ages the one it shows from when it came (`Anchored`);
that it claims no completion it did not earn, that the move under way is for what was
typed (`AskHonest`). That the page turns to a completion only where the player waits needs
that the Order on show is the one that is pinned (`Follows`) and that a player who leaves
tells the move under way (`Waits`). That no move is taken back is a statement about *all*
snapshots, on show and under way: the later of two has every move of the earlier one
(`Ordered`), which a host's clock that stands still between two requests breaks: there
sits the finding `PanelLateDoc`.

Of the tabs, `ProofsAreSound`, for any number of them and any secrets and draws. That every
tab can finish the proof needs that a commitment is a power of 2 (`Committed`), that what a tab knows
is what the judge fixed (`SameProof`) and that whatever is on a screen or in a store is of the
statement's secret (`OfSecret`). That the steps on screen are right, and no other response
is, is `OneResponse`: eleven different powers (`GInjective`, by their table), and exponents
that add up and multiply modulo 11 (`GAdds`, `PowerOfG`).

**StackBuildProofs** — `ShipTypes`, `ShipIsSafe`, `DeploysKeepServing`, `OpsAreSafe`,
`VibeIsSafe`, `BoardIsSafe`. Ship: a release that stands holds a key no newer than the
store's (`Reached`). Secrets: a run that succeeded was allowed all of the job (`RunHonest`),
which is why a run of before can speak for the job of now. Vibe-build: a run is `Steady`
while its source is the one in force *and* has been throughout; a saved stamp never
comes back, the starter's does, and exactly there the finding `StackGateDoc` sits. The
board: between the writing of a setting and its being taken back the invariant says
what is on disk and what was there before (`SettingsInv`). First-request: a slot of the
inbox is free or holds a proper request (`InboxInv`), faults outnumber the list
(`FaultsInv`), and what was told was told after what it depends on (`ToldInv`).

**StackWatchProofs** — `DayTypes`, `DayIsSafe`, `DrillIsSafe`, `OutageIsTold`,
`ExposureIsSafe`, `RelayIsSafe`. Gameday: a tick that has not charged yet has one left (`Unscored`), and
the key it read when the last phase opened is older than any it asked for (`Versions`).
The drill (`DrillInv`): what the round under way can still come to, and that the rounds
since the table was tested cover a turn of the drafts (`OneTurn`, `Caught`). The outage
(`FlightsTrue`): each probe, at each of its steps, has seen what the policy of its
revision answers, unless it was edited meanwhile. The portal: that the gates are green is
unfolded group by group into what each probe asked, and carried to the other drafts and
from sre-anzu to pm-kenji by what the requirements can tell apart (`SameSight`); where a
rule names one of the two it is not carried over. The relay (`ArchiveInv`): the board is a run of ids
without a gap, so that what the relay has not looked at is its end (`UnseenAre`), and a
line of the log is of an earlier epoch or shows what the settings in force show
(`LinesOf`).

### Only model-checked

* `TicksSound` under its own name: it says of each part of the run what `BeltIsTyped` and
  `ClockIsSound` say of every instance.
* `GradingSound`: it enumerates functions and the answers they give; for all of them at once
  it says no more than for each.
* `RowsSound`, `KeysSound`: statements about enumerations of keys, about the digits of a packed
  row, and about `SelectSeq` and sorting over a ledger (induction over data).
* Liveness (`DuelsEnd`, `RetryEventuallyGrants`), which is out of this prover's reach.

## 5. Not modelled, and why

* `game/score-reasons.ts` words the reason of a change of score; the elliptic curves,
  constraint systems and other single-answer topics of the curriculum are arithmetic;
  the hash that every value is derived with is a choice of the environment.
* `prove-sudoku` is the protocol of old rows only. Refusals of malformed rows and the size
  of a row are left out, as are drafts and locale of the casebook's panel.
* The portal's board, registration, queue and waiting room are layouts of a projection;
  the rehearsal's prepared matches are data.
* Gameday imports seven scenarios and measures them: their facts are free there, and
  each scenario has a module of its own.
* Casebook fixtures are generated files; the router, the migration services, the
  security API, the labs, catalogue validation and cloud templates keep no state that a
  property could relate, or are broken on purpose.

## 6. What comes next

1. `score-reasons.ts` against a history of moves; the slot and lifetime labs.
