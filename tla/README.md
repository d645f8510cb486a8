# Verification of the gold-rush client and its stub server

This directory holds a TLA+ development about the program in `src/`: a C++
client of the HighLoad Cup 2021 contest (`src/app/src/lib`) and the Python stub
of the contest server it is run against (`src/stubserver`). It models the parts
that carry the program's logic, checks them with TLC on small instances and
proves the main invariants with TLAPS, for all values of the constants.

Paths below are relative to `src/app/src/lib/` unless they start with
`stubserver` or `go`; `world.py` is `stubserver/openapi_server/models/world.py`.

## 1. The system and its parts

| Part | Code | State | Operations | Module |
|---|---|---|---|---|
| Request pool | `api.h`, `api.cpp` | `requests_` (multiset by priority), `responses_` (queue), `stopped_`, two mutexes, two condition variables, worker threads | `scheduleRequest`, `getAvailableResponse`, `threadLoop`, `publishResponse`, `~Api` | `Api`, `RequestPool` |
| Digging, licences, coins | `app.cpp`, `state.h` | licence slots, delayed digs, treasures left per cell, coins | `processIssueLicenseResponse`, `processDigResponse`, `processCashResponse`, `schedule...` | `GoldRush`, `TreasureLife` |
| Exploration | `api_entities.h` (`ExploreArea`), `state.cpp`, `app.cpp`, `const.h` | tree of areas with counters, ordered queue of areas, calls under way | `processExploreResponse`, `processExploredArea`, `createSubAreas`, `fetchNextExploreArea` | `ExploreTree`, `SubAreas`, `Hunt` |
| Stub server | `world.py`, controllers, models, `__main__.py` | treasure map, depth map, cached counts, registers of dug and of unavailable treasures, active licences, coins, statistics | `explore`, `dig`, `cash`, `issue_license`, the reports, the alarm that ends the process | `World`, `Stub` |
| HTTP client | `http_client.cpp` | curl handle, buffers | one method per endpoint | outcomes (answered, timed out, broken off), in `Api` and `GoldRush` |
| JSON, number formatting | `json.cpp`, `util.h` | none | conversions | not modelled |
| Rate limiter | `rate_limiter.h`, `rate_limiter.cpp` | the requests of the last second, their total cost, a mutex | `acquire` | `RateLimiter` (the client does not use it at this commit: `api.cpp:58`, `app.h:22` are commented out) |
| Statistics | `stats.h`, `stats.cpp` | counters, printing thread and its flag, shared ownership | record, print, `~Stats` | `Stats` (the request counter and the end of the program) |
| Offline tools | `go/` | — | cost simulation, charts | not part of the running system |

**How they interact.** One main thread (`App::run`) takes a response from the
pool, runs its handler to the end and loops; handlers change `State` and hand
new requests to the pool. `kApiThreadCount` workers take the most urgent
request, perform it over HTTP, and publish the response. A transfer that times
out comes back as an error response, and `run()` schedules the same request
again; other curl errors, and handler errors, end the run: the main thread
destroys the pool, workers finish the call they are in, and what is still queued
or answered is dropped. The server answers each call in one step (gevent
greenlets, no handler blocks); only the alarm signal comes between two
statements of a handler.

**What is hard.** Worker threads and condition variables, with a stop flag
written outside the lock. Answers in any order, since the pool is concurrent.
Retries of calls that are not idempotent. Licence numbers that the server
reuses. Two cached counts of the same thing (client and server) that have to
agree. A `std::set` ordered by a key that changes. An exploration that asks for
all parts of an area but one and deduces the last. The list, line by line, is
under `hazards` in `PROJECT.json`.

**What makes each part correct.**

* Pool: each request is performed once at a time, in order of urgency; nothing
  queued or answered is slept upon; every request is delivered.
* Digging: no call is refused for good; each treasure is dug, counted and
  cashed once; a slot has a licence or one is on its way, as long as the server
  gives no two licences one number; no dig is delayed while a licence is free;
  a coin is spent once.
* Exploration: the queue stays ordered and complete; what is deduced is true
  up to the error of the number of treasures the client starts from; each cell
  is handed over once, all but one with their true counts.
* Server: explore answers from the map; value is conserved; licences and coins
  are honoured; the books of its reports balance, even in a report printed in
  the middle of a request; no well-formed body is an internal error.
* Client as a whole: what the exploration tells the digging stays true while
  digs change it, and what the digging does never spoils an explore answer.
* Rate limiter: no second sees too much cost, and nobody sleeps for nothing.
* Statistics: a request is counted in one tick at most; the object goes last,
  in the main thread, and the program ends.

## 2. Modules

| Module | What it is | Lines of code it stands for |
|---|---|---|
| `RequestPool` | abstract pool: where each request is | the interface of `Api` |
| `Api` | the pool with its threads, locks and condition variables | `api.cpp`, `api.h`, `App::run` |
| `ApiProofs` | theorems about `Api` | |
| `World` | the stub server | `world.py` |
| `WorldProofs` | theorems about `World` | |
| `Stub` | the server as a process: bodies, statistics, reports, the alarm (extends `World`) | `world.py`, `area.py`, `dig.py`, `util.py`, `default_controller.py`, `__main__.py` |
| `DataTheorems` | lemmas about sums, bags and sequences that the proofs share | |
| `TreasureLife` | abstract: what becomes of each treasure, and what a fault or the end of the run may cost | the promise of `GoldRush` |
| `GoldRush` | the client's handlers composed with `World` (`Server == INSTANCE World`) | `app.cpp`, `state.h` |
| `GoldRushProofs` | the inductive invariant of `GoldRush` and what follows from it | |
| `GoldRushLife` | `GoldRush` implements `TreasureLife`, and what follows from that; the slots of the client | |
| `SubAreas` | the cut of an area, as pure operators | `App::createSubAreas`, `kExploreAreas` |
| `ExploreTree` | the exploration, over `SubAreas` | `api_entities.h`, `state.cpp`, `app.cpp` |
| `ExploreProofs` | the invariants of `ExploreTree`, and of the walk of `MCSubAreas` down a table | |
| `Hunt` | `GoldRush` and `ExploreTree` against one server | `app.cpp`, `world.py` |
| `RateLimiter` | the limiter with its clock | `rate_limiter.cpp` |
| `RateLimiterProofs` | theorems about `RateLimiter` | |
| `Stats` | the printing thread, the workers and main, to the end of the program | `stats.cpp`, `app.h`, `api.cpp` |
| `StatsProofs` | theorems about `Stats` | |
| `MC...` | instances for TLC | |

`PROJECT.json` maps each definition to the lines it stands for. Definitions
whose comment says `mutant:` are wrong versions of the definition that follows
them; they are used by no specification and serve to show that each property
can fail.

### Api and RequestPool

A worker's `pc` follows `threadLoop`: `acquire` (waits for `requestsMu_`),
`locked` (tests the predicate of the wait), `blocking` (tested, found nothing,
not yet in the wait set), `asleep`, `ready` (left the wait), `performing`,
`notify` (response published, main thread not yet notified), `exited`. The
section around the wait is split because the destructor writes `stopped_` and
calls `notify_all` without the mutex; every other critical section is one step.
The main thread's `mainPc` follows `run()`: `handling`, `notifying`, `retry`,
`waiting`, `asleep`, `stopping`, `notifyAll`, `joining`, `done`. Handlers are
abstracted to "schedule any requests not scheduled yet, then return or fail".
The multiset is a sequence in iteration order; `InsertSorted` says where
`multiset::insert` puts an element. Condition variables may wake spuriously.
The counters of requests in flight feed only statistics and are left out.

`RequestPool` has one variable, `place`: each request goes client → queued →
performing → answered → client, at most one per worker is performed, and none
starts before a more urgent one that waits. `Api` implements it under
`place <- [r |-> PlaceOf(r)]`.

### World

One action per endpoint that changes state; `...Status` is the HTTP status of
the first check that fails. A licence is `[used, allowed]`; a treasure is named
by the place it came from, where the code draws a fresh uuid; a map is chosen
among `TreasureMaps`, where the code draws one at random; the draw that makes a
first exchange fail is a free choice, and so is the size of a big licence
(20..29, 40..49). The time until the next free licence is a flag that `Tick`
clears. `Next` lets any client make any call, good or bad.

### Stub

`World` is the server once a request has been decoded; `Stub` is the process
around it. A body is a function from the names of the fields it gives to
numbers, so a field can be missing. connexion compares it with its schema and
answers 400 (external: modelled from `openapi.yaml`); then
`util.deserialize_model` runs the setters of the model for the fields that are
there, and a `ValueError` there, like a sum with a size left at `None`, is a
500. What passes goes to the operation of `World`.

`stats` is `ClientStats`. A handler is one step, but the alarm is a signal:
`kill_handler` runs between two statements of whatever handler is under way,
prints the reports and ends the process. So `...Counts` is, for each handler,
the sequence of changes that its statements make to the report, in their order;
`After(changes, k)` is the report when `k` of them have been executed, `Count`
makes all of them, and `Kill` prints after any number.

### GoldRush and TreasureLife

`client` is a record of what `State` holds, with the calls handed to the pool
in a bag; handlers are operators on that record, composed as the C++ functions
call each other. Calls are served and answers handled in any order, which is
what the pool allows (its priorities are in `Api`). Exploration is reduced to
`Discover` and `DiscoverBoth`: at any time one or two undiscovered cells that
have treasures are reported with their true counts, two because an explore
response can locate the cell asked for and the last one of its area; `Hunt`
shows that the exploration does this and nothing else. The slots are assumed to
be no more than the licences the server allows: both are 10 (`const.h:45`,
`world.py:12`). With `MaxFaults > 0` the answer of a call may come too
late (the server has acted, the client asks again), the rate limiter of the
stub may answer 429, or the connection may break, before or after the server
has acted (`Failed`, any other curl error). A call that timed out before the
server saw it changes nothing and is a stutter.

A handler that returns an error, and a broken connection, make the client
`stopped`: no answer is handled any more. The workers may still complete calls
(`~Api` has not told them to stop, or they are in one), and `Exit` is the end of
the pool, from when no call is made. `terminated` is an exception that leaves a
`noexcept` handler.

`TreasureLife` says what that amounts to for each treasure: `buried`, then
`cashing` (dug up, with exactly one call or answer that will exchange it) and
`gone`, or `left` because it is too shallow to be worth a call. While `run` is
`running`, a fault may leave everything as it is, or let the server do its part
with the answer lost, or lose *one* treasure. When a fault ends the run
(`Break`), the treasures whose exchange hung on an answer are lost, in any
number; calls already made may be completed (`Complete`), and with the pool
(`End`) every treasure that is dug and not exchanged is lost. `GoldRush`
implements it under `StageOf`, which reads the stage off the server's registers
and the calls and answers that can still be made or handled in the client's
`status`; a treasure with two such calls has no stage there.

The client has ten slots, and with two or more of them the server's reuse of
numbers confuses the client (finding 2). `SlotsKept` says what remains true of
any number of slots: in every behaviour in which no two licences in use ever
have one number, each slot has a licence or one is on its way for it, faults
included.

### SubAreas and ExploreTree

`SubAreas` cuts an area into strips, by rows and then by columns, of the sizes
in the table `kExploreAreas`. `ExploreTree` keeps the tree as a sequence of
nodes whose positions are the ids, and the queue as a sequence of ids in
iteration order. `Nominal` is `kTreasuriesCount`, the number of treasures the
client believes the field to hold (`app.cpp:40`), and nothing is assumed of it:
the contest's field and the stub's, which draws its treasures at random
(`world.py:193-204`), hold another number. What is deduced for a last part may
then be wrong, and below zero: the counts are unsigned, so amounts are taken
modulo `Modulus` (2^64 in the code). The expected number of treasures per cell,
a double in the code, is compared as a fraction. `processExploredArea` calls itself, through
`createSubAreas`, for an area with one part only; each call is for an area cut
by the next row of the table, so `ProcessAll` makes as many calls of `Process`
as the table has rows, and the module needs no recursive operator.

### Hunt

`Hunt` extends `GoldRush` and instantiates `ExploreTree` as `Exploring`, with
its own variables. `HandleExplore` is the whole handler of an explore response:
the tree is updated, and the cells it located, in their order, are handed to
`StartDigging`. `ServeExplore` answers an explore call from the server's counts
at that moment, so digs change answers. Its two properties are the two modules
it is made of: `DiggingSpec` (every step, seen from the digging, is a step of
`GoldRush`, whose `Discover` demands true counts of cells not yet handed over)
and `ExploringSpec` (every step, seen from the exploration, is a step of
`ExploreTree`, which assumes that answers are exact for the areas asked for,
that only cells handed over are dug, and that no area is refused). So each
module's assumption about the other is discharged. `Discover` hands over true
counts, so this is where `Nominal` has to be the number of treasures of the
field (`HuntAssumption`); with another number one cell is handed over with a
wrong count (`CountsExact`), and the digging of that cell ends early or runs
into the bottom of the field.

### RateLimiter

Time is a number of ticks. `Acquire` takes the mutex, forgets the requests more
than a second old and computes the end of the sleep; `Grant` is the end of the
sleep, which may be late; threads that wait for the mutex have no state.
`granted` is a history of what was let through, which the limiter itself
forgets.

### Stats

The workers take, perform, count and record requests (`recordEndpointStats`
waits while `printEndpointsStats` holds its mutex); the printing thread sleeps,
prints and looks at its flag; the main thread leaves `run()`, and destroys the
members of `App` in reverse order. `owners` is who holds a `shared_ptr<Stats>`;
the one that drops the last runs `~Stats`. The workers of the pool are assumed
to end when they are told to (finding 1 is about that).

## 3. Runs and what they show

| Run | Instance | Shows |
|---|---|---|
| `api_pool` | 2 workers, an explore and two digs of different depth, a queue of 2, 1 timeout, fair | types, no request in two places, no request or response slept upon, refinement of `RequestPool`, delivery of every request, end of the shutdown when no worker is caught between its test and its sleep |
| `api_shutdown` | same | *violation*: `DestructorReturns` |
| `stub` | 2 cells of 2 depths, 2 licences of 2 digs, 3 maps; bodies on both sides of every limit and with fields missing | explore tells the truth, value is conserved, licences and coins are honoured, books balance, the last report is consistent wherever the alarm comes, no well-formed body is an internal error |
| `gold_rush` | 2 cells of 3 depths, 2 maps, 2 slots, licences of 2 digs, 1 late answer, 429 or broken connection | no fatal answer without a fault, no exception with one; no delayed dig beside a free licence; client and server agree; refinement of `TreasureLife`; slots covered as long as numbers are distinct |
| `gold_rush_one` | same with 1 slot and no fault, fair | every discovered treasure is exchanged |
| `gold_rush_ids` | 2 slots, no fault | *violation*: `LicenseUsable` |
| `sub_areas` | the client's own table, field 3500 × 3 | the table is long enough, each cut is a partition |
| `explore_tree` | 4 columns of 5 cells, 6 treasures of which the client expects 4, 2 concurrent calls, 1 refusal | queue ordered and complete, sums right, counts exact up to the error of the nominal number, each cell handed over once |
| `explore_end` | same | *violation*: `AlwaysNextArea` |
| `hunt` | 2 × 2 cells of 2 depths, 2 slots, 1 explore call at a time, 1 refusal | refinement of `GoldRush` and of `ExploreTree` |
| `rate_limiter` | costs 1 and 3 of 4, a second of 2 ticks, 6 ticks | window bound, no needless sleep |
| `stats` | 2 workers, 3 requests, fair | ticks count once, `~Stats` last, the program ends |

**Bounds.** Pool: two workers are enough for a notification to reach the wrong
one, three requests over a queue of two for the queue to be full while a
request is performed; the proofs drop both bounds. `Stub`: two depths make
"next depth" differ from "first", two licences make the order in which they are
used up matter, one of the maps pays six coins so that a licence of the second
size can be bought; `MaxExplores` bounds a counter that nothing else reads. `GoldRush`: the maps need more digs than a licence has, so
that a second licence, paid or free, is needed while the last answers of the
first are under way; a map with a treasure at every depth and one with gaps.
`ExploreTree`: heights 5, 3, 2, 1 leave
shorter last strips (3 + 2, 2 + 1) and cuts of one part (2 → 2); four columns
leave two explored parts beside two unexplored ones, so that the swaps of
`updateChildExplored` have something to go wrong with, and two calls under way
at once have their answers cross; a nominal number that is too small makes
deduced amounts wrong and areas lose their last expected treasure before their
last part is known. `SubAreas`: all columns of the field are cut
alike, so three columns stand for 3500; the proofs drop these bounds. `Hunt`: two
columns of two cells are the least in which a column is asked for and the other
deduced, and one response locates two cells. `RateLimiter`: three windows, and
costs that fill a window in more than one way. `Stats`: a third request is
counted after a report that counted others.
Deadlock is checked in none: the models are of programs that end (the stub by
its alarm), or stop when all is dug or time is up. The bounds are `MaxQueue` (a
constant of the code, made small), `MaxTimeouts`, `MaxFaults`, `MaxRefused`,
`MaxRequests`, `MaxExplores` and `MaxTime`.

**Fairness.** `Api!FairSpec`: threads that can run do run (weak fairness of each
worker's step); a thread that waits for a mutex gets it if it is free again and
again (strong fairness of `Acquire` and `Reschedule`), which a futex-based mutex
gives in practice, no standard promises, and any liveness claim about the
client has to assume; the main thread leaves its handlers. Nothing
forces it to schedule, to fail, or a wake-up to be spurious.
`GoldRush!FairSpec`: *some* call is served while there are calls, *some* answer
is handled while there are answers, and time passes. No kind of call is
favoured: `AllExchanged` holds although the pool may always perform another one
first. `Stats!FairSpec`: threads run; a worker gets
`endpointStatsMutex_` if it is released again and again (strong fairness of
`Record`); nothing makes `run()` end.

## 4. What is proved

All of it without bounds on the constants.

**`ApiProofs`** (assumption `ConstantsAssumption`: types of the constants,
finitely many workers). `TypeCorrect`, `WokenWithWork`, `QueueOrdered`,
`ExactlyOnce`, `NoLostRequest`, `NoLostResponse` are `Spec => []...` for the
invariants of the run `api_pool` (`WokenWithWork` and `QueueOrdered` for two
that no run checks any more: the branch of `api.cpp:36` is dead, and the queue
is in order, which `PoolSpec` needs), and `ImplementsPool` is the refinement.
`NoRequestSleeps` is inductive only with the mutex's ownership (who is between
lock and unlock), with jobs and notifications tied to the `pc` of their thread,
and with the wake-up condition: a queued request is matched by a worker about
to look or a notification under way. The refinement needs the queue's order
(`Start` may not overtake) and that a request is in one place (`PlaceOf` is a
function of the state that changes at one request only). The lemmas on
`InsertAt`, `Append` and `Tail` give the elements of the resulting sequences.

**`DataTheorems`**. What the other proofs say about sums over finite sets, bags
and sorted insertion. `SumFunctionOnSet` of the community modules is a fold
that chooses its elements; `SumIsChosen`, `SumExists` and `SumUnique` show that
it is the sum, whatever the choice, by an induction that is a fact about sets:
a set of numbers that holds zero and the successor of each of its members holds
all (`SetInduction`, `FiniteInduction`). No theorem with an operator as a
parameter is needed for it.

**`WorldProofs`** (assumption `WorldAssumption`: types of the constants;
`TreasureMaps` is a set of maps). The inductive invariant has three groups:
the field (`CountsAgree`, `NothingLeftAbove` and `RegistryConsistent` hold each
other up: a count can be decremented because the treasure taken is still
counted, and that a dug cell enters no register twice follows from the depth),
the licences (`LicenseBudget`, and that the numbers of active licences are
bounded, so that `max` of `_issue_new_license` exists, proved from the least
number principle in `BoundedHasMax`), and the coins. From it follow the state
theorems `TypeCorrect`, `CacheCorrect`, `DugInOrder`, `RegistersAgree`,
`LimitHolds`, `WalletIssued`, and the action theorems `Honoured`, `SpentOnce`,
`RefusedOnce`. `ExploreAnswers` sums the counts of an area and exchanges the
order of the sums: over its cells, the treasures below each, which is over its
treasures. `Conserved` sums what is buried, dug and paid out, and shows that
each step moves value from one of these to the next.

`CountsAgree`, `NothingLeftAbove`, `RegistryConsistent`, `LicenseBudget` and
`RetryPays` are stated here and in `World` and checked by no run of their own:
the proofs stand for it.

**`GoldRushProofs`** (assumption `GoldRushAssumption`: types of the constants
and `Slots <= MaxLicenses`). The invariants of the run `gold_rush` for every field, every server and any number of slots and
faults. The inductive invariant `IInv` contains that of the server (taken from
`WorldProofs` by `INSTANCE`) and, of the client:

* `Conserving`: no dig is delayed beside a licence with one to spare. A handler
  schedules the whole queue (`FoldLeft`); `RunSteps` turns the fold into the
  sequence of clients it goes through, and each of these is shown to keep the
  invariant with the digs still to be scheduled (the parameter `H` of `Tame`,
  the cells whose dig is in the hands of the handler).
* `Coined`: each coin is in one place (purse, a paying call, an answer), and
  the server takes it. Faults can lose a coin and never double one.
* `Cashed`: a treasure has one exchange at most, whatever the network does; it
  is out of the ground, and without faults in the server's register. The
  parameter `F` is the treasure that an answer being handled has brought and no
  call exchanges yet.
* `Places`, `Counted`: the chain of digs of each cell, and the two counts of
  its treasures, which differ by the answers not handled.
* `Budget`: for each licence number, the digs to spare and those under way are
  no more than the client waits to have confirmed under it. It is what makes
  `getLicenseById` find a slot.
* `InStep` (without faults): each cell with treasures has one dig, for the depth
  the server expects.
* `Licensed` (without faults): that the server never refuses a dig or a licence.
  `Entitled` says that what the client may still use of a number, with the digs
  called under it, is no more than the server has for it; an unread grant is
  for a number nobody uses. `Accounted` counts the slots: licences called for,
  answered, in use, and *lost*. With two slots a licence can be lost to the
  client, because the server uses a number again while an answer under it is
  unhandled (finding 2); `Lost` is the set of these numbers, which stay active
  at the server and are dug under by nobody. Without it the count of the active
  licences has no bound and the invariant is not inductive.
* `Answered` (without faults): the statuses that can occur.

From it follow `ClientTyped`, `NeverFatal`, `ConservesWork`, `DigsInStep`,
`CountsOfLeftAgree`, `PurseAgrees`, `NeverTooManyLicenses` (stated here only:
without faults, but however numbers are reused, no more than `Slots`).

**`GoldRushLife`** (same assumption). `ImplementsLife` is the refinement that
`gold_rush` checks as `LifeSpec`. The stage of a treasure is a function of the
ground, the register and the number of its exchanges, that is calls and answers
that are or will become a cash of it (`StagesAre`). Every handler keeps that
number for every treasure (`HandleLife`): it puts one call in the place of one
answer. So while the run goes on only the server's steps move a treasure: a dig from
`buried`, a cash to `gone`, a late answer or a refusal to `lost`; a handler that
returns an error takes with it all answers, `Exit` all calls. That nothing is dug below a
buried treasure, and no treasure has two exchanges, are `NothingLeftAbove` and
`Cashed`. From the abstract specification alone follow then, of the client,
`OneLossPerFault` (of a run that has not been ended), `DugTopDown` and
`EndsAreFinal`: each step moves treasures along one of five ways (`Steps`).

`SlotsStayCovered` is the theorem of `SlotsKept`, faults included and for any
number of slots. Its invariant `Settled` holds from one state to the next when
the numbers in use are distinct in the first, and has three parts besides the
claim itself. The digs that a number owes are exactly those to spare, called and
answered, where `Budget` only bounds them: so an answer always finds a slot of
its number with a dig made and not confirmed. No slot is confirmed beyond what
was dug under it. And a used-up slot whose number is in use again comes behind
the slot in use: a licence that arrives takes the *first* free slot. So the
first slot with the number of an answer, which is what `getLicenseById` takes,
is the one in use (`RightSlot`), and a free slot exists whenever a licence
arrives (`FreeSlot`).

**`RateLimiterProofs`** (assumption `RateLimiterAssumption`: types of the
constants, no call dearer than the rate). `RateBounded` and `SleepNeeded` for
every rate, every cost and any time. The invariant ties the limiter's running
total to the sum of what it remembers and says that what it has forgotten is
more than a second old, so that the window of any moment is within what it
remembers.

**`ExploreProofs`** (assumptions `SubAreasAssumption` and `ExploreTreeAssumption`:
types of the constants, and the table ends with single cells). Nothing is
assumed of the nominal number of treasures.

First the cut. `CutCorrect` says for every field and every table what
`sub_areas` checks for one: each cut is a partition. One dimension first: a
strip fits into the length (`StripFits`), two do not overlap
(`StripsDisjoint`), every position is in one (`StripsCover`), all from division
with remainder; then the number of a part is split into a row and a column
(`PartNumber`). `TableSuffices` assumes the client's table and nothing of the
field: an area is no larger than the row it was cut with, so that the ninth row
leaves single cells.

Then the seven invariants of `explore_tree`, for every field, distribution of
treasures, table and number of calls: `ExploreTypes`, `QueueInOrder`,
`QueueComplete`, `CountersAgree`, `BeliefsExact`, `CallsTracked` and
`LastDeduced`. They are not inductive one by one, and a handler goes through
clients that break some of them, so the inductive invariant `IInv` is stated of
a client between two calls of `processExploredArea`, as
`Tidy(s, A, m, p)`: `A` are the areas asked for; `m` is the area the next call
is for, whose parent is out of the queue with one unexplored part left; `p` is
the parent of the area that was answered for, whose last part may not have been
deduced yet. Its parts:

* `Tree`: each area's children are its own (`Kin`), it lies in the field and is
  no larger than its row of the table (`Placed`), its counters are the sums over
  its children, and what is known of it is exact (`Balanced`); two areas that
  are not cut share no cell (`LeavesApart`).
* `Queued`: the queue is sorted and holds the areas that are cut and have
  treasures left, all but those whose key is about to change.
* `Flight` and `Open`: unexplored areas are marked exactly when asked for, and
  every area with unexplored parts has one that is not asked for.
* `Handed`: a cell handed over is an explored area of size one, once only.

`SetExploredSound`, `CreateSound`, `DigSound`, `ProcessSound` and
`ScheduleSound` take `Tidy` through the steps of a handler; `AllSound` through
the calls of `processExploredArea` that follow from one another, which end
because each is for an area of the next row. That what is deduced is right
(`LastPart`) rests on the cut being a partition (`PartsAmount`) and on the
answers of the other parts; that an answer is right although cells are dug
meanwhile (`AskedAreFull`) rests on `Handed` and `LeavesApart`: what is dug lies
in other leaves than what is asked for.

A wrong nominal number shows in deduced areas only (`CountsExact`): the error of
the root passes unchanged to the last of its parts, from there to the last part
of that, and so on down, and never to two parts of one area. So one cell at most
is handed over with a wrong number, none if the number was right. With a number that is too
small an area's count can reach zero, and the area leave the queue, before all
its treasures are located: that part of the field is then not explored (in the
debug build the assertions of `api_entities.h:154` and `173` fail). The order of the queue uses that
`Before`, which compares fractions by their cross products, is a strict order
on areas with a size (`BeforeTransitive`).

**`StatsProofs`** (assumption `StatsAssumption`). `CountedOnce` is inductive
with the fact that between reports the ticks do not exceed
`lastTickRequestsCnt_` (`TicksInv`); `DestroyedLast` with who owns the
statistics at each point of each thread (`OwnersInv`).

**Only model-checked**: all liveness (`EveryRequestDelivered`, `CleanShutdown`,
`AllExchanged`, `TeardownEnds`), which the prover does not do under fairness;
the three properties that `Stub` adds to `World` (`BooksBalance`,
`LastReport`, `ServerErrors`), over bodies that lie on both sides of each limit;
and `Hunt`, whose refinements rest on the invariants of both of its parts.

## 5. Findings

1. **A lost wake-up at shutdown** (`api.cpp:73-75`, run `api_shutdown`).
   `stopped_` is atomic but written, and `notify_all` called, without
   `requestsMu_`. A worker that has evaluated the wait's predicate and not yet
   joined the wait set misses the notification, sleeps for ever, and `~Api`
   does not return from `join`. `CleanShutdown` shows that this is the only
   way the shutdown can hang. `src/README.md:59` counts on the end of the
   process to print the contention statistics.
2. **A licence number used twice** (`state.h:89-96`, `142-150`; `world.py:314`;
   run `gold_rush_ids`). The server deletes a licence with its last dig and
   gives `max + 1` of the remaining numbers to the next, so a number comes
   back while the client still has an unhandled answer under it. The client
   then confirms a dig of the wrong slot: one slot is confirmed beyond its
   allowance and never becomes free, and a later licence finds no free slot
   and is dropped without a word. It is a weakness against this stub; the
   contest's server may number its licences otherwise. The program still goes
   on: `NoFatal` holds with two slots. `SlotsKept`, checked
   with two slots and proved for any number, shows that the numbers are
   the only way to run short of licences: as long as they are distinct every
   slot is covered, whatever the network does. `gold_rush_one` shows that with
   one slot, where no confusion is possible, all is exchanged.
3. **A null area when nothing is left to ask for** (`state.cpp:22-24`,
   `app.cpp:198-201`; run `explore_end`). The release build schedules
   `nullptr`, which a worker dereferences; the debug build asserts. On the
   contest's field this needs the exploration of nearly all columns, which
   takes longer than a round.

An observation without a run of its own: the schema of an area requires no sizes
(`stubserver/openapi_server/openapi/openapi.yaml:1253-1270`), but `explore` adds
a missing size to a position and answers 500 (`world.py:213`). `ServerErrors`
says that this is the only body that does that. The client always sends sizes.

## 6. Not modelled, and why

* The exact order of libcurl calls and the constructors of `App`: no state of
  the model could relate them (a hazard without a property).
* The endpoints for the balance, the list of licences and the health check:
  they only read, and the client does not call them.
* The other counters and histograms of `Stats`, and logging: not control. They
  are atomics or guarded by a mutex of their own, and only printed. That the
  last report may lack the last requests is so in the code, and nothing
  promises otherwise.
* JSON and number formatting: sequential conversions of small numbers, without
  state; the model's calls and answers are the values they carry. rapidjson is
  external.
* A request dearer than `maxRps_`: the limiter lets it through at once, and
  nothing says what it should do.
* The generated models of the server but for the setters of areas and digs:
  they only carry values.
* A 5xx answer to a *paid* licence: the stub gives 502 and 504 to free
  licences only; the client would lose the coin it borrowed (hazard
  `app.cpp:211`).
* `go/`: offline tools.

## 7. State of the plan

Done: the pool with its abstract specification and proofs; the server with its
proofs, and the process around it with its reports; the digging over the
server, with faults, the end of the run and the abstract life of a treasure; the exploration; both together; the rate limiter; the statistics and
the end of the program.

Left, should the code change there:

1. The order of the pool inside `GoldRush`: `AllExchanged` holds without it,
   so it would only remove behaviours.
2. Two explore calls under way in `hunt`, and faults: the product of the two
   state spaces is beyond a run of minutes.
3. The refinements of `Hunt` as theorems, from those of `GoldRushProofs` and
   `ExploreProofs`.
