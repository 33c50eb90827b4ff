# TLA+ models of TradeMind AI (NevUP)

This directory holds TLA+ specifications of the service in this repository,
the configurations with which TLC checks them on small instances, and theorems
about them whose proofs TLAPS checks. Paths of code are relative to the root
of the repository.

* [The system](#the-system): its parts, their state, what is hard about them
* [Modules](#modules): which module models what, and how
* [Runs](#runs): what each run checks and what it shows; bounds; fairness
* [Disagreements](#disagreements) between the code and what is said of it
* [Proofs](#proofs)
* [What is not modelled](#what-is-not-modelled) and [the plan](#the-plan)

## The system

A FastAPI process serves a trading-behaviour memory and a coaching stream. All
handlers run on one event loop; between two `await`s of a handler any other may
run. Durable state is in PostgreSQL alone. Redis is configured and not used.

| Component | Code | State | Operations |
|---|---|---|---|
| Session records | `app/memory/service.py` 12-64, `router.py` 24-95, `models.py` | table `sessions`, keyed by `session_id` alone | PUT (upsert), GET |
| Context query | `service.py` 67-125, `router.py` 98-144 | reads `sessions` and `patterns` | GET context; also the first step of a coaching stream |
| Request schemas | `app/memory/schemas.py` | none | normalize summary and tags |
| Connection pool | `app/db/session.py`, `app/deps.py` | 5 + 10 connections | taken by a session's first statement, returned when the session closes |
| Signal detector | `app/events/router.py` 60-224 | none | one trade in, at most one of nine signals out |
| Coaching stream | `app/events/router.py` 227-346 | generator per request | context, prompt, call of the provider, server-sent events |
| Audit | `app/audit/router.py` | none; reads `sessions` | count the cited identifiers that do not exist |
| Tokens and access | `app/auth/*`, `app/config.py` | signing secret of the process | issue, verify, compare subject and path |
| Health, logging | `app/health`, `app/main.py` | none | count the sessions; add a trace id |
| Profiler, evaluation | `profiler.py`, `eval.py` | none; an HTTP client | detect pathologies in a data set, PUT them as sessions; score them |

**How they interact.** Handlers share the two tables (through READ COMMITTED
transactions) and the connection pool. The stream calls the detector, the
context query, the prompt builder and an external provider, and talks to its
client through sse-starlette, which may cancel it at any `await`. A process
start decides the signing secret for all tokens. The profiler is a client like
any other: it asks for tokens that a restart may void, and writes what the
context query later reads. It detects the same nine signals as the live
detector, with code of its own.

**What is hard.** Upserts that overlap at their `await`s; a write by key that
relies on an earlier read by owner; an answer that is read back after the
commit; failures between commit and answer; lookups that are not a snapshot; a
stream that holds a pooled connection while an outside party hangs, fails or
the client leaves; tokens that outlive processes; limits that cut text. The
list, with the lines where each bites and the properties that watch it, is
under `hazards` in `PROJECT.json`.

**What makes each component correct**

* Session records: nothing crosses from one tenant to another; what was read
  is still good enough to write by; a record is one body; every request ends.
* Context query: only the user's own sessions, the newest relevant ones.
* Stream: tokens numbered without gaps, one terminal event, no silent end for
  a client that stays; connections come back; nobody waits for ever.
* Detector: more evidence never weakens a signal; zones do not matter;
  hindsight decides only the signals about losses.
* Prompt: bounded, and whole whenever its text is plain.
* Audit: the answer lies between two snapshots; a rate of 0 or 1 is exact for up
  to 200 references and hides at most one of the 222 there is room for.
* Health and the short requests: answered while streams hang; the pool is
  accounted for.
* Profiler: a profile is lost by trading on only in ways that can be named; it
  agrees with the live detector but for three gaps; a run stores every profile at
  most once and prints the truth; restarts refuse a run at most one profile each
  (one that leaves a call unanswered ends the run).
* Evaluation: its two tallies agree, and on data sets no larger than the
  repository's an average of 1.0 is flawless.
* Access: production tokens survive restarts; a refusal is final; the expiry
  told to the client is honest.

## Modules

| Module | Models | Correspondence |
|---|---|---|
| `SessionLedger` | abstract: what the memory promises of its table | `ColumnSpec` (a write overlays columns), `RecordSpec` (a write replaces the record) |
| `SessionStore` | `upsert_session_memory`, `get_session_memory` | `pc` is the `await` a handler is suspended at: `select`, `stamp`, `flush`, `commit`, `refresh`, `done`; `seen` is the ORM object as first read; `table` the committed rows |
| `ConnPool` | SQLAlchemy's pool (external), from `db/session.py` and its use | operators on `held` and `waiting`, instantiated by the stream |
| `SseContract` | abstract: what a client of the stream may count on | `sent`, `open` |
| `CoachingStream` | `process_trade_event`, `coaching_event_generator`, `get_db` | `pc` is the position of the request; `rest` the chunks the provider will still send; `index` the generator's counter |
| `ApiServer` | the streams with the other requests on their pool, `GET /health` among them | `at` is where such a request is; composes `CoachingStream` |
| `SignalRules` | `detect_signal_realtime`, `parse_iso_timestamp` | `Rules` is the sequence of `if`s; the phrases of a rule are one cue |
| `SignalDetector` | trades submitted one after another | one action per kind of change |
| `Profiler` | `detect_pathologies` | an operator per pathology on the history, which grows by `Trading` |
| `Evaluation` | `build_report` | one action per trader of the data set; composes `Profiler` |
| `ContextQuery` | `get_context`, `normalize_tags` | two actions, one per SELECT; other requests commit in between; `Ordered` is the database's ORDER BY, `Kept` the loop, `Turn` one turn of it |
| `CoachPrompt` | `compact_session_context`, `build_coaching_prompt` | lengths only, exact to the character, JSON escapes included |
| `Audit` | `verify_hallucinations` | one action per turn of the loop; a response is the number of spellings it has of each session; the counters are the code's |
| `Percent` | `round(x, 2)` | shares of a whole in hundredths, for `Audit` and `Evaluation`; a tie goes where the nearest double lies (`TiesUp`), exact for a quotient of integers, while an average of the evaluation is a sum of floats and may take a tie the other way |
| `Access` | `create_token`, `verify_token`, `get_current_user`, `config.py` | `secret` is `settings.JWT_SECRET` of the running process |
| `ProfilerRun` | `profiler.py`'s `main`, `get_token`, `summarize_api_failure` | `step` is the call the script is about to make; composes `Access` |
| `MC*` | instances for TLC | model values, small sets, symmetry |
| `*Proofs` | theorems and lemmas | `ProfilerRunProofs` has those of `Access` as well, `EvaluationProofs` those of `Profiler`, `ApiServerProofs` those of the stream and the pool |

Each module ends with its properties, and has a section of *mistakes*: what
one of its definitions would be if the code had a plausible bug. They are used
by nothing; substituted for the real definition, each makes one property fail,
which shows that the property depends on that code.

**SessionStore, in more detail.** The engine is created with no isolation
level, so a statement sees what was committed before it and waits for an
uncommitted write of the same row (`Locked`). SQLAlchemy's unit of work sends
the columns whose value differs from the one read (`Dirty`), plus `updated_at`,
which is always assigned; that is why two overlapping PUTs may blend. An INSERT
of a bound key raises `IntegrityError`, which nothing handles
(`FlushConflict`). Any statement may fail (`DbError`); at `refresh` the write is
committed by then. `Restart` loses handlers and open transactions and keeps
rows. `created_at` and `updated_at` of a new row are two readings of the clock
in the code and one here. `Overlap` says whether a tenant may have two PUTs of
one session in flight: the promises that need it to be false are checked with
it false, and shown to fail with it true.

**CoachingStream, in more detail.** FastAPI, from version 0.118 on, closes
`get_db` after the last byte of a streaming response, so a stream holds the
connection of its first query until it ends. The image installs the newest
version that `pyproject.toml` admits (`Dockerfile:11`), and this is modelled;
from 0.115 to 0.117, which `pyproject.toml:7` admits too, `get_db` is closed
before the stream begins, and `PoolAccounted`, `GoneReleases` and `WaitEnds` say
nothing of them. `Cancel` is sse-starlette's cancellation: `CancelledError` is
not an `Exception`, so the `except` clause does not write. `SeeDisconnect` is
the generator's own poll, whose `break` is followed by `done`. `Emit` to a
client that has gone writes nothing. A request without a signal, of another
user, or with a userId that is no UUID takes its early way out.

**ApiServer.** A handler of `Others` takes a connection with its first
statement, succeeds or fails at it, and returns the connection when `get_db`
closes; in `TimesOut` the pool's timeout makes the health check say "degraded"
and the others raise. GETs, the audit and `/health` are such requests, and so is
a PUT, which returns its connection at the commit and queues for one again to
refresh the record (`Commits`, `Refreshes`): it may time out there, with its
write stored. `ApiSpec` leaves the streams' actions as they are, so every
property of the streams is checked and proved with the others competing for the
pool.

**Profiler.** A history is one sequence; a session is a number on its trades,
and a trade is cited by its place. `verbatim` are the cues given in the one
phrase that the profiler looks for, a part of those the live detector knows. The
limits (15 trades, 5 losses, 3 citations) are the constants `Many`, `Losses` and
`Cited`. `Afternoon` has the three ways in which the text of `entryAt` is read:
the hour, in the basic layout of ISO 8601 the minutes in its place, or no
number, where the `except` passes the trade by. A late loss whose `pnl` is null
raises in the code and yields nothing (`Raises`). `StreamWouldCoach` states the
agreement of the two detectors and names all gaps: a tilt in a greedy mood,
hours written in another zone, and minutes read as an hour.

**ProfilerRun.** `memory` are the stored profiles with run and place, `reports`
the lines printed. A PUT may be stored, refused with its token (401), answered
500 before or after the commit, or not answered at all (`PutLost`), which raises
in the client and ends the run; a commit that follows the client's timeout of 10
seconds is part of that step. The service crashes, starts and ages tokens as
in `Access`, between any two steps.

## Runs

| Run | Instance | Shows |
|---|---|---|
| `store_overlap` | 2 tenants, 2 handlers, 1 session, 3 bodies, 3 stamps | no value, record or answer crosses tenants; stale reads stay good; implements `SessionLedger!ColumnSpec` |
| `store_serial` | the same tenants, whose own PUTs do not overlap; 2 bodies; `FairSpec` | implements `SessionLedger!RecordSpec`; records whole; PUTs echoed; conflicts only over foreign sessions; every request answered |
| `stream_faults` | 2 streams and 1 other request, 1 connection, replies of up to 2 chunks, with and without a token for the provider; `ApiFairSpec` | implements `SseContract`; no silent end; `done` means whole; connections come back; a wait ends, a leaver's connection returns and the other request is answered, though the provider may hang |
| `signal_changes` | all trades, 3 times of day, 2 offsets | how one change of a trade moves its signal |
| `profiler_scores` | data sets of up to 4 trades (a scored trader counts as one) of 7 kinds, 2 labels, every labelling | what trading on does to profiles and citations; the two detectors agree but for three gaps; tallies and averages agree |
| `context_answers` | 2 users, 3 sessions, 1 pattern, limit 2, tags in 3 spellings | own sessions only; the newest relevant, however their tags were written |
| `prompt_sizes` | lists of up to 5 of 6 kinds of session, 2 trades | bounds and what survives them |
| `audit_brackets` | 3 sessions, each cited in up to 2 spellings; and one or two references beside 199, 200 or 220 | between two snapshots; extremes exact up to 200 references, one hidden beyond |
| `access_tokens` | 1 user with 2 profiles, 2 runs, 3 starts, 2 seconds of 3 ticks | tokens over restarts and expiry; what a run stores, prints and loses |
| `store_torn`, `store_conflict`, `audit_unique` | as above | see [Disagreements](#disagreements) |

**Bounds, and why they are enough.** Two handlers are the smallest number that
overlap; every conflict of the store is between two requests about one row, and
the proofs carry the invariants to any number. Two columns and three bodies are
the least in which two updates touch different columns; where updates do not
overlap, two bodies without a common column are enough to see a lost one.
`Stamps` bounds the clock and with it the accepted PUTs (`ClockLeft`): three are
a creation and two competing rewrites. One connection for two streams is the
smallest exhausted pool; `MaxChunks` of 2 admits an empty chunk before, after
and instead of text. `Limit` of 2 among three sessions leaves one out; of two
creation times among three sessions two are equal, and the database may order
those as it likes. The samples of `CoachPrompt` are the lengths at which a
branch changes: no summary, exactly the shortened length, three to a context,
the longest, the longest with all its tags, and the longest in characters that
JSON writes as twelve. An audit has small responses, in which each of three
sessions is cited not at all, once or twice, and large ones at the sizes where
the rounding turns: at 200 references the least share is a tie, which Python
rounds inwards; at 201 one reference vanishes; of 222, the most that 8,000
characters have room for, two would not. Many spellings of one session stand
there for many sessions. `Second` of 3 ticks gives an instant inside a second
that is neither its start nor its end. One request beside two streams on one
connection waits behind both. The trades of `profiler_scores` hold one for every
branch: a flagged winner with a phrase, losses deep and of unknown size in three
moods, one in the afternoon of its zone and the morning of UTC, one in the basic
layout and one without an hour, sizes of 1, 31 and 0; with `Many` 2, `Losses` 1
and `Cited` 2, four trades reach every limit and pass it. Two profiles and two
runs let a restart refuse one of them and a second run store what the first had
stored. `PoolSize`, `Limit`, `Many`, `Losses`, `Cited`, `MaxChunks` and
`Lifetime` stand for 15, 5, 15, 5, 3, the provider's 150 tokens and 24 hours.

**Symmetry** is used over tenants or sessions (and handlers, in `store_overlap`)
where specification and properties do not tell them apart, and in no run that
checks liveness.

**Deadlock** is checked except in `prompt_sizes`, a function that returns,
`profiler_scores`, whose data set ends, and `access_tokens`, where the bounds on
clock and starts, or production without a secret, leave nothing to do.

**Fairness.** `SessionStore!Fairness`: weak fairness of a handler's own steps
(the event loop resumes what is ready; the database answers) and strong fairness
of getting past a row lock (PostgreSQL queues waiters). `CoachingStream!Fairness`:
weak fairness of the steps of event loop, pool and database, the pool's timeout
among them, and of sse-starlette's cancellation. `ApiFairSpec` adds
weak fairness of every other request's own steps (`Ask`), for the same reasons.
No fairness is assumed of the
provider, whose client is created without a timeout, nor of clients.

## Disagreements

Three runs state what a comment or docstring says and find it violated.

| Run | Said | Found |
|---|---|---|
| `store_torn` | "Idempotent — re-PUT replaces the existing record." (`app/memory/router.py:38`) | two overlapping PUTs leave a blend of both |
| `store_conflict` | "if session_id already exists for user_id, update it." (`app/memory/service.py:22`) | of two overlapping first PUTs the second gets a 500 |
| `audit_unique` | "Extract unique UUIDs found in text" (`app/audit/router.py:42`) | one UUID in two spellings counts twice |

Three more were met while modelling and have no run. The comment at
`app/events/router.py:147` says "Very low adherence score alone is a strong
signal"; it counts only with a greedy or anxious state (rule 4 of `Rules`). `DECISIONS.md:29` says
"Cross-tenant reads/writes return **HTTP 403** (never 404)"; under one's own path
another tenant's session is a 404 for GET (`Lookup`) and a 500 for PUT
(`FlushConflict`). `README.md:158` says "If `HF_TOKEN` is not set, the stream will
emit an `error` event"; the context is read first, outside the `try`, and when
that fails the stream ends with no event (`BadUserId`, `PoolTimeout`,
`ContextFails`).

## Proofs

All theorems hold for every value of the constants that satisfies the named
assumption of the module (`SessionStoreAssumption` and so on).

**SessionStore** (`SessionStoreProofs`). `TypeOK` is inductive together with
`Progress`, which says what the position of a handler tells of its request:
that it serves a PUT, has read the clock, and found the session bound if it
says so. None of the safety properties is inductive by itself: that an UPDATE by
key hits the user's own row follows from what a SELECT saw several `await`s
before. `IInv` adds to them that requests being served are in the history
(`PutsRecorded`), that only finished handlers have answers (`RepliesLast`), that
readings of the clock lie in the past and after the creation of the record they
will update (`Times`), that one handler at a time writes a session and an insert
finds it unbound until it commits (`Locks`), and that the row a refresh will read
is the caller's (`RefreshOwn`). From it: `TypeCorrect`, `OwnDataHolds`,
`StaleReadIsSafe`, `TenantIsolation`, and `ColumnsRefinement`, step by step
against `SessionLedger!ColumnSpec` (a commit is `Create` or `Rewrite`, every
other step stutters).

Where a user's PUTs of one session do not overlap (`~Overlap`) more holds, by
`SInv`: a handler serving a PUT is alone with its user and session (`Alone`), so
that what its SELECT found is still what is committed (`SeenCurrent`) and its
UPDATE leaves the columns of its body (`WroteAll`); a PUT that met the primary key met
another user's record (`Conflicts`). From it: `RecordsAreWhole`,
`ConflictsAreForeign`, `PutsAreEchoed`, and `RecordsRefinement` against
`SessionLedger!RecordSpec`. `store_torn` and `store_conflict` show that the
hypothesis is needed.

**Streams and pool** (`ApiServerProofs`), all of `ApiSpec`, for any number of
streams, other requests, connections and chunks. `StreamInv` says for every
position of a stream what has been written (`Written`): nothing before the
provider answers; while chunks are read, as many tokens as `index` says for a
client that is there; at the end nothing, or a terminal event last. It is
inductive, step by step over the actions (a stream's step leaves the others
`Untouched`), and gives `NeverCut`, `DoneIsWhole` and `StreamTypes`. `ContractKept`
shows each step to be one of the event contract or a stutter. `PoolInv` relates
`held` and `waiting` to the positions of streams and others, and gives
`PoolIsAccounted`; that no more are out than the pool has is a part of it.

**Runs of the profiler** (`ProfilerRunProofs`). `RunsAreClients`: a run does to
the service what any client may, so `RunSpec` implements `Access` and its theorems
carry over. `MemoryInv` (`Placed`: what the run has stored lies before its
place, and at its place only as the last entry of a run that has ended;
`Distinct`: no entry twice; `Printed`: what was printed before the place is true,
and of what was stored before it something was) is
inductive and gives `OneCopy` and `Honest`. `Missed` bounds the
refusals so far: none under a configured secret, and otherwise one per start
since the run began, all of them before the start that signed the token in hand;
it gives `RefusalsBounded`.

**Signals** (`SignalProofs`). One lemma (`Detected`) says that the rank of the
detected signal is the number of the first rule that holds, another (`Holding`)
says of each rule when it holds. `NeverDemotes`, `ZonesAreIrrelevant` and
`HindsightIsLimited` then compare the rules that hold before and after a change.

**Audit** (`AuditProofs`). The invariant `AuditInv` has the types, what the loop
knows (`Lookups`), and that the counters are zero just when no verdict of their
kind is given (`Counted`), with the rate computed from them (`Rated`). From
`Lookups` comes `AuditBracketed`: a session that was found stays, since none is
deleted, and one that was not found was not there when the audit began.
`ExtremesHideFew` needs the other parts and `RoundAtTheEnds`: of any number of
references two decimals show 0 for less than a 200th, and 1 for all but less than
a 200th, the ties at both ends going inwards. No bound on the size of a response
is assumed.

**CoachPrompt** (`CoachPromptProofs`). The invariant `Sizes` says
that the list is empty until a first session is kept, and that the sizes reached
are within their bounds; the lemma `ShortenedIsShort` bounds a shortened session
whatever its tags. From them the context of plain sessions stays within
3,000 characters (`PlainContextBounded`), so that the prompt stays within 6,000
and is not cut (`InstructionSurvives`), and no prompt is ever longer
(`PromptBounded`). `NewestAreKept` from `Prefix`: the kept list is a prefix of the
sessions.

**Access** (`ProfilerRunProofs`). `AInv`: outside a configured secret the secret is
that of the last start and every token's key is no newer; refused tokens carry
an older key or a past date; claim and announced expiry agree to the second.
From it `SurvivesRestarts`, `RefusedForGood` and `ExpiryIsHonest`.

**Context query** (`ContextQueryProofs`). `KeptPicks` says what the loop has kept
after p rows: the first of those that match, in the order of the rows, and all
of them while there was room. With `CInv` (tags are stored in the clean
spelling, and what an answer names stays its user's) it gives `OwnSessions` and
`NewestRelevant`.

**Profiler and evaluation** (`EvaluationProofs`). `TalliesAgree` from the effect
of one trader on both tallies (`OneTrader`). `FewAreFlawless`: what an average of k
labels misses of 1 is at least the share of one error (`AddFraction`,
`SumIsNear`), which two decimals show as long as the number of labels times one
more than twice the traders is below 200 (`RoundHidesNothing`). The data set has
nine labels and ten traders, which is 189; of many more traders the average may be
1.0 with an error, so the bound on the traders is part of the theorem and not of the
property, which TLC checks on data sets within it. `TwoDetectorsAgree` reads
off the evidence, rule by rule, which rule of the live detector holds; it uses
the lemmas of `SignalProofs` about the rules, which read no variable, through an
instance. `HInv`, which all three need, says that sessions are numbered in the order of
the history and that the largest and the smallest size of every asset traded are
in it. `CitationsLast` and
`LossesAreFour` compare a history with the next one: a trade is appended
(`TradingAppends`), so what was found of the old ones is found again (`Longer`,
`SessionGrows`), and for each pathology a lemma says what one more trade can
change (`LastingGrow`, `TiltGrows`, `BiasGrows`, `SizingGrows`).

**Induction.** The loop of the context query is a recursive function and an
average of the evaluation a fold. The induction theorems of the library take a
predicate as a parameter, which the provers cannot instantiate; `Climb` states
induction for a set of numbers instead, and follows from the fact that a finite
set has no injection into itself that misses an element. The existence of the
recursive functions is shown by it too (`ScanExists`, `MacroSums`).

**Only model-checked.** Liveness (`Answered`, `WaitEnds`, `GoneReleases`,
`OthersAnswered`): the prover has no ENABLED. Every other property of a passing
run is stated by a theorem. What the three violated properties say is
refuted by TLC's counterexamples.

## What is not modelled

* The migrations (run once before the API), the request logging (no state
  depends on it; a handler that raises passes it by, without a line and without
  `X-Trace-Id`), the static report and the deployment files.
* The rendering of the evaluation as HTML, and the response schemas, which copy
  fields.
* Texts: which words a phrase of the detector is made of, what a prompt says.
* The 401 for a missing header and the comparison of subject and path in
  `verify_user_access`: single guards without state. `SessionStore` starts
  after them; the same comparison in `process_trade_event` is `Dispatch`.
* Years: timestamps are times of day.

## The plan

What is left would deepen rather than widen:

1. Runs of the profiler composed with `ContextQuery`: after how many runs a
   trader's own sessions leave the context of a pathology (`OneCopyPerRun`
   bounds it by one place per run and pathology).
