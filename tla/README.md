# Verification of the day planner

The day planner is an agent that plans a user's week with them in a chat. Two
web services and an agent share one Firestore database and act on the calendars
a user has connected:

    browser -- app service (day_planner_backend_app) --+-- Firestore
                     | chat, sessions                   |
                     v                                  |
               Agent Engine / Memory Bank               |
                     | tools                            |
                     v                                  |
    agent (day_planner_agent) -- internal service ------+   mints access tokens,
                     |      (day_planner_backend_internal)  connect links
                     +-- app service /me/... : profile, zones, habits, sessions
                     +-- Google Calendar

Every handler is a coroutine. Firestore transactions are used for a few
operations only (sign-up, quota, consuming a nonce or a reset token); everywhere
else a handler reads a document, awaits, and writes. What other requests, the
other service, Google, or a crash do in those gaps is what these modules are
about. Paths below are relative to the repository: *app* is
`day_planner_backend_app/app`, *internal* is `day_planner_backend_internal/app`,
*agent* is `day_planner_agent`.

## 1 Inventory

| Component | State | Operations | Hard behaviour | What makes it correct |
|---|---|---|---|---|
| Connected accounts (app `repositories/accounts.py`, `services/connections.py`, internal `db/store.py`, `services/connections.py`) | a document per account (status, credential, calendars, selection), `default_account_id`; at Google the grants | OAuth callback saves, internal service mints and rotates, user selects, either service disconnects | four handlers of two services read and write the same documents without transactions; a refresh call takes long and the document is written from what was read before it | status and credential agree; a credential stays with its account; the default never dangles; documents stay readable; a choice of calendars is kept |
| Connect links (app `api/routes/oauth.py`, `repositories/oauth_states.py`, internal `services/connections.py`) | nonces with an expiry; PKCE verifiers derived from them | mint, `/start`, `/callback`, TTL sweep | replays and simultaneous callbacks; the nonce of one link with the code of another; failure after the nonce is spent | a link binds at most one account, to the user it was minted for and the account its own screen showed |
| Chat (app `api/routes/chat.py`, `services/agent_client.py`, `repositories/users.py`) | quota date and count, session pointer; sessions in Agent Engine; Memory Bank | chat, reset, idle rollover | tabs race; sessions expire by themselves; flush and delete fail separately; midnight | a daily limit that racing tabs cannot pass; `new_session` tells the truth; nothing said is lost; a reset is final |
| Login (app `api/routes/auth.py`, `repositories/sessions.py`, `password_resets.py`, `users.py`) | password hash, sessions, reset tokens | signup, login, logout, change, reset | rehash on login; eviction as a loop of deletes; replayed reset links | a reset works once; old sessions die with the old password; logging in changes no password |
| Habit sessions (agent `calendar_tool.py`, `habit_tools.py`, app `repositories/habit_sessions.py`) | events at Google (with tombstones), a session document per planned event | add, update, delete with retries; upsert of the log; mark; review | an insert lands and its answer is lost; ids of deleted events; best-effort logging; marks racing with logging | one event per call; no duplicate session; marks survive re-planning; a review finds changes only where there were some, or where it could not look |
| Scheduling engine (agent `scheduling/`) | none: pure functions | free intervals, candidate slots, collisions, scoring, targets | windows over midnight and over the ends of the period, overrides by morning, overlapping and empty intervals, the clock changing | free time is all that nothing blocks; a candidate lies in it, but for a clock put back; checks for collisions agree |
| Scheduling tools (agent `scheduling_tool.py`) | none | collects zones, sleep, events and habits for the engine | stale or partial inputs | a slot is not offered from data that failed to load |
| Zones, habits, sleep schedule (app `repositories/zones.py`, `habits.py`, `sleep_schedule.py`, their routes, agent `zone_tools.py`, `habit_tools.py`) | a document per zone and habit, one for the sleep schedule | create, merge, delete, list, get; from the web and from the agent | a read tells whether the document is there, the merge after it takes that for granted; a caller gives up and the handler goes on | a document is whole or absent; an update undoes no other |
| Agent: preloaded state (`agent.py`) | profile and zones fetched once and latched in the session | two callbacks before a turn, the save of what they wrote, the instruction built from it | a failure must not read as an absence; turns of one session overlap | what was not found is not said to be missing; what failed is fetched again |
| Agent: service clients (`_service_client.py`) | a cached identity token, a lock | call, retry once on 401 | the lock is checked twice; a 401 drops a token that another call has minted meanwhile | a request is handled at most once; a token is minted only when needed; every call ends |
| Agent: memory tools (`memory_tools.py`) | background tasks | remember, with three attempts | the tool has answered before the write begins; writes are retried and overtake each other; the process ends | nothing is lost without a log line; an old statement that is done with does not return over a later one |
| Agent: model and instruction | none | picks the tools to call | - | no transition relation |
| Throttles (app `repositories/login_throttle.py`, `password_reset_throttle.py`, `api/routes/auth.py`) | a counter and a lock by address or IP | check, count, lock, clear, TTL | the check is long before the count; a success clears what others have counted; the TTL takes the document of a lock that has passed | a bound on attempts per window |
| Turn log, e-mail, encryption, Google provider, web pages and configuration, service identity, agent evaluations, infrastructure, scripts | none of their own, or in other systems | I/O, wiring, declarations | - | covered as outcomes where a modelled handler calls them |

How they interact: the app and the internal service share the account documents
and the nonces (`Accounts`, `ConnectLinks` model both sides); the callback of
`ConnectLinks` ends in the save with which `Accounts` starts; a chat message
(`Chat`) makes the agent call tools in any order and at any pace, so
`HabitSessions` lets calls begin, overlap and fail freely; `mark` in the web
page and in the agent meet in one document there; signing in (`Login`) guards
every `/me` endpoint, but keeps no state the others read; `Throttle` decides
whether a request of `Login` is made at all. What a tool asks for travels
through `ServiceClient` to `Records`, which takes it as a request that may be
given up while its handler goes on; `Preload` takes the answers as fetches that
find something, nothing, or fail, since anybody may change what is on file at
any time.

## 2 Modules

`Accounts` - connected accounts of one user. `acct[a]` is
`users/{u}/connected_accounts/{a}` (`exists`, `bound`: the fields that
`from_dict` needs are there, `status`, `cred`, `cals`, `sel`), `dflt` is
`default_account_id`, `grant` and `owner` are what Google knows of each refresh
token, and `req[r]` is a handler: where it stands and its locals. One step per
await: `ExchangeCode`, `ListCalendars`, then `SaveRead`, `SaveWrite`,
`SaveReadDefault`, `SaveClaimDefault` (the four awaits of `save`); `MintFor`
or `MintForDefault`/`MintReadDefault`, `MintRead`, and one of `Refresh`,
`RefreshRotates` (which goes on into `save`), `RefreshDead` and then
`MarkNeedsReauth`, `RefreshFails`; `DisconnectRead`, `Revoke`, `Delete`,
`DeleteReadDefault`, `DeleteListRemaining`, `DeletePromote`; `SelectRead`,
`SelectWrite`. The environment may let a grant lapse and may crash a handler
between any two awaits.

`AccountBook` - what the endpoints promise, each as one indivisible change.
`AccountsRefinement` maps `Accounts` onto it: a connection counts when its
document is written, although the default is claimed two awaits later; a
disconnection of the default counts when another is promoted.

`ConnectLinks` - `link[l]` is a nonce document, `screens` the consent screens
open, `code[c]` the authorization codes with the screen and account each was
issued for, `bound` the bindings made so far, `tried` the links some callback
has named. `Consume`, `CheckLink` (expired, or of another
provider), `Exchange`/`ExchangeFails`,
`ListCalendars`/`ListingFails`, `SaveAccount` are the awaits of the callback;
PKCE is the guard that a code exchanges only with the verifier of its own link.

`Chat` - `quota`, `pointer`: fields of the user document; `session`, `memory`:
Agent Engine and Memory Bank; `allowed`, `late`, `retired` record history for the
properties. `Chat`, `ConsumeQuota` (a transaction, with the day read before
it), `ResolveSession`, `ArchiveFetch`, `ArchiveFlush`, `ArchiveDelete`,
`CheckSession`, `CreateSession`, `Stream`/`StreamFails`, `SetAgentSession`;
`Reset`, `ResetRead`, the same archive, `ClearAgentSession`. `GoIdle`,
`Midnight`, `Expire` and `Crash` are the environment.

`Login` - one address: `password` with whether its hash is outdated, `session`
and `reset` documents; `opened` and `uses` record history. `Signup`, `Login`,
`Verify`, `Rehash`, `OpenSession`, `Logout`, `ChangePassword`,
`VerifyCurrent`, `RequestReset`, `ConsumeReset`, `UpdatePasswordHash`,
`ListSessions`, `EvictSession` (one delete of the loop), `Evicted`. A throttled
request is a request that is not made.

`HabitSessions` - `event[id]` is Google's event, absent, live or a tombstone;
`log[id]` its session document; `call[c]` a tool call, `mark[m]` a request to
set a status; `marked` and `unplanned` record history. `AddSession` chooses
the id hashed from habit and time, `AddAppointment` a random one; `Insert`
lands with or without its answer being heard, `InsertFails` never arrives,
`InsertConflicts` and `ResolveConflict` are the 409 and the fetch after it.
`Update`, `Delete`, `UpsertRead`, `UpsertWrite`, `LogFails`, `MarkRead`,
`MarkWrite`, `UserEdits`. `Fetched` is `get_calendar_events`: it answers
"success" without the events of an account that is deselected, needs to be
connected again or has no token; `Outcome` is the comparison of
`compute_habit_review` with what was fetched.
Left out: the choice among several calendars (one writable calendar), calls
that change nothing, updates of the summary alone; patching a cancelled event
is assumed to be answered with an error.

`Scheduling` - one call of `get_available_slots`. `ask` is what the backend and
the calendar answered: the period, zones, sleep schedule, events and the habit's
`allowed_zones`, session lengths and whether its goal names a weekly total.
`Collect` gathers and clips what is blocked; `Merge` is one turn of the loop of
`_merge` (the sort is the choice of an interval that begins first), `Sweep` one
turn of the loop of `free_intervals`; `Slice` cuts the candidates. A
zone-anchored habit gets the times of its zones at once (`TakeZoneTimes`), a
period without days no gaps (`NoDays`). `ZoneCollisions` and `SleepCollisions`
are the two collision checks, on the events that `Adapted` keeps: tagged with a
habit, with times of a known zone, running forwards. Time is a number of minutes by the wall clock;
`Elapsed` adds what the clock is put back by at `Change`, which is what
`duration_minutes` differs by. The loops are steps, and not recursive functions,
so that what they compute can be proved by invariants. Left out: the ranking of
candidates and the cut to ten of them (no property depends on which are shown),
the text of goals, events whose offset is not that of the reference time zone
on the day the clock changes, and answers when a read fails.

`ServiceClient` - `token` and `stale` are the cached token of the process,
`queue` the lock (its head holds it), `call[c]` a request with the token it
carries and the one an earlier attempt was refused with, `handled` how often the
service has carried it out. `Begin` asks for a token and either sends at once or
joins the queue; `Acquired` looks again, `Mint`, `MintFails`, `TokenAges`;
`Handle`, `Refuse`, `Retry` (drops whatever is cached by then), `RefusedAgain`,
`TimesOut`, `Answered`. `Tokens` has more members than calls can hold, so a mint
always finds a new one.

`MemoryWrites` - `task[w]` is the background write of a statement, `adrift[w]`
how many of its attempts Memory Bank still works on although nobody waits for
them, `landed` and `latest` what Memory Bank has, `settled[w]` which writes had
ended, with nothing adrift, when `w` was made. `UpdateProfile` and `SaveMemory`
decline or schedule; `Lands`, `Saved`, `AttemptFails` (an operation that carries
an error, or an exception, whose operation may be running on), `Resume` after the
pause, `EndsUnheard` (an attempt adrift ends, with the write or without) and
`Stop`, the end of the process, which sets attempts adrift as well.

`Preload` - `state` is the saved state of one session, `turn[t]` a turn with its
copy of it. `ProfileThere`, `ProfileLoads`, `ProfileFails` and the same for the
zones (with the sleep schedule asked for after `list_zones`, even when that
failed) are the two callbacks; `StateSaved` merges the keys the turn wrote into
the session; `SaysNone` is the wording of the instruction. Turns that overlap
may save a failure over a success: `CalmFailureIsRetried` has the condition that
they do not.

`Records` - `doc[d]` is a zone, a habit or the sleep schedule; of a field's
value it is kept which request wrote it, so that the loss or return of a value
shows. `req[r]` is a request and its handler: the seventeen `Web...` and
`Agent...` actions say what either client can ask for, then come the awaits of
the repositories (`Create`; `UpdateReads`, `UpdateMerges`, `Rereads`;
`SetReads`, `SetMerges`; `DeleteReads`, `Deletes`; the lists and `GetsSleep`).
`CallerGivesUp` is a timeout whose handler goes on, `Fails` everything that
ends a handler early.

`Throttle` - one key. Which handlers are in between does not matter, so only
their number is kept: those that found the key unlocked (`open`), have verified
a wrong or the right password. `Check`, `VerifyWrong`, `VerifyRight`,
`RecordFailure`, `RecordAttempt`, `Clear`, `Lose` (a handler stops), `LockPasses`
and `Forget`, the TTL.

`MCScheduling` enumerates the calls. `MCAgent` and `MCRecords` join modules that
share no state: the variable `part` says which of them moves, so that one run
explores their sum and not their product. `MCAccounts`, `MCConnectLinks`,
`MCChat`, `MCLogin`, `MCHabitSessions` declare the symmetries. The last three
add a history variable `calm`, true as long as requests (tool calls) came one at
a time; a property `Calm...` is its counterpart under that condition, so that
one run checks what holds of all interleavings together with what holds of
sequential clients only. The condition is said with quantifiers (`OneAtATime`,
`NoSecondCall`), and the monitors only watch: `CalmSpec` implements `Spec`.
`MCChat` adds `gone`, true as long as every session that was to be deleted was.

Proof modules: `AccountsProofs`, `ConnectLinksProofs`, `ChatProofs`,
`LoginProofs`, `HabitSessionsProofs`, `SchedulingProofs`, `AgentProofs`,
`RecordsProofs`.

A definition whose comment begins with "Faulty:" is a plausible mistake in the
definition that follows it. It is in no next-state relation. Substituting it
there makes the property it is paired with in `PROJECT.json` fail, which is
evidence that the property can tell this code from a slightly wrong one.

## 3 Runs

Passing runs; each property stands in its module with a comment on the
behaviour it is about.

| Run | Instance | What it shows |
|---|---|---|
| `accounts_serial` | 1 request at a time, 3 accounts, 2 calendars (one selected by default), 3 tokens | the default is settled, every document readable, a stored credential is the latest issued, a dropped one is dead, a non-empty choice of calendars survives a reconnection, and the handlers implement `AccountBook` |
| `accounts_concurrent` | 2 requests, 2 accounts, 2 tokens, crashes | what survives every interleaving of both services: status agrees with credential, a credential belongs to its account |
| `connect_links` | 2 links, users, accounts, callbacks, 3 codes, lifetime 1, time to 2 | a link binds once and only what its screen consented to; opening a link does not spend it |
| `chat` | 2 requests, 3 messages, 3 sessions, limit 1, days 0 and 1 with midnight at any await; flush, delete, stream, expiry and crash may fail | of all interleavings: that a day lets through its limit, and another for each message that waited over a midnight and set the count back; what `new_session` says, and, while deletes succeed, that a session retired by a reset never answers a later message; of requests one at a time: nothing said is lost, and any live session but the current is summarized |
| `login` | 2 requests, 3 passwords, 2 sessions, 1 reset, crashes | a reset token works once and an eviction is complete when answered; for sequential requests, sessions match the password and logging in keeps it |
| `sessions` | 1 habit, 2 times, 2 calls with 4 attempts, 2 marks, 2 edits | one event per call, no session placed twice; for sequential tool calls, marks survive, and a review calls a session moved or gone only if someone changed it, its logging failed or (gone) its account was skipped |
| `scheduling` | days of 4 minutes, weeks of 3 days, periods of 0 to 2 days; two zones, every night with an override, two events in any position, session lengths out of order, the clock put back, put forward or left alone; 12180 calls | free time is what the blocked intervals leave, and what a minute-by-minute reading of the rules leaves open; candidates fit their gap, or overrun it by what the clock was put back in it; the collision checks agree with it |
| `agent` | 2 calls with 7 tokens; 2 statements with 3 attempts; 2 turns of a session | no request is handled twice, the retry carries another token, tokens are minted only when needed, every call ends; memory loses nothing without a log line and does not go back to a write that had ended with nothing adrift; the model is told of an absence only when a fetch found it, and the session is loaded in the end |
| `records` | 3 requests for a zone, a habit and the sleep schedule, one text and one list field; a throttle of 3 attempts, 3 handlers in flight, 1 lost | no document is left unreadable but for the zone of the finding below, no update undoes another, and the attempts at a key stay within what races allow |

Type invariants are not among the properties of these runs: they are proved.

Runs that find the code at odds with what it says of itself:

| Run | What happens |
|---|---|
| `accounts_dangling_default` | `delete` moves the default in three separate calls: two disconnects, or a disconnect and a connect, leave it at a deleted account, which is what the comment there says it prevents |
| `scheduling_overnight_zone` | `free_intervals` starts a zone's days on the first day of the period: the morning part of a zone that began on the eve is free, and slots are offered in it |
| `records_deleted_zone` | an update of a zone that is deleted between its read and its merge puts part of the document back under the id; from then on the list of zones raises `KeyError` |

Further configurations are kept for reference; run them the same way (`tlc
-config X.cfg M`). Four show the code at odds with itself as well:
`accounts_dropped_credential` (`MCAccounts`; `mark_needs_reauth` drops whatever
credential is stored by then, including the live one of a reconnection, not the
one that was refused), `chat_midnight` (`MCChat`; the day is read before the
quota transaction, so a request that waits over midnight writes yesterday back,
and the new day starts again from zero: `QuotaPerDay`, the limit as the docstring
has it, fails, and `QuotaUnlessLate` is what is left of it), `scheduling_clock_back`
(`MCScheduling`; on the night the clock is put back a gap has more real minutes
than the clock shows, and a candidate of that many minutes, added by the clock,
runs into the event after the gap), `scheduling_empty_zone` (`MCScheduling`; a
zone whose end is its start collides with a session around that time, though
`Interval`'s docstring says it collides with nothing). With `Asks <- SleepAsks`,
`FreeFromTheEveOn` fails too: the wake-up buffer after a night that ended late
on the eve; the comment there has the loop start one wake day early, which it
does not. `login_rehash` (`Login`; the upgrade of the hash on login writes the
old password back over one set between the check and the write) and
`sessions_moved_replay` (`MCHabitSessions`; a session moved away from its time
is taken for a replay when another is asked for at that time: nothing is created
and success is reported) break what the handlers promise, though no line says so
in words; `records_timed_out` (`MCRecords`) shows that a tool told of an error
may have created its zone. The others show where a property needs the condition
it has above: `accounts_unreadable` (a deleted document comes back in part and
makes every listing fail), `accounts_empty_selection` (an empty choice of
calendars is not kept), `accounts_stolen_default` (of two first accounts the
later takes the default), `accounts_page_counts` (the page counts the
preselection, not the choice that was kept), all on `MCAccounts`;
`chat_lost_turn` (a session archived while another request streams into it loses
that turn; so does one whose flush fails, as the delete follows all the same),
`chat_failed_delete` (a session that could not be deleted answers after a
reset), all on `MCChat`; `login_surviving_session` (`Login`: a session opened
during an eviction survives it); `sessions_lost_mark`,
`sessions_reordered_logs`, `sessions_gone_not_deleted` (`HabitSessions`: two
logs and a mark between; two moves logged in the other order; "gone" is also
said of an event moved out of the period, or in an account that was skipped).

**Bounds.** Two handlers suffice for every race on accounts, links, chat and
logins: each of them reads, waits and writes one document, and a third can only
repeat the second. Three accounts let a promotion choose among two. Three tokens
are one more than a rotation and a reconnection need; with one request at a time
all orders of up to three grants occur. Three messages with a limit of one reach
the refusal, and the one that comes back to a day that is over; two days reach
the turn of the day. Two codes could already be
swapped between two links; the third lets a link be tried again. Days of four
minutes let two windows take every order on a day, touch and cross midnight; a
week of three days tells the eve, the day and the morrow apart; two intervals
reach every case of the merge, and three or more (two zones, a night with both
its buffers and an event) occur in `MixedAsks` and `SleepAsks`. Cool-down and
buffer stay below a day, as the 600 minutes of the schema do. Two calls reach
placing again what was deleted, moved or lost; four attempts are the code's own
`_MAX_INSERT_ATTEMPTS`, as three are of `_BACKGROUND_WRITE_MAX_ATTEMPTS`. Two
calls of a client reach the case that one drops the token the other has minted,
and two waiting for the lock; seven tokens are more than two calls and a cache
can hold. Two turns overlap in every way. Three requests let an update, a
deletion and a second update meet in one zone. Three handlers that are all past
the check when the key is locked reach the bound of `AttemptsBounded`. Every
bound is a constant: `Tokens`, `Messages`, `Sessions`, `MaxDay`, `MaxTime`,
`Passwords`, `Resets`, `Calls`, `Marks`, `MaxEdits`, `Asks`, `Writes`, `Turns`,
`MaxInFlight`, `MaxLost`; the proofs set none of them.

**Deadlock.** It is checked for `Accounts`. In the other modules messages,
passwords, codes, time, statements or tool calls are used up, or the one call is
answered, and a run that has used all of them stops (`CHECK_DEADLOCK FALSE`).

**Symmetry.** Only constants that no definition tells apart are permuted:
accounts, tokens, requests, links, users, codes, messages, sessions, passwords,
calls, marks, times, zone ids; never calendars, since some are selected by
default, and nothing in `MCAgent`, whose run checks liveness.

**Fairness.** It is assumed where an event loop of a living process justifies it.
`ClientFairness`: each call of the client goes on when it can, minting ends with
a token or an exception, and a request is answered or times out (httpx has a
timeout); then every call ends (`CallsEnd`), which needs that no exception
leaves the lock held. `SessionFairness`: the user goes on talking, a turn that
can go on does (weak), and a fetch that is made again and again succeeds at some
time (strong, of the fetches that succeed); then profile and zones are loaded for
good (`SessionLoads`), which needs that a failure is not latched. Elsewhere none
is assumed and no liveness is claimed: handlers run on Cloud Run and may be
stopped at any await, and nothing in the code resumes one. What "eventually"
could mean there is said as what holds once no request is in flight
(`DefaultSettled`, `OneLiveSession`, `ReviewIsFair`), which is also what a user
sees.

## 4 Proofs

All of it holds for every value of the constants.

* `AccountsProofs`: `AccountsInv` is inductive. That status and credential
  agree needs that a handler about to write a document holds a credential
  (`HandlerOK`); that a credential belongs needs besides that the provider
  never issues a token twice (`HandlersConsistent`). Lemmas say once what a
  step of a kind does (`HandlerStep`, `DocumentStep`, `IssueStep`, ...), and
  each action is an instance of one of them.
  With a single handler that does not crash, `SerialInv` is inductive, which tells at each await what is already
  settled (`SerialDefaultSettled`, `SerialAccountsReadable`). `SoloInv` adds
  that what such a handler has read is still true after each await
  (`SnapshotOK`) and that a dead credential is stored only until the handler
  that replaced or revoked it writes the document (`CurrentBut`). From it
  follow `SerialCredentialCurrent`, `SerialDroppedIsDead`,
  `SerialSelectionSurvives`, and that the handlers implement `AccountBook`
  (`ImplementsTheBook`): `BookOfOne` says what the refinement mapping comes to
  with one handler, and each action is an instance of `BookSame`,
  `BookConnects`, `BookDisconnects`, `BookChooses` or `BookFails`: a stutter,
  or one whole operation of the book. Each theorem states its condition on
  `Requests` and `CanCrash`; the configurations with two requests
  that section 3 keeps for reference show what breaks without it.
* `ConnectLinksProofs`: `LinksInv`. A binding is unique because the handler that
  makes it took the nonce out of the store (`HandlersExclusive`), and is
  consented because the code it exchanged came from that link's screen
  (`ExchangedCodes`). `UntriedLinkWorks`: a nonce leaves the store only by a
  callback that names it or by the sweep of what has expired.
* `ChatProofs`: types, and `QuotaSafe` for any number of racing requests and
  midnights at any await, without a hypothesis; `QuotaInv` bounds what a day has
  let through by one limit for each message that came late and, of the stored
  day, the stored count (of an earlier day, one limit more; of a later, none).
  `NewSessionIsTrue` holds of every interleaving: a message is in one place
  (`OneHandlerEach`), whatever can be continued has a first turn
  (`SessionsMade`), and nobody knows of a session before its creator saves it
  (`CreatorsAlone`). `ResetHolds` follows from `RetiredAreDead`: what a
  reset has retired is dead, and so is what one is about to retire. `CalmInv`
  follows the one handler of a sequential client through archive and creation,
  and gives `CalmLosesNothing` and `CalmLeavesOneSession`.
* `LoginProofs`: `LoginInv`; a used reset token is gone, and while sessions
  are evicted those stored before the update are still on the list, the
  caller's, or gone. `CalmInv`: a password that was verified is still the
  password when its hash is upgraded or its session opened, and a session with
  another is about to be evicted; hence `CalmSessionsMatch` and the action
  property `CalmRehashIsHarmless`.
* `HabitSessionsProofs`: `SessionsInv`; every live event of a call carries the
  id the call holds (`OwnEvent`), and a call leaves the hashed id only for a
  tombstone, which never comes to life again (`HashedFirst`). `CalmInv`: while
  tool calls come one at a time, what the one in flight is about to log is what
  the calendar has (`Matches`), it knows whether the document is there
  (`Informed`), and every other plan on file is its event (`PlansTrue`), unless
  somebody changed it or a log failed; marks and edits still come at any
  moment. `CalmMarksStand` and `CalmReviewsAreFair` follow.
* `SchedulingProofs`: `SchedulingInv` says of each loop what it has done so
  far. While merging: the merged intervals lie apart, begin before all that are
  left, and together with those cover what is blocked (`MergeInv`); while
  sweeping: up to the cursor the gaps are exactly what is not blocked, after it
  the remaining intervals are exactly what is (`SweepInv`). `FreeTimeIsTheRest`
  follows for days, weeks, periods and schedules of any size; `SlotsStayInGaps`
  follows for a clock put forward or back by any amount (`PutBack`), and
  `scheduling_clock_back` shows that candidates do overrun their gap by it;
  `ChecksAgree` goes through `FreeTimeIsTheRest`: two intervals overlap where
  they share a minute, and minutes that are all free lie in one gap because
  gaps are apart. `FreeTimeIsOpen` relates the intervals to a minute's own day
  and time: minutes are ordered by day and, within one, by time (`ClockOrder`),
  so a window laid on a day covers minutes of that day and the next
  (`InWallClock`); then come zones, nights, cool-downs and wake-up buffers in
  turn (`ZoneByClock`, ..., `BlockedByClock`). It takes cool-downs to be no
  longer than a day, where the schema has 600 minutes at most: the loop over
  nights stops a day after the period.
* `AgentProofs`: `ClientInv` says what a call has had of the service at each
  stage (`HandledInv`), that the cache never holds a token some call was refused
  with (`TokenInv`: a call that drops one drops the cache, and what is minted
  later is new), and that who mints holds the lock and has looked (`LockInv`).
  `MemoryInv` carries that a write which was settled stays so (`StageInv`),
  without which `SettledOrder` is not inductive. For `Preload`, `HonestInv` is
  about every copy of the session's state: a topic that shows nothing was not
  loaded, or was found empty; `CalmInv` relates the copy of the only turn under
  way to what is saved (`Copies`, `Sound`).
* `RecordsProofs`: `CountInv` accounts for what was allowed as counted, about to
  be, lost, or forgotten with the document (`Forgone`); once the key is locked,
  only handlers that had found it open may add to it. `RecordsInv`: ids are
  drawn once (`OwnIds`), documents are written whole (`Whole`), and a handler
  about to merge relies on a document that is there unless it was deleted
  (`Relies`).

The assumptions on constants are the named `ASSUME`s of the modules: the null
values lie outside the sets they complete, limits are numbers, flags are
Boolean, operations and failures are among those known.

Every safety property of a passing run, invariants and action properties, is
stated by a theorem, under a condition that the run's constants meet. What TLC
adds is that the conditions are met by real behaviours, that each property fails
for its mutant, and that the configurations kept for reference fail: a theorem
says what holds under its condition, not that the condition is needed. Out of
the prover's reach, and only model-checked: liveness under fairness (`CallsEnd`,
`SessionLoads`). No property here needs `ENABLED` or induction over data.

## 5 Not modelled, and plan

Left out of a component that is otherwise modelled:

* Habit sessions: the choice among several writable calendars and the roles
  cached for an invocation, the limit of twenty pages when events are read, and
  calls that change nothing.
* Scheduling: the ranking of candidates and the cut to ten of them, the parsing
  of goals, and what the tools answer when a read fails. Which candidates are
  shown is a matter of taste to which no property of this project applies.
* Login and throttles are separate modules: a throttled request is one that was
  not made.

What would come next, in this order: the choice of calendars in `HabitSessions`;
which part of `StoredCredentialCurrent` and of the refinement outlives two
handlers that never touch the same account.

Not planned: the language model and its instruction (no transition relation),
its evaluations, HTML, wiring, e-mail, encryption, telemetry, Terraform and the
scripts (pure I/O or declarations). What a modelled handler sees of them is in
its actions: a message is delivered any number of times, a call fails, a TTL
policy deletes a document late.
