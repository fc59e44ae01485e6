# TLA+ verification of timekeep-web

timekeep-web is a time tracker on Cloudflare: a Worker (HTTP API), a D1 database
shared by everybody, one `UserHub` Durable Object per user, and a web client that
follows a per-user event log. This directory holds TLA+ models of its core, the
TLC configurations that check them, and theorems about them that TLAPS checks.
Paths below are relative to the repository.

- [The system](#the-system)
- [Modules](#modules)
- [UserHub](#userhub-the-timer-and-the-pomodoro-cycle), [SyncFeed](#syncfeed-the-event-log-and-the-devices),
  [AuthSessions](#authsessions-signing-in-and-being-cut-off),
  [SessionLog](#sessionlog-time-entered-by-hand),
  [TaskGraph](#taskgraph-projects-tasks-and-dependencies),
  [Social](#social-friends-groups-and-leaving-them),
  [Goals](#goals-periods-progress-and-reports),
  [RateLimits](#ratelimits-budgets)
- [Runs](#runs)
- [What is proved](#what-is-proved)
- [What the models showed](#what-the-models-showed)
- [Not modelled](#not-modelled)

## The system

| Component | State | Operations | Talks to |
|---|---|---|---|
| `UserHub` (`src/worker/do/user-hub.ts`) | memory: `loaded`, `running`, `pomo`, `settings`, `nudgeNextAt`, `lastEventId`; storage of its own: key `pomo`, rate counters, one alarm | `/timer` start, stop, switch; `/pomo` start, start_break, skip; `/notify`; `/state`; `/ratelimit`; `/revoke`; `/wipe`; WebSocket upgrade; `alarm` | writes D1 `time_sessions`, `active_timers`, `sync_log`; broadcasts on sockets; tells friends' hubs |
| Event log (`events.ts`, `routes/misc.ts`, `cron.ts`) | D1 `sync_log`: per-user events, ids in commit order | append with the entity in one batch; best-effort `/notify`; `GET /sync?since=`; `/bootstrap`; pruning after 2 h | the hub; every client |
| Client store (`web/lib/store.ts`) | entities, `lastEventId`, polling cadence | bootstrap, apply event, reconnect, poll, optimistic update, undo | API and WebSocket |
| Login sessions (`middleware.ts`, `routes/auth.ts`, `routes/me.ts`, `routes/admin.ts`) | D1 `users`, `auth_sessions`, `email_tokens` | login, rotate, logout, revoke others, change, reset, deactivate | the hub (`/revoke`, re-check on upgrade) |
| Session log (`routes/sessions.ts`, `rules.ts`) | D1 `time_sessions` | manual create, edit, delete, guarded against overlap | shares the table with the hub |
| Projects, tasks, subtasks, dependencies (`routes/projects.ts`, `routes/tasks.ts`, `rules.ts`, `access.ts`) | D1 tables of the same names; tombstones | CRUD, reparent, reorder, dependency edges, archive, delete with undo | event log; hub through `task.deleted`, `project.deleted` |
| Groups, invitations, chat (`routes/groups.ts`, `group-auth.ts`, `routes/chat.ts`) | members, roles, permissions, links, messages, read marks | invite, join, leave, remove, transfer, delete | event logs of all members |
| Friends and presence (`routes/friends.ts`, `social.ts`) | requests, friendships | request, accept, decline, remove | event logs of two users |
| Account deletion (`routes/me.ts`) | everything of one user | hand over groups, delete, `/wipe` | hub |
| Rate limits, login lockout (`middleware.ts`, hub) | counters in the hub and in D1 | charge, lock, clear | hub, falling back to D1 |
| Goals and reports (`shared/goals.ts`, `shared/time.ts`) | none (pure) | windows, pro-rated targets, status, statistics | - |
| Export, import, restore (`routes/export.ts`) | all of a user's rows | chunked import, undo of deletions | event log |
| Cron (`cron.ts`) | - | prune logs and expired sessions, dump to R2 | - |

What is hard here:

- **Interleaving inside an object that looks serialized.** A Durable Object runs
  one handler at a time only until the handler awaits something that is not its
  own storage. Every `env.DB` await opens the input gate, so any request of the
  user may run between a check and the write it guards.
- **Partial failure.** A D1 batch may be rejected, or applied with its answer
  lost. Between batches nothing is atomic.
- **Three copies of the timer** (memory, `active_timers`, `time_sessions`) and two
  of the cycle (memory, the object's storage), with an eviction possible at any
  await.
- **Best-effort delivery.** `/notify` may be lost or overtaken; D1 commit order,
  arrival at the hub and arrival at a device are three different orders.
- **One alarm for three deadlines.**
- **Check-then-act across D1 statements** in the routes.

What makes each component correct is listed with the hazards in `PROJECT.json`,
each at its line, with the property that covers it or the reason why none does.

## Modules

| Module | What it is |
|---|---|
| `SingleTimer` | The abstract promise of the session log: one session open at a time, opened once, closed once. |
| `UserHub` | The hub's timer, cycle, recovery and alarm, with the D1 rows and the storage it uses, failures and crashes. Type invariant, safety invariants of the session log, the inductive invariant, the refinement mapping to `SingleTimer`. |
| `UserHubChecks` | The other properties of the hub, and its fairness. |
| `UserHubMC` | The definitions the `.cfg` files of the hub give to TLC. |
| `UserHubProofs` | Types; the invariant of the log and the refinement; then, for requests that do not overlap, the recovery row, the cycle and the alarm. |
| `SyncFeed` | The event log, the fan-out through the hub and the store of each device: mutations, notifications, sockets, polls. |
| `SyncFeedChecks` | Its properties: type, safety, the two inductive invariants, convergence. |
| `SyncFeedMC` | The definitions its `.cfg` files give to TLC. |
| `SyncFeedProofs` | `Spec => []FeedInv`, the prefix theorem, and lemmas on pages and cursors. |
| `AuthSessions`, `...Checks`, `...MC` | The sign-in sessions of one account: login, rotation, every way to be cut off, cookies, sockets. |
| `AuthSessionsProofs` | The four properties of `auth`, for any number of browsers, requests, sessions and tokens. |
| `SessionLog`, `...Checks`, `...MC` | Manual sessions beside the timer. |
| `SessionLogProofs` | The three promises of the session log, for any tasks, sessions, requests and times. |
| `TaskGraph`, `...Checks`, `...MC` | Projects, tasks, subtasks, dependencies; undo, export and import of them; what devices show; its inductive invariant. |
| `TaskGraphProofs` | `Spec => []GraphInv` and the three properties of `tasks`, for any users, projects, tasks, subtasks and requests in flight. |
| `Accounts` | What the social routes share: accounts, and requests that check, write and announce. |
| `Friends` | Friend requests, friendships, presence. |
| `GroupLife` | Members, invites, links, shared projects and time, chat. |
| `Social`, `...Checks`, `...MC` | Composes the three (`EXTENDS`), and adds the deletion of an account, which goes through all of them; its inductive invariant. |
| `SocialProofs` | `Spec => []SocialInv` and the five properties of `social`, for any users, groups, limits and requests. |
| `CivilTime` | `shared/time.ts`: zones, civil days, weeks. |
| `GoalMath` | `shared/goals.ts`: periods, targets, status, statistics. |
| `Goals`, `...Checks`, `...MC` | Goals, reports, and the device that says how a period ended, over the two. |
| `GoalsProofs` | Devices, reports of ends, elapsed periods, progress, charts and streaks, for any goals, sessions, zones and requests; days, searches and sums over any finite set. |
| `RateLimits`, `...Checks`, `...MC` | The counters of requests, in D1 and in the hub. |
| `RateLimitsProofs` | The three properties of `limits`, for any sources, names, limits and windows. |

## UserHub: the timer and the pomodoro cycle

**State.** The variables are the fields of the class (`loaded`, `running`, `pomo`,
`cfg` for `settings`, `nudgeAt` for `nudgeNextAt`), its storage (`kvPomo`,
`alarm`), the D1 rows (`rows` for `time_sessions`, `mirror` for `active_timers`,
`taskState` for tasks with their project, `settings`), the handlers in flight
(`reqs`), the `/notify` calls under way (`notes`) and the clock.

**Steps.** A handler is a thread, cut at its D1 awaits and nowhere else:

| Code | Actions |
|---|---|
| `ensureLoaded` | `Load`, `LoadSettings`, `LoadMirror`, `LoadPomo`, `LoadDone` |
| `timerStart` | `TimerStart`, `StartCheck` or `StartNotFound`, `StartBatch`, `StartDone`, `StartPomo`, `StartRearm` |
| `timerStop` | `TimerStop`, `StopBatch`, `StopFreeze`, `StopClear` |
| `timerSwitch` | `TimerSwitch`, `SwitchCheck` or `SwitchRefused`, `SwitchBatch`, `SwitchDone`, `RearmAndReply` |
| the `catch` of the three | `Resync`, `Resynced` |
| `pomoStart`, `pomoBreak`, `pomoSkip` | `PomoStart`, `PomoStartCont`; `PomoBreak`, `BreakSet`; `PomoSkip`; both of the former call into the timer's threads (`from` is where they return) |
| `/notify` | `NotifySettings`; `NotifyDeleted`, `GoneBatch`, `GoneDone`, `GoneAnchor` |
| `alarm` | `AlarmFires`, `AlarmNudge`, `AlarmDecide`, `AlarmBreakOver`, `AlarmAuto`, `AlarmRearm` |
| uncaught errors | `Throws` |
| other routes | `SaveSettings`, `PatchProfile`, `TombstoneTask`, `DeleteGroup`, `ArchiveProject`, `UndoDelete` |
| platform | `LoseNotify`, `Evict`, `Tick` |

`PersistRearm` and `RearmAndReply` reflect that `persistPomo` awaits D1 only while
a timer runs. A D1 batch and the code after it are two steps: another handler may
run after the batch is applied and before its sender resumes.

**Abstractions.** A (task, subtask) pair is one `Task`. Ids are numbered in
creation order. One tick stands for longer than the millisecond a switch leaves
between two sessions and than `rearmAlarm`'s one second of slack. Events are left
to SyncFeed. A batch under way at an eviction has been applied by then, or never is. The
D1 copy of the cycle in `active_timers.pomo_state` is left out:
nothing reads it. Manual sessions (`routes/sessions.ts`) are another component's:
here only the hub writes `time_sessions`.

**Environment.** The constants say what an instance may meet: `Faults` (a call
`rejected`, `unacknowledged`, `unreadable`, a notification `unnotified`), `Edits`
(what other routes do), `SlowHandlers` (may the clock tick while a handler waits),
the number of handlers `Req`, and the bounds `MaxFaults`, `MaxEvictions`,
`MaxSessions`, `MaxTime`, `Horizon`. The theorems hold for all of them.

**Fairness** (`UserHubChecks!FairSpec`): a suspended handler goes on (D1 answers
or fails), the clock runs, and a due alarm is delivered - the runtime guarantees
at-least-once delivery of alarms with retries. The clock gets strong fairness: in
the runs of the cycle it stands still while a handler is suspended (`SlowHandlers`
is off), so that a stream of requests disables `Tick` again and again, and real
time goes on all the same. No request, edit, fault or eviction is fair: none has
to happen.

## SyncFeed: the event log and the devices

**State.** `log` is D1's `sync_log` of one user, and with it the rows the events
announce: `commitWithEvents` writes both in one batch, so the database as of event
`n` is a function of the log (`AsOf(n)`). `notes` are the `/notify` calls under
way, `replies` the responses. The hub has its cursor `hubLast`, `loaded`, and the
`MAX(id)` an `ensureLoaded` has read and not stored yet (`loading`). A device has
a socket (`sock`, `queue`), its store (`lastEventId`, `view`) and the polls in
flight. `applied`, `pollOnly` and `lost` are history: no action reads them, except
to bound losses.

| Code | Actions |
|---|---|
| `commitWithEvents`, the response, `notifyHub` | `Mutate`; `Reply` (`upsertLocal`) or `LoseReply`; `LoseNotify` or `Notify` |
| `ensureLoaded` of the cursor, eviction | `HubReads`, `HubLoads`; `Evict` |
| `/notify`, `handleUpgrade` | `Notify`, `Accept` |
| `connectWs` | `Open`, `Receive`, `Close` |
| `applyEvent` | `ApplyEvents` |
| `startPolling`, `poll`, `GET /sync` | `PollStarts`, `Sync`, `PollApplies`, `PollFails` |

The two awaits that matter are steps of their own: `ensureLoaded` reads and resumes
in two, and a poll asks, is answered, and applies in three - a socket frame or an
own response may come between any two of them.

Some events come without the row they are about (`Rowless`: those of some entities):
the reorder of the projects announces `project.updated` with their ids only. On such an
event of another device `applyEvent` throws before it raises `lastEventId` (`Refuses`);
the events of the page before it are in the store (`Taken`), the poll ends in its
`catch`, and the next one asks from the same cursor and throws again. On a frame of
the socket nothing but that frame is lost. `FallbackConverges` promises what is true in
spite of it: the device shows the database as of the last event before the first such
one, or later. That it shows all of it, as the comments say, is false.

**Abstractions.** An event replaces the entity of its key, and a payload is named
by its event's id. The store's merge of partial payloads, the events that make the
store refetch (groups, friends), the running timer in `hello` and in `GET /sync`,
and the await of `invalidateDeletedTasks` inside `/notify` (`UserHub` has it) are
left out, and so are bootstrap, refresh and pruning.
`startPolling` polls at once only if the cadence changes; which cadence is in force
depends on how long connecting took, so `Open` leaves open whether it polls.

**Fairness** (`FairSpec`), for every device: the poll interval fires for ever
(`WF(PollStarts)`), and a network on which polls always start answers and delivers
now and then (`SF(Sync)`, `SF(PollApplies)`: polls may fail for ever only
if from some time on no poll is asked). No notification, socket or hub step is fair:
a device must converge without them.

## The modules of the routes

The Worker keeps no state between requests: everything is in D1, and every
statement sent to D1 is an await. `AuthSessions`, `SessionLog`, `TaskGraph`,
`Social` (with `Accounts`, `Friends`, `GroupLife`) and `Goals` are therefore built
alike. The D1 tables are functions from ids to rows (or `None`); a request in
flight is a record in `reqs` with what its checks have read (`seen`, `row`, `on`)
and where it is suspended (`pc`); its actions are its checks (named after the
route: `PatchTask`, `JoinByLink`), its write (`WriteTask`, `CommitJoin`) and, where
the code announces in a batch of its own, its event (`TellTask`, `Tells`). D1 runs
a batch as one transaction, so a batch is one action. A Worker may stop between
two actions (`Die`), and then its request is never heard of again. A request that
its checks refuse changes nothing and has no action.

Each behaviour draws on a bounded number of *acts* (`ActMax`, or `max` of its
scene): requests that begin, acts of administrators, bad luck. A *scene* is the
set of request kinds one behaviour is made of; a run starts in any of its scenes.
That cuts the interleavings of routes that share no row, and leaves all those of
routes that do; scenes overlap where kinds meet different partners.

History variables (`stale`, `loose`, `raced`, `excused`, `made`) record that a
request has written on grounds that no longer held, or which rows two overlapping
requests were about. The code has no transaction around check and write and
accepts such races; the properties say exactly what holds but for them, and what
holds in spite of them.

## AuthSessions: signing in and being cut off

**State.** One account: the row of `users` (`account`), the rows of
`auth_sessions` (`sess`) and `email_tokens` (`mail`), the browsers' cookies (`jar`),
the sockets of the hub by session (`sockets`), and the `/revoke` and `/wipe` calls
under way (`revokes`).

| Code | Actions |
|---|---|
| `requireAuth`, `loadSession` | `LoadSession`, `DropStale` (the expired row, by id), `Gate` |
| `rotateSession`, `rotateIfNeeded` | `Rotate` (compare-and-swap on id and hash), `AfterLostSwap` |
| `jsonError`, `tooMany`, answers of the hub, behind `requireAuth` | `AnswersRaw` |
| `/auth/login`, `/auth/logout` | `LoginChecks`, `LoginInserts`; `Logout` |
| `/me/sessions/:id`, `/me/sessions/revoke-others`, `/me/password`, `DELETE /me` | `EndSession`, `EndOthers`, `Verify`, `ChangePassword`, `DeleteMe` |
| `/auth/reset-request`, `/auth/reset-confirm` | `ResetRequest`; `Claim`, `ResetConfirm` |
| `/admin/users/:id` | `Deactivate`, `Activate`, `AdminResets` |
| `GET /ws`, `handleUpgrade` | `WsLoads`, `WsGate`; `HubChecks`, `Accept`; `CloseSocket` |
| `/revoke`, `/wipe` | `HubRevokes`, `LoseRevoke` |
| browser, time, cron | `Send`, `Receive`, `LoseAnswer`; `Age`, `MailExpires`; `CollectExpired` |

**Promises.** `RevokedStaysDead`: whatever was in flight, no ended session comes
back - above all through a rotation. `CookieFollows`: parallel requests of a
browser in the last week of its session never leave it with an overwritten
token, because only the winner of the swap sends a cookie - unless that answer was lost,
or was made without the cookie: a rotation commits before the route runs, and what the
route then refuses it refuses with a `Response` of its own, into which the cookie is not
merged (`AnswersRaw`, `RawDone`; `dropped` remembers the token). `CutOffHolds`: no
session outlives a password change, reset or deactivation, but for a login that had
passed its check. `SocketsFollow`: no socket outlives its session unless the hub is
still to be told (or the call was lost), and the caps hold.

## SessionLog: time entered by hand

**State.** The rows of `time_sessions` (`sess`), the session the hub runs
(`running`) and the operation it is in the middle of (`op`), the undo toast
(`undo`), the last export (`file`). `UserHub` has the hub's side in full; here it is
what other rows can meet: begin (the checks) and commit (the batch).

| Code | Actions |
|---|---|
| `POST /sessions`, `INSERT_SESSION_GUARDED` | `CreateSession`, `CommitCreate` |
| `PATCH /sessions/:id`, `UPDATE_SESSION_GUARDED` | `ReadSession`, `PatchSession`, `CommitPatch` or `Refuse` |
| `DELETE /sessions/:id`, `/restore`, `/export`, `/import` | `DeleteSession`, `CommitDelete`; `Restore`, `RestoreSession`; `Export`; `Import`, `ImportSession` |
| the hub | `TimerStart`, `TimerStop`, `TimerSwitch`, `TimerCommit` |

**Promises.** `GuardedAreDisjoint`: two sessions written by the guarded statements
never claim the same time of a task. The timer's rows are not guarded, and the
promise for them is `TimerOverlapIsLater`: they meet a manual session only in time
that was still to come when it was checked, or through a start under way.
`RunningIsSpared`: no route writes the row the hub runs and goes on running.

## TaskGraph: projects, tasks and dependencies

**State.** The tables `project`, `task`, `dep`, `sub`, and `told`: what a device
shows that has applied every event (`applyEvent` for these types). There is one
group, its permissions are the sets `Editor` and `Manager`. `maker` is the column `user_id`
of `task_dependencies`: who has inserted an edge.

| Code | Actions |
|---|---|
| `routes/projects.ts` | `CreateProject`, `CommitProject`; `PatchProject`, `WriteProject`, `TellProject`; `DeleteProject`, `CommitDeleteProject` |
| `routes/tasks.ts` | `CreateTask`; `PatchTask`, `WriteTask`, `ReadTaskBack`, `TellTask`; `DeleteTask`, `CommitDeleteTask`; the same for subtasks |
| `createDependency`, `DELETE .../deps` | `Link`, `WriteLink`; `Unlink`, `WriteUnlink`; `TellEdge` |
| `/restore` | `Restore`, `RestoreTasks`, `RestoreSubs`, `RestoreDeps`, `TellAll` |
| `/export`, `/import` | `Export`; `Import`, `ImportProjects`, `ImportTasks`, `ImportSubs`, `ImportDeps`, `TellAll` |

**Promises.** `CheckedEdgesAreLegal`: dependencies are acyclic and stay within a
project, but for edges and moves whose check had been overtaken, for those of undo,
and for those that an import judged without the edges of other members. `NoTaskOutlivesProject` and `DevicesFollow` in the same manner.

Export has the edges that the user has made (`Made`), and import judges those of the
file one after another, each against the user's own with those accepted before it;
a device cannot tell in which order, so `Outcomes` is the set of what the loop can end
with. In a shared project that is not the whole graph. It inserts them later, by which time a task of
the file may have been moved to another project: such an edge is put in place without a
check that still holds (`InPlace`). `PATCH /tasks/:id` reads the neighbours of a task
before it moves it, and an edge inserted in between is not among them (`Placed`). Both
are overtaken checks in the sense of `loose`.

## Social: friends, groups and leaving them

`Accounts` holds the requests and the accounts; `Friends` and `GroupLife` extend it
and are independent of each other; `Social` extends both, composes their next-state
relations and adds `DELETE /me`: it plans a successor for each owned group
(`Successor`, `Plan`, read before the batch) and then, in one batch, hands on groups,
projects and tasks and lets the cascade take the rest (`CommitDeleteMe`).

| Code | Actions |
|---|---|
| `routes/friends.ts`, `social.ts` | `Request`, `InsertRequest`, `Accept`, `AcceptById`, `RemoveRequest`, `Unfriend`; `Track`, `Rest`, `Presence` |
| `POST /groups`, `DELETE /groups/:id` | `CreateGroup`, `InsertGroup`, `InsertOwner`; `DeleteGroup`, `CommitDeleteGroup` |
| joining | `JoinByLink`, `CommitJoin`; `AcceptInvite`, `CommitAccept`; `DeclineInvite`; `Invite`, `CommitInvite`; `CancelInvite`, `CommitCancel`; `NewLink`, `CommitLink`; `RevokeLink`, `CommitRevoke`; `Expire` |
| members | `Leave`, `RemoveMember`, `CommitLeave`; `PatchMember`, `CommitPatch` |
| shared projects, time | `NewProject`, `CommitProject`; `DropProject`, `AddTask`, `TrackTime` (one step each; `TaskGraph` and `UserHub` have them in full) |
| chat | `Post`; `EditMessage`, `CommitEdit`; `DeleteMessage`, `CommitDeleteMessage` |
| events, devices | `Tells`; `Refetch` |
| accounts | `DeleteMe`, `CommitDeleteMe`; `SetActive`; `Die` |

**Promises.** `CapsHold` for members, links, uses, friends and requests, under all
races. The cap on the groups of a user (`GroupsMax`) is in `InsertGroup` as it is in the
statement, which counts memberships; that of the owner is a second statement, so that
two groups created at once pass it together. `OwnerHolds` and `ListsFollow` unless a request wrote on overtaken grounds or
a Worker died half-way through. `SharedTimeSurvives` (INV-06): time tracked by others
on a live project of a group is not lost with the account of the project's or the
task's creator. `DeletedStaysHidden`: an edit under way never uncovers a deleted
message.

## Goals: periods, progress and reports

`CivilTime` and `GoalMath` are the pure functions of `shared/time.ts` and
`shared/goals.ts`, over small numbers of units to a day, days to a week and to a
month; a zone changes its offset once. `dayStartInstant`'s guesses and its binary
search are both there; since TLC would evaluate them over and over, `DayStarts` is a
constant that an assumption equates with `FirstInstant`, and TLC evaluates that
assumption.

`Goals` has the tables `goal`, `session`, `task`, the user's calendar `cal`, the
clock, and of the device the answers under way, `lastSeen` and the next check.
`Progress` is `GET /goals/progress`; `DayBucket`, `RangeTotal`, `WeekColumn`,
`AllColumn`, `GroupBucket` and `MemberTotal` are the figures of the
reports, but for the totals under the table. Time is in milliseconds, of which the model has `PerMinute` to a minute, and a
figure is `Minutes` of a time, rounded where the code rounds (`WindowTime`, `DayTime`,
`RangeTime` ... are the times before). Goals are
posted (`PostGoal`, `InsertGoal`), patched (`PatchGoal`, `UpdateGoal`), read back and
announced (`ReadGoalBack`, `TellGoal`), deleted (`DeleteGoal`, `CommitDelete`), undone
(`UndoDelete`: a new goal), exported and imported; sessions, tasks and the calendar
change in single steps; the device asks, receives and loses answers (`Asks`,
`Receive`, `LoseAnswer`). A Worker may die, and D1 may fail, between any two statements
of a request (`Die`); what it has written and not told of is in `untold` until some
later event shows it. No project is deleted, and a `PATCH` changes one field.

**Promises.** `AllTimeIsCounted`: the periods partition the goal's life, over a
skipped or repeated midnight, so that their times add up to the time tracked in scope
exactly, and the figures shown to half a minute for each.
`ElapsedIsSettled`: a period that is over does not change when the clock, the timer
or an archive button moves on. `ReportsAgree`: days, ranges, the week's column, all
time, members and group hold the same time, and their figures agree to half a minute
each. TLC compares them (`FiguresAgree`) in the scenes in which somebody looks at
reports, the theorem in every state. `StreaksAreRuns` compares the one-pass
statistics (which fold over all periods and pass by those that are not over, where the
code filters first) with their definition. `ReportedOnce`: each period's end is reported at most
once, in order, however checks overlap. `DevicesFollow` as in TaskGraph, but for goals in
`untold`, which `events.ts:43-58` claims there are none of.

## RateLimits: budgets

**State.** `d1` (`rate_counters`: count and expiry by key) and `hub` (the object's
durable counters), keys being rule, subject and window; requests that go through
their chain of charges (`Hit`; `Challenge`; `HubCounts`, `HubAnswers` or `HubFails`,
which falls back to D1), the collection of expired counters, the clock. A request
takes no longer than the minute (`Slack`) by which a counter outlives its window. The
second budget that a message and an invite are charged to, behind the first, is left out;
the properties are of each counter.

**Promises.** `BudgetHolds`: no counter lets more than its limit through in a window,
so that a user whose hub comes and goes has at most two budgets. `NoneRefusedEarly`:
a refusal means that more than the limit have come, although routes are throttled at
two places. `LockoutTakesMany`: the ceiling of a name refuses only after at least two
other sources have used it up - what the order of the charges in `/auth/login` is for.

## Runs

States are distinct states of the passing runs.

| Run | Question | Instance | Result |
|---|---|---|---|
| `hub_log` | Is the log that of a single timer whatever interleaves and fails? | 2 handlers, 2 tasks, 3 sessions, one fault of any kind, one eviction, all at one instant | `MirrorIsOpen`, `RunningIsRecorded`, `ImplementsSingleTimer` hold; 970 000 states |
| `hub_faults` | What may failing D1 calls and a restart cost a user who makes one request at a time? | 1 handler, two failures of any kind, one eviction, a clock that runs while handlers wait | `OpenIsRecoverable`, `NoOverlap`, `EndedIsFinal`; 1 340 000 states |
| `hub_edits` | Do settings, deletions, archiving and undo by other routes leave the copies agreeing? | 1 handler, all edits, one lost notification or rejected batch, one eviction, all at one instant | `AtRestAgree`; 790 000 states |
| `hub_cycle` | Does the cycle count tracked time, survive a restart, keep its alarm, and does a break end? | 1 handler, focus of 2 ticks, break of 1, auto-start on and off, one eviction | five properties, `BreakEnds` under fairness; 226 000 states |
| `sync_feed` | Does a device that polls follow the database, whatever sockets, hub and notifications do? | one device and a server that write, 2 entities of which one's events lack their row, 2 events, pages of one event with one drained page, one lost notify, one poll in flight | `CursorInLog`, `FallbackMissesNothing`, `FallbackIsPrefix`, and `FallbackConverges` under fairness; 629 000 states |
| `auth` | Does every cut-off cut off? | 1 browser, 2 requests in flight, 5 acts, 2 sessions, 3 tokens, one mail, caps of 1 | four properties; 1 670 000 states |
| `sessions` | Do manual sessions and the timer share the table without claiming time twice? | 3 sessions, 2 tasks (one of a group), one subtask, 2 requests and the hub, 4 acts | three properties; 321 000 states |
| `tasks` | Does the graph stay legal, and do devices follow? | 2 users of a group, 2 projects, 2 tasks, a subtask, 2 requests, 3 acts; 4 where members link, unlink and import in turn; 3 scenes | three properties; 516 000 states |
| `social` | Do caps, ownership, lists and shared time survive races and departures? | 3 users, 2 groups, 2 projects, 2 tasks, one message, 2 requests, 4 or 5 acts, 8 scenes | five properties; 513 000 states |
| `social_history` | "So the rows (and everyone's sessions) survive" the deletion of a group? | as `social` | violated, see below |
| `goals` | Is all time counted, and told once? Do the charts agree? Do devices follow? | days of 2 units, a minute of 2, weeks of 2 days, months of 3, four zones; 2 goals, 2 tasks, 2 projects, 2 sessions, 2 users, 2 requests and 2 checks in flight, a Worker that may die; 12 scenes | six properties; 305 000 states |
| `limits` | Do budgets hold across windows, hubs and collections? | 7 scenes, 3 sources, limits of 1, 3 and 4, 2 requests in flight, up to 5 requests | three properties; 832 000 states |

**Why these bounds are enough to be interesting.** Two handlers, or two requests,
are the least that race; a third one adds no new pair of steps to a property about
two rows.
Three sessions let one be open, one be ended by a racing handler, and one start
after a restart. One fault and one eviction at *every* point of every handler
cover each recovery path; focus, break and nudge periods of a few ticks cross
each other within the clock's bound, so that every order of deadlines occurs.
In `sync_feed` two events and pages
of one make every poll a full page, so that each drains, and reaches the drain's
limit; one device suffices since devices share only the log and the hub, and the
theorems cover any number of them and of polls in flight.
In `auth` one browser has two requests at a time, which is where rotations meet;
five acts let it sign in, age, rotate and be cut off. Caps of one or two in `social`
are reached by the first that joins. Three sources and a ceiling of four in `limits`
keep the code's ratio (the ceiling is more than twice what one source may use). In
`goals` a horizon of five units spans two or three days around the change of the
clock, and two weeks or months.
`CHECK_DEADLOCK FALSE` is set where the clock's, the sessions' or the acts' bound
stops the model; the system itself just waits for requests. `SyncFeed` never stops:
its devices poll for ever. Symmetry is used in runs without liveness only.

**Preconditions worth knowing.** `AtRestAgree`, `OpenIsRecoverable`, `NoOverlap`
and the cycle's properties are about requests that do not overlap. With two
overlapping requests `OpenIsRecoverable` is false: see below.
The properties of `hub_log` need no such assumption.

Every property of a passing run has a mutant: a plausible slip in the code (a
batch that forgets the recovery row, a failure taken for a success, an unpersisted
cycle, a dropped deadline, a rotation without compare-and-swap, a day of 24 hours,
a cap checked before the statement, an import without a cycle check ...) under which TLC reports that property
violated.

## What is proved

For every number of handlers, tasks and sessions, every settings and duration,
every set of faults and edits:

- `UserHubProofs!TypeCorrect`: `Spec => []TypeOK`.
- `UserHubProofs!LogInvariant`: `Spec => []LogInv`, and from it
  `SingleOpenSession`, `RecoveryRowIsOpen`, `RunningWasConfirmed`.
- `UserHubProofs!HubImplementsTimer`: `Spec => ImplementsSingleTimer`.

The argument. "At most one open row" is not inductive: a switch ends the row it
read before its await and inserts another, and only works if what it read is still
in the log. `LogInv` therefore adds what each suspended handler knows and other
handlers cannot undo (`Knows`): the id it is about to open is its own
(`DistinctIds`), allocated (`< nextId`) and not in the log yet (`FutureIds`); the
session it is about to close, or to make `running`, is in the log. The second half
holds since rows are never removed and never go back to open. The unique index
carries the rest: `Batch` is rejected when a second row would be open. So safety of
the log rests on the index and on the transaction, not on the object being
serialized - which is as well, for it is not (see below).

The refinement maps `open` to the open row and `done` to the ended ones. Each D1
batch is a step of `SingleTimer` (a stop of an ended row and a batch that is
rejected stutter); everything else stutters.

For requests that do not overlap (`Serial`: one handler at a time, and not both
deletions of tasks and lost answers), the same otherwise:

- `SerialInvariant`: `Spec => []SerialInv`, and from it `OpenSessionIsRecoverable`,
  `SessionsDoNotOverlap`, `MemoryAgreesAtRest` (where no read fails) and
  `EndedSessionsAreFinal`: `Spec => []OpenIsRecoverable`, `[]NoOverlap`,
  `[]AtRestAgree`, `EndedIsFinal`;
- under `Calm` (also no D1 call fails, no profile change or deletion comes, the mode
  stays on), `CycleInvariant`: `Spec => []CycleInv`, and from it `CycleIsDurable`,
  `NoTrackingInABreak`, `FocusCountsTrackedTime`;
- under `Prompt` (also a handler ends before the clock moves on, and the settings
  stay), `AlarmCoversDeadlines`: `Spec => []DeadlinesAreArmed`.

These hypotheses are not for the prover's sake. Without each of them the code breaks
the property it guards, as "What the models showed" tells: two handlers lose the
recovery row, the unguarded batch of `invalidateDeletedTasks` moves the end of a
session, a failed stop tracks through a break, a profile change cancels the cycle,
a shortened focus does not rearm. They are assumptions about the environment of an instance, and
`hub_faults` and `hub_edits` satisfy `Serial`, `hub_cycle` all three.

The arguments. `SerialInv` says of each await what the handler suspended there, and
memory, know of the recovery row (`HandlerRecalls`): it is what memory runs, except
between a batch and its answer, where it is what the handler will find; a failed read
may only make memory believe that nothing runs. That the log is in order is an
argument about instants: whatever is in the log began and ended no later than the
clock and than the instant the handler has noted (`Past`, `HandlerInTime`). `CycleInv`
says what each handler still has to do to the cycle: which one has it changed and not
saved (`HandlerSaves`), and how much time is already in the log and not in the focus
count yet (`HandlerCounts`), over a sum of the log that is split where one row
changes. `ArmsInv` says who will rearm the alarm: at rest, and at every await of a
handler that will not, it is set in time (`Armed`); the 12 h nudge, which may be
due first, is what keeps it set.

For every number of devices, entities, events and polls, every page size and drain
limit, every loss and eviction:

- `SyncFeedProofs!TypeCorrect`, and `FeedInvariant`: `Spec => []FeedInv`, and from
  it `CursorsWithinLog` and `PollingMissesNothing`.
- `SyncFeedProofs!PollingShowsAPrefix`: with one poll in flight at a time,
  `Spec => []FallbackIsPrefix`.

`CursorInLog` and `FallbackMissesNothing` are not inductive: a page that arrives
raises the cursor to its end, which is harmless only if the page began no later than
the cursor *now* is, and ends within the log. `FeedInv` says so of every poll in
flight (`PollsFollow`), of what the hub has read or is told (`HubReadsLog`), and
that a device which only polls have fed has no socket. Cursors only grow, so a poll
that asked from an older cursor overlaps what is known and leaves no gap: polls may
overlap freely. They may not if what is *shown* is to be right: an older page that
arrives last overwrites newer payloads. `PrefixInv` therefore has the poll in flight
ask from exactly the cursor, which needs the theorem's assumption that there is one;
its step is `NewestSplit`: the newest of events `c+1..hi`, over the database as of
`c`, is the database as of `hi`. (The maximum of a finite set is taken by
well-founded induction on subsets of an interval, `MaxOfRange`.)

For every number of browsers, requests in flight, sessions and tokens, every cap:

- `AuthSessionsProofs!NoRevival`: `Spec => RevokedStaysDead`;
- `AuthSessionsProofs!CutOff`: `Spec => []CutOffHolds`;
- `AuthSessionsProofs!CookieFollowsRotation`: `Spec => []CookieFollows`;
- `AuthSessionsProofs!SocketsAlwaysFollow`: `Spec => []SocketsFollow`.

`RevokedStaysDead` needs the types and one fact about the code: a row is only ever
written where it is alive (the compare-and-swap of a rotation, by id) or under an id
never used (login). `CutOffHolds` needs that an account that is gone has no sessions
(`CutOffInv`): the insertion of a login is refused by its foreign key. `CookieFollows` is
the delicate one, since answers of parallel requests reach the browser in any order. Its
invariant `CookieInv` says where tokens can be: a session goes by a token minted for it,
and cookies, requests and answers hold minted ones (`TokensKnown`); a token that an
answer has dropped, or that was lost with one, is in `dropped`, the exception of the
property; an answer under way is
the only place where its token is, so that nobody can have used it to rotate again, and
it is what its session goes by (`AnswersAreNews`); all tokens of a session are with one
browser (`OneBrowser`); and a handler that runs after a rotation is of the session that
was rotated (`RotatedIsOwn`). For sockets, the property with the type of `sockets`
(`SocketsInv`) is inductive: whatever ends a session leaves, in the same step, the call that will tell the
hub; a socket whose session ended between the hub's check and its answer is excused; and
the caps are looked at in the step that accepts, which needs only a lemma on how many
sockets there are when one more is.

For every set of tasks, sessions and requests, every tolerance and horizon:

- `SessionLogProofs!RunningUntouched`: `Spec => RunningIsSpared`;
- `SessionLogProofs!NoGuardedOverlap`: `Spec => []GuardedAreDisjoint`;
- `SessionLogProofs!SharedTimeIsLater`: `Spec => []TimerOverlapIsLater`.

That no request touches the running session is not inductive, for a request looks
at one moment (`NOT running`) and writes at another. `HubInv` says why nothing can
come between: a session that has been closed, deleted or exported is never run again,
because the hub only runs what it inserts itself under an id nobody has seen. So the
session it runs is open and its own (`HubKnows`), and every id that a request is about
to write, that an undo toast or an export holds, is another (`HandsOff`). For overlaps,
`OverlapInv` adds that nothing was checked in the future, and replaces
`TimerOverlapIsLater`, which speaks of sessions that have ended, by `LaterThanCheck`,
which also speaks of the one that runs. The guard in the statement is what makes
`GuardedAreDisjoint` hold with any number of requests: it evaluates the overlap on the
rows as they are, with the instant of the check for open rows.

For every set of sources, names and requests in flight, every limit and window:

- `RateLimitsProofs!BudgetsHold`: `Spec => [](TypeOK /\ BudgetHolds)`;
- `RateLimitsProofs!NobodyRefusedEarly`: `Spec => []NoneRefusedEarly`;
- `RateLimitsProofs!LockoutAlwaysTakesMany`: `Spec => []LockoutTakesMany`, where the
  ceiling of a name is at least four times what a source may use and both have the
  same window (`Ceiling`).

`BudgetHolds` speaks of requests that were served; between the charge and the answer a
request has been counted and not served yet. `CountersHold` therefore counts those
still on their way too (`Holders`, `Spent`), and says that what was spent of a key is
never more than its limit, nor than its counter. That leaves the counters which are
not there: a row that was collected, or a counter the hub dropped with the window.
Either nothing was ever spent of it, or its window is `Past`: no request in flight can
be counted in it any more, or the limit could be spent twice. For the hub this is that
windows only grow; for D1, whose requests are charged in the window of the instant they
arrived at, it needs `InTime`: a row outlives the end of its window by `Slack`, and no
request is older than that.

`NoneRefusedEarly` is the other direction: a counter never runs ahead of the requests
that came. `EarlyInv` says that the count of a key and the requests whose charge is
still awaited there are together no more than those that have come to it (`ReachedBy`),
so that a request throttled at two places, or by the hub and then by D1, is
not counted twice against anyone. `LockoutInv` bounds what one source brings to the
ceiling of a name in a window: no more than its own budget let through in that window
and, by requests that crossed its end, in the one before. So a source and one other
bring at most four budgets, which is what the ceiling admits; the rest is a sum over
sources. The program's defaults (10 of a source, 40 of
a name, both in 15 minutes: `src/worker/middleware.ts:339-344`) are within `Ceiling`,
and so is the run; the `RL_*` variables of development and tests may set
other numbers.

For every set of users, groups, projects, tasks, messages and requests in flight, every
limit and every scene:

- `SocialProofs!SocialInvariant`: `Spec => []SocialInv`, and from it `CapsAlwaysHold`,
  `OwnerAlwaysHolds`, `ListsAlwaysFollow`: `Spec => []CapsHold`, `[]OwnerHolds`,
  `[]ListsFollow`;
- `SharedTimeAlwaysSurvives`: `Spec => SharedTimeSurvives`, and
  `DeletedAlwaysStaysHidden`: `Spec => DeletedStaysHidden`.

Every step moves one request, and by one of four moves: it begins, ends, goes on to tell,
or goes on to the second row of a new group (`ThreadStep`). Most of `SocialInv` says what a
request that was checked long ago may still rely on. `Births`: a group's id is known to
nobody but its creator until the owner's row is in, so that no member, link, invite or
other request speaks of a group that has none. `References` are the foreign keys, with
one fact that no key states: a live project of a group has a group; it is what the
hand-over of `DELETE /me` must preserve, and `SharedTimeSurvives` follows from it, for the
only rows the cascade then takes are those of tombstones or of the account itself.
`RolesHold` replaces `OwnerHolds`: it also says that a group without an owner has no rows,
and that a group between its two inserts is still its creator's; the step of `DELETE /me`
needs that its plan is what it would plan now (`PlanHolds`), which is the grounds that
`stale` is about. `ListsKept` replaces `ListsFollow`, which speaks of rest: at any time, whoever does not
see his groups is signalled or some request in `tell` will signal him. `OneRowEach` (the
primary key of `group_members`) keeps `Without`, `Updated` and `Promoted` honest. The caps
need nothing but themselves and finiteness: each count is taken in the statement that
inserts.

For every set of users, projects, tasks, subtasks and requests in flight, whoever may
edit or manage, every scene, and with or without deaths of the Worker:

- `TaskGraphProofs!GraphInvariant`: `Spec => []GraphInv`, and from it
  `CheckedEdgesStayLegal`, `NoTaskEverOutlivesProject`, `DevicesAlwaysFollow`:
  `Spec => []CheckedEdgesAreLegal`, `[]NoTaskOutlivesProject`, `[]DevicesFollow`.

What a task depends on is the least set that contains it and that no edge leaves
(`ReachFrom`), rather than a recursion, so that acyclicity can be reasoned about: to show
that `x` is not reached it is enough to give a closed set without `x` (`Unreached`).
Fewer edges keep a graph acyclic (`FewerEdges`), and so do more edges if none of them
lies on a cycle of the larger graph (`MoreEdges`), which is what the `REACH` query
establishes, and the loop of import unless others have made edges: it is judged against
the importer's own (`Made`), and where those are not all, what it inserts goes to
`loose`. What remains is time: the query is an await before the insert.
`Kept` says what a request in flight may rely on: unless what it is about is in `raced`,
the rows are as it read or wrote them; the edge it will insert closes no cycle of the
graph it *read*, and the graph is either still that one, or the edge goes to `loose`.
`NewIds`: no two requests are about to insert a task under one id. `NoTaskOutlivesProject` needs
that a request which is about to put a task somewhere has seen the project alive (`Kept`).
`DevicesFollow` speaks of rest, and `Followed` of every moment: a row that devices do not
show as it is, is owed (`Owed`) by a request that has changed it and not announced it yet;
undo and import owe everything from their first batch to their event. With nobody in
flight nobody owes (`NothingOwed`).

For every set of goals, tasks, sessions, requests and checks, every zone, week, month,
limit and scene:

- `GoalsProofs!DevicesAlwaysFollow`: `Spec => []DevicesFollow`;
- `GoalsProofs!ReportsComeOnce`: `Spec => []ReportedOnce`;
- `GoalsProofs!ElapsedPeriodsAreSettled`: `Spec => ElapsedIsSettled`;
- `GoalsProofs!AllTimeAlwaysCounted`: `Spec => []AllTimeIsCounted`;
- `GoalsProofs!ReportsAlwaysAgree`: `Spec => [](FiguresAgree /\ ReportsAgree)`;
- `GoalsProofs!StreaksAreAlwaysRuns`: `Spec => []StreaksAreRuns`.

All but the first assume `EveryDay`: the calendar has every day, as that of the program;
that of a run is a finite table, which a scene does not leave. The last three assume
`ZonesFit`: a zone is within `Slack` of UTC, which is the 15 hours that the binary search
of `dayStartInstant` looks to either side (`time.ts:89-90`), and changes its offset by less
than a day. `ReportsAlwaysAgree` also assumes `DatesNeverReturn`, which that search does too
(`time.ts:74`, "civilDate is monotonic in the instant"), that time does not begin between
the two midnights of a day (`BeginsInADay`), and that the users are finitely many. TLC
evaluates `ZonesFit`, `BeginsInADay` and, over the instants of the run,
`DatesNeverReturn` for the zones of `goals`.

`DevicesFollow` speaks of rest, and `FollowInv` of every moment: a goal that devices do
not show as it is stored is owed by a request in flight (`Owed`), or two overlapping
requests were about it, or it is in `untold`, where a request that dies after its write
puts what it owed; and what a request has read to tell of a goal is still what is
stored (`Stays`). `ReportInv` says that what has been reported of a goal is in order and
ends no later than `seen`, so that an answer, however late, reports only what is newer.
For `ElapsedIsSettled` the periods are a ladder of bounds that does not depend on the
clock, up to where it ends (`WindowsStay`); a period that is over is clipped to an
instant that has passed, where an open session counts the same as one that ended later
and a session that begins now counts nothing (`OverlapStays`, `OverlapAhead`); and so
its sum stays the same (`TimeStays`), although the set it is taken over may grow.

The other three rest on the calendar. `dayStartInstant` is inverted by `civilDate`, and
days start in the order of their dates (`DaysInOrder`): a guess is kept only if its date
is right, none settles only where midnight was skipped (`GuessesSettle`), and there the
binary search ends at the instant of the change (`BisectFinds`). So one period ends
where the next one starts (`PeriodsTile`), the windows offered are the first ones of
that ladder (`OpenPeriods`), and what they count telescopes to what lies between the
ladder's ends, clipped to the goal's life (`TimesTelescope`, `PeriodsCount`). All this is of times. A
figure is within half a minute of its time (`Minutes`), a sum of figures within half a
minute for each of its terms, and two sums of the same time `Agree` by that much; it is
an induction over the terms. The
buckets of a range of days telescope in the same way; all time needs that no session
ends before it begins or after the last instant (`SessionsInTime`, an invariant), this
week that nothing lies ahead of `now`; members add up to their group since each session
has one owner (`SumByOwner`).

For the streaks, all periods but at most the last are over (`PeriodsOver`), and `Streak`
says after each period what the two counters are: so many periods up to this one were
met and the one before them was not, and no run so far is longer than the best.

Sums over finite sets are taken apart one element at a time by well-founded induction on
subsets (`SumWithout`); a sum is the fold of the community modules, which is why the
same lemmas are stated again in each module that needs them.

**Assumptions.** A minute has at least one unit of time. `None` is no number, no row and no request; the bounds are numbers;
a page is not empty; the settings are records of the right shape with durations above
zero; a zone is three integers; the goals offered, the calendars and limits of a scene
have their types. TLC evaluates them in every run.

**Only model-checked.** Liveness, `BreakEnds` and `FallbackConverges`: the prover does
no fairness and no `ENABLED`. Every other property of a passing run is a theorem. The
inductions that the theorems on sums, searches and streaks need are made over explicit sets of
numbers or subsets (`ByNumbers`, `BySubsets`), since the library's induction principles
take an operator as a parameter.

## What the models showed

One disagreement is a run that must fail (`findings` in `PROJECT.json`):

- *Deleting a group takes its deleted projects' time* (`social_history`). A project
  that was tombstoned first keeps its `group_id`; `DELETE /groups/:id` detaches only
  `deleted_at IS NULL` projects, and the cascade of `DELETE FROM groups` takes the
  tombstoned one with its tasks and every member's sessions - what the comment above
  the statement, and `docs/architecture.md:243-246`, mean to prevent.
The others are the exceptions that properties name, or were seen in counterexamples of
stronger ones, or while translating; they are recorded here and among the hazards. The
ones that cost most:

- *Reordering the projects stops the polls of the other devices*. Its event
  has no project; `applyEvent` throws on it before it raises the cursor
  (`projects.ts:206`, `store.ts:385-390, 433-435`), and every later poll asks for it again.
- *A refusal loses the rotated cookie*. `requireAuth` rotates before the route
  runs; a 403, 422 or 429 after that is a `Response` without the new cookie
  (`env.ts:88-89`, `middleware.ts:408-413`), and the browser is signed out by its next request.
- *An import can close a cycle in a shared project*, no two requests overlapping. It judges edges
  against those `WHERE user_id = ?1` (`export.ts:296`), not against those of other members.
- *Two groups created at once pass the cap*, whatever `groups.ts:100-102` says. The statement that inserts
  the group counts memberships, and the owner's is inserted by the next one
  (`groups.ts:103-114`).
- *A goal can be changed without an event*. `POST` and `PATCH /goals` write
  in one statement and append the event in a later batch (`goals.ts:231-246, 308-323`),
  against `events.ts:43-58`.
- *The totals of the report are converted twice*: `minutes()` of a sum of minutes
  (`reports.ts:165-169`), which the dashboard (`DashboardView.tsx:302-303`) shows as 0 for
  anything below 500 hours. They are left out of the model.

**Hub.** *Handlers are not serialized* (against `docs/architecture.md:37-39`): stop
and switch race; the switch reads `running`, the stop commits and deletes the
recovery row, the switch's batch inserts an open session and its
`UPDATE active_timers` matches no row. After the next eviction `running` is null,
the session open for ever, and every start refused by the index (503). *Deleting a
group leaves timers running on its tombstoned tasks* (`groups.ts:457` against
`architecture.md:239-240`). *A profile change cancels the pomodoro cycle*
(`user-hub.ts:252-253`): `PATCH /me` publishes `settings.updated` without settings.
*The 12 h nudge is not armed with the mode off* (`user-hub.ts:554` against its
header). A lost answer in `invalidateDeletedTasks` leaves `running` on an ended
session, and the next stop moves its end; `timerSwitch` does not look at
`deleted_at`; a rejected stop inside `pomoBreak` gives a break with a running timer;
two saves of the settings can reach the hub in the wrong order; the cancellation of
a cycle whose anchor was deleted is not persisted; a changed focus duration does not
rearm the alarm of the phase in progress.

**Feed.** *A dropped notification is not caught by the next poll*
(`store.ts:383` against `store.ts:794-795`): event 2 raises `lastEventId` past the
lost event 1. A socket that reconnects within five seconds polls nothing, and its
`hello` raises the cursor past what was missed; two polls in flight, or a poll beside
the socket, can leave an older payload over a newer one; so can the acting device's
own response. This is why `FallbackMissesNothing` and what follows are stated of
devices that polls alone have fed, and `FallbackIsPrefix` of one poll at a time. A `PATCH`
of a subtask that is deleted meanwhile announces `subtask: null`, on which `applyEvent`
throws as on the reorder.

**Sign-in.** Login inserts its session unconditionally after the check
(`auth.ts:192`), and `/me/password` does not compare the hash it verified: both are
the exceptions of `CutOffHolds`. Sockets of a session that expires are never told. The
hub accepts a socket after an awaited `SELECT`, so a `/revoke` in between misses it
(comment at `user-hub.ts:352-353`). A parallel request that arrives with the old
token after a rotation gets a 401.

**Session log.** A `PATCH` that read a session as running while the stop commits can
reopen it. Undo of a deletion re-closes at undo time what was running. An import keeps
the old subtask while it changes the task. A guarded insert that matches no row still
appends `session.created`.

**Tasks.** The undo payload of a project is `project`, the schema of `/restore` reads
`projects` (`projects.ts:336-342`, `validators.ts:361-368`): undo revives the tasks and
not the project. Creating and deleting the same name twice on a day is refused (422).
Rename does not look at `deleted_at`. Two concurrent `createDependency` can close a
cycle; restore inserts edges without a check; an import that moves a task leaves its
edges across projects. Events carry rows read before a later write.

**Social.** Two `DELETE /me`, or one racing a `leave`, can leave a group with an owner
who is no member, or two rows of role owner. `UNIQUE (user_id, name)` can make the
batch of `DELETE /me` fail when projects change hands. A withdrawn friend request can
still be accepted: the friendship stands, the answer is 404 and nobody is told.
A cancelled invite can still be accepted; a revoked link still joins a request that
had checked it. The last use of a link joins two users, though one is answered 422.
`group.deleted` misses a member who joined after its members were read. Declining an
invite and deleting an account announce nothing to the group. The branch of
`DELETE /me` for a group without another member destroys what former members tracked.

**Goals and reports.** Where midnight comes twice, `dayStartInstant` takes the second;
the hour before it belongs to no bucket of its date (`InItsDay`). `MAX_WINDOWS` counts
from the goal's creation, so an old daily goal stops at its 1500th period. The reports
clip `today` to the day's end but `week` to now, so a session that lies ahead is in one
and not in the other. `PATCH` with `archived: true` on an archived goal moves its
date. The first period that ends after a page load is never reported.

**Limits.** The comment at `user-hub.ts:281-282` says the counters are in memory; they
are durable (990-1003), which `BudgetHolds` needs. The hub charges every counter of a
chain even when the first refuses, the fallback stops at the first. The friend routes
have no write budget.

## Not modelled

- The request shell (routing, CSRF, headers, input shapes), configuration, ids: no
  state between steps. What it refuses appears as the inputs of the modules.
- Bootstrap and refresh of the store (eight reads and a cursor in parallel) and the
  pruning of `sync_log` after two hours: `SyncFeed` has devices that have loaded
  everything and are never away for so long. A bootstrap whose cursor is read after a
  list misses an event (`misc.ts:26`); a device that was away for longer than the log
  is kept cannot notice the gap (`cron.ts:100`).
- The limits that count and then insert (projects, tasks, subtasks), positions,
  reorder, layout and colours, read marks, `PATCH` of a group's name.
- Verification of e-mail addresses; the captcha beyond its place in the chain of
  charges; password hashing.
- The duplicate mode of import and the import of groups (skipped by the code); CSV.
- What a handler inside the hub writes back after `/wipe` (`events.ts:228`).
- The totals under the table of the reports (`reports.ts:165-169`).
- The R2 dump, the views of the web application, scripts and deployment: pure input
  and output.
