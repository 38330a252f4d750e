# TLA+ models of benny-rs

benny-rs is a Discord bot in Rust (serenity, poise, SeaORM on SQLite, axum for
the dashboard API). This directory holds TLA+ modules of its stateful parts,
the TLC configurations that check them on small instances, and proofs for the
TLA+ proof system. Source paths are relative to the repository root.

## 1. The system

One process (`src/src/main.rs`) builds a shared `AppState` (two SQLite pools,
in-memory caches, the Discord context), registers the *cogs* and serves the
dashboard API next to the gateway client. **Every gateway event, command,
button press and dashboard request is a tokio task of its own**; tasks meet in
the SQLite tables, in process-wide maps (`DashMap` statics and the fields of
`AppState`) and in Discord itself, with no lock held across an `.await`. Two
background loops run for ever: the expiry and giveaway sweepers (spawned once,
on the first `ready`) and the reminder poll. The process is started by hand or
at boot (`deploy/systemd/benny.service` is a oneshot that opens a tmux
session): after a crash the databases and Discord are as they were, everything
in memory is gone, and handlers in flight are not resumed.

What makes it hard is therefore not any handler on its own but what happens
between its awaits: two handlers interleaving, a background loop acting on rows
it read some time ago, one of several writes failing (most write errors are
ignored: `let _ = ...`), and the process dying between an effect at Discord
and the row that remembers it.

| component | state | operations | interacts with | what makes it correct |
|---|---|---|---|---|
| Moderation (`cogs/moderation.rs`, `http/v1/cases.rs`) | `mod_cases`, `mod_timed`, `mod_config`; bans and Muted roles at Discord | warn, kick, ban, tempban, softban, unban, mute, unmute, timeout, untimeout, delcase, warnings set/off, dashboard delete and lift, sweeper; purge, slowmode, lock, reason | automod (punish), dashboard | a punishment with a term ends, not early and not never; rows and cases name the same infraction; an escalation per threshold of warns |
| Automod (`cogs/automod.rs`) | config cache, message and join windows | message filters, flood and raid detection, punish | moderation | window bounds; one punishment per interval |
| Giveaways (`cogs/giveaways.rs`, `http/v1/features.rs`) | `giveaways`, `giveaway_entries`; the post at Discord | start, enter/leave, end, reroll, sweeper | dashboard (end) | each giveaway ends once and announces once; a toggle counts |
| Reminders (`cogs/reminders.rs`, `tasks/reminders.rs`) | `reminders`, count cache, pending prompts | prompt, confirm, cancel, delete, poll | - | the limit holds; a due reminder is sent; one reminder per prompt |
| Starboard (`cogs/starboard.rs`) | config cache, `starboard_posts`, recount limiter; mirror posts at Discord | reaction handler, configuration | limiter | one mirror per message, in step with the reactions |
| Configuration caches (`utils/config.rs`, every configurable cog, `http/v1/config.rs`) | one row and one cache entry per guild | load, modify, upsert, refresh, hydrate | dashboard | row and cache agree; no update is lost |
| Levels (`cogs/levels.rs`) | `levels_users`, `levels_rewards`, caches, cooldown | award XP, grant and change rewards, set and reset XP | limiter | no level reached goes without its reward |
| Prefixes, settings (`cogs/prefixes.rs`, `cogs/settings.rs`) | `prefixes`, prefix cache | add, remove, guild join and leave, hydrate | framework | cache is the table, no duplicates, at most 15 |
| AFK (`cogs/afk.rs`) | `afk`, AFK cache | set, clear on message, hydrate | - | cache and table agree |
| Welcome (`cogs/welcome.rs`) | configs, autoroles, sticky roles | join, leave, configuration | Discord | a member who rejoins gets their roles back |
| Sentinel (`cogs/sentinel.rs`) | two rows of settings, `sentinel_cache`, `DELETE_FLAGS`, `DECANCER_CACHE`; external classifier | setting by setting, form, default setup, dashboard, reset; score messages, decancer names | dashboard, settings | each setting in memory is the one stored |
| Premium (`cogs/premium.rs`) | `premium_tokens`, `settings_users` | generate, activate | - | a token is spent once; a tier is paid for and the highest that was |
| Roles (`cogs/roles.rs`) | pending bulk changes | roles of a member; prompt, confirm, cancel, run | bounded map | a bulk change runs once, confirmed; nobody raises above themselves |
| Events, logging (`cogs/events.rs`, `cogs/logging.rs`) | `guild_set`, `known_guilds`, log channel cache | guild join/leave, outage, policy on bots, log | dashboard | the bot knows its guilds; only new ones are judged |
| Embed builder (`cogs/embed/`) | sessions, text drafts | edit, send, complete | bounded map | what is done is done to the embed that was shown |
| Music (`cogs/music.rs`, `http/v1/music.rs`) | player and queue in the lavalink client | play, skip, stop, clear, ... | lavalink, dashboard | the queue keeps its limit and is played |
| Tags (`cogs/tags.rs`, `http/v1/tags.rs`, `tagscript/`) | `tags` | create, edit, delete, expand | dashboard | - (text in, text out) |
| HTTP API (`src/src/http/`) | request limiter | authenticate, route | all the above | budget per actor |
| Utilities (`src/src/utils/`, `state.rs`) | keyed limiter, bounded map | check, insert | all the above | interval and capacity hold |
| Framework, start-up, schema; information and lookup commands | - | - | - | no state of their own |

`PROJECT.json` lists every component with its status, and under "hazards" what
is hard to test in each, at its line.

## 2. Plan

Order: what touches members most first.

1. **Moderation** (done): `CaseLog` (the abstract log), `Moderation`,
   `WarnTally` (history of warns and escalations), `MCModeration`, `MCCases`,
   `ModerationProofs` (with the refinement).
2. **Giveaways** (done): `GiveawayPromise` (the abstract promise), `Giveaways`,
   `MCGiveaways`, `GiveawayProofs` (with the refinement).
3. **Reminders** (done): `ReminderPromise` (the abstract promise), `Reminders`,
   `MCReminders`, `ReminderProofs` (with the refinement).
4. **Starboard** over the keyed rate limiter (done): `Starboard`,
   `MCStarboard`, `StarboardProofs`.
5. **Configurations** (rows and their copies in memory) and **Prefixes**
   (done): `GuildConfig`, `Prefixes`, `MCServerConfig` (both, side by side),
   `GuildConfigProofs`.
6. **AFK**, **Levels**, **Premium**, **Sentinel**'s settings: tables and
   copies that tasks update in separate steps (done): `Afk`, `Levels`,
   `Premium`, `PremiumProofs`, `Sentinel`.
7. Sessions in bounded maps, the HTTP limiter, guild tracking, roles on joining,
   the music queue (done): `BulkRoles`, `BulkRolesProofs`, `EmbedSessions`,
   `HttpLimiter`, `GuildTracking`, `JoinRoles`, `Music`; `FeatureProofs` for those of
   steps 6 and 7.

The modules of steps 6 and 7 share no state, so one module, `MCFeatures`, runs
them side by side, each behaviour exercising one, as `MCServerConfig` does for
step 5. Left for later: automod's windows; tagscript's lexer and resolver as
functions against a reference definition. Of the passing runs' properties all but
the liveness properties are proved (section 5). An abstract specification still
worth stating is a table with a copy in memory as one register, which a cog
implements as long as its changes come one at a time.

## 3. Modules

### Moderation

`Moderation.tla` models one guild (every query filters by guild id).

*State.* `cases` and `timed` are the tables `mod_cases` and `mod_timed` as
functions on their primary keys; `muteRole` and `policy` the columns of
`mod_config` that matter. `banned`, `muted`, `roleState` are what Discord
holds. `pc[t]`, `job[t]` are the await a handler is at and its locals, `sweep`
the locals of `spawn_expiry_task`, `stale` the tasks whose SQLite transaction
can no longer be upgraded to a write because another connection committed
since its read. `banTerm`, `muteTerm`, `tainted` and `lifted` are history
variables that only properties read.

*Actions.* One action per await. A punishing command goes `Issue` →
(`FindMuteRole` → `CreateMuteRole` → `StoreMuteRole` → `AddMuteRole` for mute;
`BanUser`/`UnbanUser`/`Discipline` otherwise) → `ReadHighest` → `InsertCase`
(`create_case`, one transaction) → `FallbackNumber`? → `RecordTimed`
(`record_timed`) → for a moderator's warn `ReadPolicy` → `CountWarns` → the
punishment again → `ResetWarns` (`escalate`). Releases go through
`UnbanUser`/`RemoveMuteRole` → `ClearTimed` → the case. The sweeper is
`SweepScan` → per row `SweepPick` → `SweepLift`, `SweepRetry` or `SweepGiveUp`
(refused, or the role to remove is gone) → `SweepClear` → `SweepClose`. `Crash` forgets tasks and batch.

*Failures* are switched on per run by `Faults`: a query fails (`"db"`),
Discord refuses for good (`"refused"`) or fails transiently while lifting
(`"transient"`), the process dies (`"crash"`), an administrator deletes a role
(`"roles"`).

*Abstractions.* Reasons, durations' syntax and embeds are left out; durations
are small numbers added to a clock. Accepted commands only: `self_guard` and
`can_act_on` refuse before any state changes. The 28-day cap of native
timeouts is not modelled; Discord ends timeouts itself.

*Promise.* `CaseLog` is the log without anybody's awaits: a case is opened under the
number after the highest, one case expires, a member's warns are spent at once, a case
is removed, time passes. `Log` maps the table `cases` to its log and the numbers of
`tainted` and `lifted` to those that are excused from their term; everything else,
punishments, rows and the sweeper's batch, is invisible to it. `KeepsLog` says that
`Moderation` implements it; that nothing is closed early (`ClosedOnlyWhenDue`) is part
of it.

*Tally.* `WarnTally` watches `Moderation` and counts, per member, the warns recorded
(`warned`), and per task and member the escalations Discord carried out (`punished`)
and those of them whose reset failed or died with the process (`unreset`). It is
history only: every step of `TallySpec` is a step of `Spec`, with the tally brought
up to date, and deleting a case does not change the tally. What it is for is how often
a warn counts. The counter of warns is read in one await and reset several awaits
later, so two warns at once are punished twice for the same warns. `EscalationsEarned`
says how far that goes: the escalations of *one* task that follow one another took a
threshold of new warns each (of the lowest threshold there is, where the policy
changes), unless a reset was lost.

### Giveaways

`GiveawayPromise.tla` is what the bot promises: a giveaway begins, closes once,
never reopens, and its result is announced at most once, after it closed.
`Giveaways.tla` is the code (`cogs/giveaways.rs` and the dashboard's
`end_giveaway`), and implements the promise under the mapping *life* = the
state of the row, *announced* = the number of announcements.

*State.* `gws` is the table `giveaways` (state, `ends_at`, whether the post's
id is stored), `entries` the table `giveaway_entries`; `post` is the message
with the button; `pc[t]`, `job[t]` the handlers; `sweep` the locals of
`spawn_sweeper_task`. `results` (announcements that arrived) and `said` (what
the last reply told a member) are history.

*Actions.* `start` is `InsertGiveaway` → `PostGiveaway` → `StorePost`; the
button is `LookUp` → `Enter` → `Leave` (when the insert conflicts); `end` is
`CheckEnd` → `EndNow`, which only brings `ends_at` forward; `reroll` is
`CheckReroll` → `Reroll`; the sweeper is `Scan` → per row `Draw` → `MarkEnded`
→ `Announce` → `Strip`. Every query and every call to Discord may fail within
the budget of errors, and the process may crash between any two steps.

*Abstractions.* Who wins is left out: the draw reads the entries and no
property depends on it. A reroll sends a message of its own and changes
nothing; it is not an announcement of the result. Ids are handed out in a
fixed order.

### Reminders

*State.* `reminders` is the table `reminders_reminders`, by id; ids are never
handed out twice (`AUTOINCREMENT`). `counts` holds the counter of each user in
`reminders_users` and in Redis. `shown` is what Discord shows of a prompt,
`pending` the map `PENDING`. `poll` holds the locals of
`spawn_reminder_task`. `got`, `dropped` and `made` are history.

*Actions.* A command with a time is `Remind` → `CheckLimit` → `Insert` →
`SyncRead` → `SyncRow` → `SyncRedis`. A command without one is `ShowPrompt` →
`Register`; on the prompt, `Select` sets the time, `Confirm` goes through the
same steps as a command and then `Respond` → `Forget`, `Cancel` through the
last two. Deleting is `Delete` → `DeleteRow` → the counters. The poll is `Scan`
→ per row `Send` → `DeleteFired`, then `PollSyncRead` → `PollSyncRow` →
`PollSyncRedis` for everybody affected. Reading the author of a command, and
looking the reminder up before `reminders delete` deletes it, share the step
of the command's arrival. `Register` inserts into `PENDING` with arbitrary
evictions when the map is full, as one step (`bounded_insert` has no await; its
removals and the insert are only distinguishable to another thread in between).

*Failures.* One budget `MaxFaults` for queries, calls to Discord and Redis, and
crashes. A count that fails reads as 0 (`unwrap_or(0)`), which `CheckLimit` and
`SyncRead` model. A scan that fails is a stutter: the poll sleeps and scans
again.

*Promise.* `ReminderPromise` has for each reminder a life (unmade, waiting, fired or
dropped), its owner and time, and how many messages arrived. `Promise` maps the
table, the history and the poll to it: `late` are the reminders of the poll's batch
that their owners have deleted meanwhile, the only ones of which a message may arrive
afterwards. `KeepsPromise` says that `Reminders` implements it; that nothing goes before
it is due unless its owner deletes it (`GoneForAReason`) is part of it. That a reminder may
arrive more than once while it waits is the price of sending before deleting; that it
arrives exactly once without a failure is `DeliveredOnce`.

*The limit* is counted in one query and the reminder inserted after another, so that
tasks of one user pass it together. `LimitHeld` says by how much: less than the number
of tasks that serve the user (`Serving`), and one for each failure. With one such
task and no failure that is the limit itself.

### Starboard

*State.* `reactors` is the reaction of a message at Discord, `mirror` the
messages of the starboard channel, `rows` the table `starboard_posts`, `last`
the map of `RECOUNT_LIMITER`; `pc[t]`, `job[t]` the recounts under way. `seen`
(counts a message ever had) and `calm` (messages whose reactions came one at a
time, a window apart) are history.

*Actions.* `React` is a gateway event, a reaction added or removed, and starts
a `recount`: `Check` and `Record` (`RateLimiter::check` reads the time and
writes it in two steps, and two tasks can pass between them) → `Fetch` → `LookUp`
→ `Edit` or `Send` → `Upsert`, or `Unpost` → `DeleteRow` below the threshold.

*Abstractions.* The configuration is fixed, enabled and has a channel: the
early returns for a disabled starboard, another emoji or a reaction in the
starboard channel itself do nothing. Bots, and authors unless `self_star` is
set, are the users in `Uncounted`. The fetch of at most 100 reactions, which
caps the count, is beyond the instances. Capacity is 8192 in the code and a
constant in the model, so that eviction happens.

### Configurations

`GuildConfig.tla` models the configuration row of one guild in each of several
cogs, and the copy of it in memory that event handlers read.

*State.* `rows` is the row of each cog, `cache` the entry of each cog's map in
`AppState`, `hydration` the row an `on_ready` has read and not yet inserted;
`pc[t]`, `job[t]` the handlers. A configuration is a switch and a target, which
is as much as it takes to tell a mixture of two from either. `stored` (what a
row ever was), `clean` (cogs of which one thing at a time is under way) and
`trusted` (cogs whose copy something clean brought up to date last) are history.

*Cogs.* The members of `Cogs` differ in how the code stores a change:
`starboard`, `automod` and `levels` read the row, change it and write it back
whole (`ReadsWhole`); `welcome` and `goodbye` write one column and read the row
back (`ReadsBack`); `logging` writes its columns and changes its copy
whatever became of the write. A `put` is the dashboard's handler, a `set` a
command, a `disable` that of logging, a `reset` `settings.rs`' `do_reset`.

*Actions.* `Begin` → `Write` or `WriteFails` → `Reload` or `ReloadFails` where
the row is read back → `Cache`; `HydrateRead` → `HydrateInsert`, or
`HydrateFails`, at a ready event; `Crash`.

*Abstractions.* Reading the row belongs to `Begin`: a change that fails there
changes nothing, and between the arrival of a command and its first query
nothing can be told apart. The write of a row is one statement. The columns are
two, and validation is what `PutChanges` admits. A reset takes the cogs it
resets one at a time.

### Prefixes

*State.* `rows` are the prefixes of a guild in `settings_prefixes`, `cache` its
list in `prefix_cache` as a bag (`on_ready` pushes to a list that is there, so
that a prefix may be listed twice; the order of the list is left out), `member`
whether Discord counts the bot in the guild. `orderly` and `loaded` are history.

*Actions.* `Add` → `InsertRow` → `CacheList`; `Remove` → `DeleteRow` →
`CacheList`; `Reset` and `GuildDelete` → `Drop`; `Put` → `PutRow` per prefix →
`CachePut`; `GuildCreate` → `InsertStandard` → `CacheList`; `ReadyRead` →
`ReadyPush`; `Crash`. Looking a list up and reading the table when there is none
are one step. A failure that is reported ends the command (`InsertRow`,
`DeleteRow`); one that is ignored lets it go on (`Clear`, `PutRow`,
`InsertStandard`, the look-ups).

`MCServerConfig.tla` puts both in one run. They share nothing, so a behaviour
exercises one cog or the prefixes (`focus`, chosen at the start) and leaves the
others as they begin: every interleaving within a component, none between
components that cannot see each other.

### Features

Ten modules of one component each. Every one has `pc[t]` and `job[t]` for its
handlers, `allowed` for its bounds, actions named after the commands, events and
awaits of its file, a failing query or call where the code goes on or gives up,
a crash that clears what is in memory, and history variables that say which
members, users, settings or messages were touched by overlapping or failing
handlers. `DataInit` and `TaskInit` split the initial states, so that the
composition can hand one set of task variables to whichever module runs.

* `Levels`: `xp` and `rewards` are the tables, `known` the list of rewards in
  memory. A message reads the XP, writes it back raised, and grants the roles of
  the levels in between; staff change rewards (table, then list) and XP. The
  cost of the levels is a recursive function, the code's curve; the level is the number
  of those that are paid for.
* `Premium`: `tokens`, `owner` and `tier`. Activation looks the token up, burns
  it in a statement that checks it again, reads the tier and writes the higher.
* `Afk`: rows, entries and the clock; going AFK, coming back after the grace
  period, ready events.
* `JoinRoles`: autoroles, sticky roles and the roles members hold; joining runs
  both, leaving saves, and either may be handled after the member's next move.
* `Sentinel`: the settings of Sentinel and Decancer, in row and copy, setting by
  setting, by form, default setup, dashboard, ready event and reset.
* `GuildTracking`: the guilds the bot is in, what the gateway announces, the
  cache behind `guild_set`, `known_guilds`, and the policy on guilds full of bots
  with its re-check before leaving.
* `HttpLimiter`: the fixed windows for all requests and per actor, in a map of
  bounded size whose eviction is a step of its own; `served` and `passed` count the
  requests let through before each time.
* `BulkRoles`: roles of one member under the hierarchy; the prompt of a bulk
  change, `PENDING`, its buttons, and the run member by member.
* `Music`: player (a number, new for each one made), queue length and whether a
  track plays; commands and the dashboard look and act in separate awaits while
  tracks end.
* `EmbedSessions`: the embed each session holds and the one its message shows;
  presses, forms, updates that fail, sessions that are evicted; text drafts.

## 4. Runs

All bounds are constants in the `.cfg` files: `MaxTime` bounds the clock,
`MaxCommands` or `MaxReactions` what users do, `MaxFaults`, `MaxErrors`,
`MaxCrashes` what fails. Two or three tasks and the background loop give every
pairwise interleaving of handlers. Each disagreement below takes at most two
handlers and three commands to show, so the passing runs allow at least as much.
Symmetry over users, messages, roles, tasks or channels is used only where no
liveness property is checked. Deadlock is checked except for the starboard,
`MCServerConfig`, `MCFeatures` and the two runs of single features: a starboard
without reactions left to come and a clock at its bound, and a configuration or
feature nobody uses any more, have nothing to do. In the others the sweeper or poll, which scans for ever, makes
even a quiet state take a (stuttering) step. In `features` each component has two
tasks, one fault and one ready event, and just as many commands, presses or moves
(two to six, see `Features.cfg`) as let two handlers overlap and a third thing come
after them; maps have room for one or two entries so that they evict.

Passing runs:

| run | question |
|---|---|
| `moderation_cases` | With failing queries, refused and failing Discord calls and a crash: do a row and the case under its number stay one infraction, and is the log of cases the abstract one, in which numbers are given out in order and no case is closed early (`KeepsLog`)? When two moderators warn one member at once, delete cases and change the policy, do the escalations of one handler never share a warn (`EscalationsEarned`)? |
| `moderation_watch` | Is everybody under a temporary ban or a mute watched by the sweeper and muted by the stored role, and is nobody left at the warn threshold unpunished once all is quiet? |
| `moderation_terms` | With transient failures, a crash, cases deleted under the sweeper and escalation turned off: is every due row cleared, and does a temporary ban end? |
| `giveaways` | With a failing call and a crash: is the promise implemented, is no result lost without a failure, does nothing end early, does everything due end, do replies tell the truth? |
| `reminders` | With a failing call or a crash: is the promise implemented, so that nothing goes early or comes back, does each reminder arrive exactly once when nothing failed, is the limit passed by no more than overlapping handlers and failures account for (`LimitHeld`), does a prompt create at most one reminder, its author's, and does everything due go? |
| `starboard` | With a failing call or a crash: do rows and posts of different messages stay apart, was every post earned, and is the starboard in sync when reactions come a window apart? |
| `server_config` | With a failing query or a crash: do row and copy stay in step when changes come one at a time, is a mixture of two configurations never read, does a change leave other settings alone, does logging always have a webhook; is the list of prefixes the table, within the limit (`PrefixesInOrder`)? |
| `features` | For each of the ten features with two tasks and one failure or crash: does every level reached bring its reward, is every tier paid for and the highest, are the copies of AFK and Sentinel those a restart would bring back, does the bot know its guilds and judge only new ones, do joiners get their roles, does a bulk change run once and confirmed, is an embed changed as it was shown, do requests and the queue keep to their limits? |

What these runs leave out on purpose, because the code does not have the
property without it:

* `moderation_watch` has one moderator who mutes (two first mutes at once
  create two Muted roles, and the one that is not stored is never removed) and
  no `unban` (its deletion of rows may take the row of a temp-ban ordered while
  it ran); automod's warns, which never escalate, are not issued; the watch
  properties exclude infractions whose case insert failed (`tainted`) and
  crashes (a crash between the ban and its row leaves a ban nobody lifts).
* Behaviours of `moderation_cases` and of `reminders` are of two kinds, chosen at the
  start (`focus`). In the first run, one kind is about the log, the other about warns,
  in which the clock stands still and the sweeper finds nothing. In the second, one is
  about delivery, with one task per user; in the other two tasks serve one user, who
  creates more reminders than there is room for while the clock stands still.
  `EscalationsEarned` and `LimitHeld` are tight there: one member is punished by two
  handlers for the same warns, and one user has two reminders more than the limit.
* `features` exempts, through the history variables, what overlapping or failing
  handlers spoil and the code does not repair: users whose activations of tokens
  overlap (`spoilt`), members whose XP was set by staff (`pristine`), copies two
  changes raced for (`upset`, `unsure`), sessions with two presses at once
  (`tangled`), guilds whose events overlap (`unclear`) or came and went unannounced
  (`missed`), roles of members whose leave was still being handled (`owed`), a
  queue two requests fill at once (`crowded`), actors whose entry was evicted. A
  later change, ready event or update alone makes up for it where the code does.
  Some parts have no exemption: a bulk change runs once and confirmed, nobody has
  a tier without a token, a known guild is never judged again, and the limit on
  all requests holds.
* `OnePerPrompt` (`reminders`) and `RepliesHold` (`giveaways`) hold where the presses
  of a user are handled by one task: two presses of Confirm at once both find the
  session, two presses of the entry button may be answered in either order.
* `ResultNotLost`, `DeliveredOnce` and `RepliesHold` are for states where nothing
  failed yet. The other properties have no such proviso.
* `InStep`, `PrefixesInOrder`, and `OthersKept` for
  the cogs that write the row whole, speak of changes that come one at a time
  and of failures that are not ignored: two at once may write their rows in one
  order and their copies in the other, or undo each other's settings, and
  logging, a reset and `on_guild_create` carry on after a failed query.
  `CachedWasStored` and `LogsGoSomewhere` have no such proviso.
* `InSyncWhenCalm` does not speak of bursts: a recount that comes within the
  window is dropped and nothing catches up.

Runs that find a disagreement between the code and what its comments promise
(each is a finding in `PROJECT.json` with the sentence it refutes):

| run | counterexample |
|---|---|
| `moderation_mute_overlap` | a second, longer mute ends with the first |
| `prefix_outage` | an outage is announced with the event of a removal; the prefixes are deleted |
| `premium_downgrade` | two tokens activated at once: the lower tier is written last |
| `sentinel_reset` | the reset deletes Sentinel's row and keeps in memory that flagged messages are deleted |

Other behaviours the models show and the code does not prevent, listed as hazards
without a run of their own: two warns at once, both counted before the first
escalation resets the counter, are punished twice (`CountWarns`, `ResetWarns`; how far
that goes is `EscalationsEarned`); two reminders of one user, both counted before the
first is inserted, pass the limit together (`CheckLimit`, `Insert`; how far is
`LimitHeld`); the sweeper unbans from its snapshot a member who was
unbanned and temp-banned anew (`SweepScan`, `SweepLift`); two recounts of one
message overlap and both post it, although `cogs/starboard.rs:72-74` says they
cannot (`Check`, `Record`, `Send`); two updates of one configuration write their
rows in one order and their copies in the other, although
`docs/dashboard-api.md:218-220` says they cannot (`Write`, `Cache`); two temp-bans
at once whose fallback number collides (`InsertCase`, `FallbackNumber`); two
creations of a user's reminders that mirror their counts in the wrong order
(`SyncRead`, `SyncRow`, `SyncRedis`).

*Fairness* (the `FairSpec` of `Moderation`, `Giveaways`, `Reminders`): weak
fairness of each task's steps and of the background loop (tokio keeps polling
a runnable future, and every await completes or fails within serenity's and
SQLite's timeouts) and weak fairness of time. In `Moderation` also strong
fairness of `SweepLift`: a lift that is tried again and again is not
transiently refused for ever. In `Giveaways` and `Reminders` the number of
faults is bounded, which is the same assumption. Nothing is assumed of users,
administrators or crashes. The time properties speak only of terms within the
bound of the clock.

## 5. Proofs

Each theorem is of the unfair `Spec` (`MCSpec` of the two compositions, `TallySpec`
of the warns with their tally), for
any constants that satisfy the module's assumption, so in particular for any
number of tasks, users, commands, faults and crashes. What TLC checks on a run,
under the restrictions of that run, is proved under hypotheses that say no more
than those restrictions; they are written in the theorem.

`ModerationProofs.tla` (extends `WarnTally`, for the sake of its last theorem but one):

* `TypeCorrect`, `CaseRowsAgree` (`RowMatchesCase`) and `ClosedCasesDue`
  (`ClosedOnlyWhenDue`, which the runs check as a part of `KeepsLog`), without a
  hypothesis. `RowMatchesCase` is not inductive:
  a task about to write a row, and the sweeper's batch, carry case numbers across
  steps. `IInv` adds `RecordsMatch` (a task about to record a timed infraction
  carries the number of its own case, or a tainted one) and `BatchMatches` (every
  row in the sweeper's batch was due when it was read, and agrees with the case
  under its number or that number is tainted).
* `CasesAreALog` (`KeepsLog`: `Moderation` implements `CaseLog`), without a hypothesis.
  A task reads the highest number in one step and inserts in another, and SQLite refuses
  the insert when somebody wrote in between. `InOrder` says that of a task about to
  insert which is not `stale` the highest number is still what it read, so the insert is
  the log's `Open`; that a sweep closes only what is due, or excused, comes from
  `BatchMatches`. Spent warns are closed in one statement, and so in one step of the
  log (`SpendWarns`).
* `TempbansWatched` (`TempbanWatchedUntainted`) and `MutedWatched` (`MuteWatched`),
  with `SureToRecord` (no failing query, refusal or crash: each can leave a ban at
  Discord without a row) and `OneBanner`, or `OneMuter` (who releases a member
  is the one who punishes: two at once can clear the row of the newer punishment, or
  create two Muted roles). `BansWatched` and
  `MutesWatched` say that a punished member has a row or a task on its way to write one
  (`Beyond`, `Pending`). That is not inductive: the sweeper clears rows of its snapshot.
  `BanClears` and `MuteClears` add that a member who is punished again while the sweeper
  is about to clear their row has another row, or such a task.
* `NobodyLeftWarned` (`WarnsSettled`), with `SureToRecord`, `PolicyFixed` and
  `ModeratorsWarn` (a policy that is lowered, or a warn of automod's, counts
  nothing), however warns overlap. `Settling` says of each user at the threshold that
  some task has yet to count their warns, or is escalating (`Settles`).
* `EscalationsUseWarns` (`EscalationsEarned`), of `TallySpec`, without a hypothesis:
  any number of handlers warn, escalate, delete cases and change the policy at once, and
  anything fails. `AllAccounted` compares, for a handler and a member, the warns its
  escalations used with those recorded. Between two of its escalations the warns still
  active are ones it has not used; one about to punish holds a threshold of these; from
  the punishment to the reset the ones it used may still be active, a threshold of
  them counted twice (`Accounted`). Other handlers only help: what they record they add to
  both sides, what they close or delete leaves less to count. `EscalatorsFit` says
  that a count is made by a policy that escalates, so by at least the lowest threshold.

`GiveawayProofs.tla`:

* `TypeCorrect`, `NeverEarly` (`NeverEndsEarly`) and `PromiseKept`
  (`KeepsPromise`: `Giveaways` implements `GiveawayPromise`). `IInv` says that what
  the sweeper still has in its batch is open and due (`BatchOpen`), that the giveaway
  in its hand is open before `MarkEnded` and ended without a result after it
  (`InHand`), and that a result follows the end (`ResultsFollowEnd`). With it every
  step of the code is a step of the promise or leaves `life` and `announced` alone.
  `BatchOpen` is what makes announce-at-most-once true across crashes: nothing but
  the sweeper ends a giveaway, and there is one sweeper.
* `NoResultLost` (`ResultNotLost`) and `RepliesTrue` (`RepliesHold`). Both speak of
  states where nothing failed yet, and are inductive
  with `IInv` and `Spent` (the budgets of failures only run down, so that a full one
  means that nothing failed); `InHand` is why a giveaway without a result is the one
  in the sweeper's hand.

`ReminderProofs.tla`:

* `TypeCorrect` and `NoneLostEarly` (`GoneForAReason`, which the run checks as a part
  of `KeepsPromise`). The poll deletes by id from a
  snapshot, so the invariant says of every id the poll holds that it was handed out
  and is due (`PollDue`), and of every task about to delete that its reminder was
  handed out (`JobsFit`). Ids that are never reused keep this true.
* `RemindersKeepPromise` (`KeepsPromise`: `Reminders` implements `ReminderPromise`).
  `TakenOut` says that the reminder the poll is about to delete has left its batch, and
  that what an owner dropped is gone from the table. With `IInv`, which says that
  whatever is in the batch was handed out and is due, a message that arrives belongs to
  a reminder that waits or is `late`, and what the poll deletes is fired, once.
* `ArrivesOnce` (`DeliveredOnce`). `Delivery` says of a reminder how often it
  arrived for where it is: in the table, in the poll's hand, or gone.
* `OneEach` (`OnePerPrompt`), with `OneTaskPerUser` (the presses of a user come one at
  a time: two at once both find the session). `PromptsFit` ties a prompt to the one
  task that finishes it.
* `LimitRespected` (`LimitHeld`), without a hypothesis. `LimitKept` counts the user's
  tasks that are about to insert (`Inserting`) in with the reminders there are. A
  check that passes left room for one reminder; every other task of the user may
  be about to insert already, and each failure may have let one more pass.
  `ReminderConstants` asks that there are finitely many tasks, for the sum to be a
  number.

`StarboardProofs.tla`:

* `TypeCorrect`, `RowsOwnTheirPosts` (`RowsNameTheirPosts`) and `PostsEarned`
  (`PostsWereEarned`). A recount carries its count and its post across up to six
  awaits while others run: `JobsFit` says that a recount about to edit or record a
  post has the post of its own message and a count it was seen with, `RowsFit` that
  rows name posts of their message, `SeenNow` that the count a fetch is about to
  read has been seen.
* `InSync` (`InSyncWhenCalm`). `CalmTended` says of a message whose reactions came a
  window apart that post and row belong together (`Paired`) and show its count, or
  that its one recount is as far as `Halfway` says.

`GuildConfigProofs.tla` (extends `MCServerConfig`, for the sake of the prefixes):

* `TypeCorrect`, `StaysInStep` (`InStep`), `NeverAMixture` (`CachedWasStored`) and
  `LogsReachSomeone` (`LogsGoSomewhere`). `JobsFit` says what a handler carries from
  await to await; `StoredInv` that what is about to be cached or inserted was stored;
  `LogsInv` that a hydration of logging is about to insert a sound row. `AllAgree`
  strengthens `InStep` to the states in between: a cog that is clean has at most one
  thing under way (`Alone`), and until that thing writes, row and copy agree; after
  it, what it will cache is the row (`TaskAgrees`, `WrittenIsCached`). A step that
  touches one cog leaves the others as they were (`Same`, `Kept`, `Others`), so each
  action is argued for one cog.
* `OneSettingAtATime` (`OthersKept`, an action property). `WholeFits` says that a
  task about to write a row whole holds the present row with its change applied,
  unless another change of the cog was under way; then what is written keeps the
  fields the change does not set (`WrittenKeeps`).
* `PrefixesKeptInOrder` (`PrefixesInOrder`). The list is a bag; `InOrder` says that
  while the order was kept it is the bag of the table (`ListServes`), and of the one
  task under way what it will make of both (`ListFits`). `PrefixConstants` asks that
  there are finitely many prefixes to choose from, that the standard one is one of them
  and that the limit is positive.

`PremiumProofs.tla`: `TypeCorrect` and `TiersPaidFor` (`TierPaidFor`). What an
activation carries is kept by `JobsFit`: once burnt, the token is its user's, and
the tier it read is one the user paid for; `PaidForGrows` says that what was paid
for is never lost. For the highest tier, `OneAtATime` (of a user who is not
`spoilt` one activation is under way) makes the tier that was read the present one
(`ReadIsFresh`), and `NoneForgotten` says that each redeemed token counts in the
tier already or is about to.

`BulkRolesProofs.tla`: `CarriedOutOnce` (`ConfirmedOnce`, the first half of
`RolesInOrder`). A change waits only while it was neither begun nor called off
(`PromptsFit`); a prompt that was shown and not yet stored belongs to one task
(`OwnPrompts`), which keeps this true although the prompt can be pressed before
its change is there.

`FeatureProofs.tla` (extends `MCFeatures`; each theorem is about the behaviours whose
focus is its feature, and there is one lemma per action):

* `NoRewardLost` (`RewardsArrive`). `AllEarned` says that a member has, or some task is
  about to grant them (`ToGrant`), every steady reward up to the level of the amount in
  the row *and* of every amount a task has read and will write back raised: an
  overlapping message may put the XP back, and must not lose a reward by that. That
  levels grow with XP is proved of the curve without induction over its recursion: a
  level is the number of thresholds not above the amount (`LevelFromXp`), so more
  XP includes more of them, whatever the thresholds are.
* `JoinersGetTheirs` (`JoinersGetTheirRoles`). `Promised` says of each member what
  their tasks are still to give (`ToGet`) and that what is owed is had or to come.
* `CopiesKeptInStep` (`CopiesInStep`). `AfkTended` and `SnTended` say of each person,
  or setting, that was not raced for, how far table and copy agree at every step of
  the one task at it; of Sentinel per statement still to be executed (`SnAwaits`).
* `GuildsWellTracked` (`GuildsTracked`). `Clear` says of a guild whose events did not
  overlap what the one task about it relies on, that a baseline will record it, and
  that a settled guild is known.
* `RolesKeptInOrder` (`RolesInOrder`). The first half is the theorem of
  `BulkRolesProofs`, instantiated; for the second, `BulkersFit` ties the hierarchy that
  was looked up to the change that is about to be made.
* `DoneToTheOneSeen` (`DoneToWhatIsShown`). `Kept` says of a message what it shows,
  what its session holds, and of every task at it (`AtIt`) how far its press has
  brought either.
* `LimitsKept` (`LimitsHeld`). For requests, `Fair` relates a history to the window
  that is counted now and to *all* earlier ones: requests since its start are in its
  budget, a time that began in the window before saw less than a budget up to then,
  and no time as long as a window saw two. Histories count requests up to each time,
  so that a sum over a time is a difference. For the queue, `MusicFits` says what the
  only command under way relies on when tracks end between its awaits.
* `FeaturesTypeCorrect` (`FeaturesTypeOK`). Most types are part of the invariants above
  (`TypesOfShapes`), Premium's are the theorem of `PremiumProofs`. The others need what
  tasks carry from await to await: that the statements still to be executed give each
  setting a value of its kind (`SnTyped`), that whoever is about a guild has one
  (`GuildTyped`), that only an actor is evicted (`LimitTyped`), and that what a press
  will store or show is an embed within the limit on fields, and what it was given fits
  what it does (`EmTyped`, `EmHolds`).

Their constants are assumed to be what the runs give them, and no more:
`LevelConstants` (levels are positive, XP a number), `AfkConstants`, `EmbedConstants`,
`GuildConstants` and `JoinConstants` (marks for "nobody" or "nothing" are none of what
they stand apart from; there are finitely many roles to list, some text to begin an embed with, and a limit
on its fields), `BulkConstants` (ranks are numbers, finitely many and at least one:
somebody's highest role exists),
`LimiterConstants` (window and budgets are positive) and `MusicConstants`.

Each conjunct of an invariant has its lemma for the steps that change what it
reads and one for the steps that leave it alone.

Only model-checked: everything about liveness (`DueRowsDrain`, `TempbansEnd`,
`DueGiveawaysEnd`, `DueRemindersGo`), which is out of the prover's reach, and the
four sentences the violation runs refute. What a recursive definition
computes is beyond it too: that `LevelFromXp` is the level the code's loop finds is
TLC's to check, for the amounts in `LevelsAreTheLoops`, an assumption of `MCFeatures`
that no proof cites.

## 6. Not modelled

`PROJECT.json` gives the reason for each component.

* Tags and tagscript: a tag is one row read or written by one statement, and the
  script language maps a text to a text; what could go wrong there is about
  strings.
* Automod's filters and its flood and raid windows; Sentinel's classifier, an
  external service, and what a verdict leads to.
* Moderation commands that act on Discord alone (purge, slowmode, lock and
  unlock) or rewrite a case's reason.
* Information and lookup commands, which have no state; the dispatcher, start-up
  and migrations, which run before or around what is modelled.
* The inside of the lavalink client: the queue is what the bot's own calls do to it.

In what is modelled, texts, embeds' properties and the syntax of durations are
left out.
