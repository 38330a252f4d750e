--------------------------- MODULE GuildTracking ----------------------------
(***************************************************************************)
(* Which guilds the bot is in.  The dashboard's API authorises requests by *)
(* guild_set; the policy by which the bot leaves guilds full of bots tells *)
(* new guilds from those the gateway only announces again by known_guilds. *)
(* Events are handled by tasks of their own; joining and leaving while the *)
(* bot is disconnected is announced by no event.                           *)
(***************************************************************************)
EXTENDS Naturals, FiniteSets

CONSTANTS
    Guilds, NoGuild,
    Crowds,     \* what a guild's members may be: [bots, humans]
    Tasks,
    MaxMoves,   \* bound on joins, departures, outages and repeated announcements
    MaxFaults   \* bound on disconnections, crashes and calls that fail

VARIABLES
    inside,         \* Discord: the guilds the bot is in
    online,         \* connected to the gateway
    cached,         \* serenity's cache of guilds
    setUp,          \* the setup callback has run
    guildSet,       \* guild_set
    knownGuilds,    \* known_guilds
    readySeen,      \* ready_seen
    pc, job,        \* the step task t is at, and its locals
    allowed,        \* moves and faults the bounds still allow
    \* history
    missed,         \* guilds joined or left while disconnected, and not heard of since
    unclear,        \* guilds two events of which overlapped, or joined or missed during on_ready,
                    \* until they are left
    settled,        \* guilds the bot was in at a ready event or judged, and stayed in
    rejudged        \* guilds judged although they were settled

data == <<inside, online, cached, setUp, guildSet, knownGuilds, readySeen,
          missed, unclear, settled, rejudged>>
bot == <<setUp, guildSet, knownGuilds, readySeen, rejudged>>
vars == <<data, pc, job, allowed>>

NoJob == [guild |-> NoGuild, guilds |-> {}]
About(g) == [guild |-> g, guilds |-> {}]

DataInit ==
    /\ inside = {} /\ online = FALSE /\ cached = {} /\ setUp = FALSE
    /\ guildSet = {} /\ knownGuilds = {} /\ readySeen = FALSE
    /\ missed = {} /\ unclear = {} /\ settled = {} /\ rejudged = {}
TaskInit ==
    /\ pc = [t \in Tasks |-> "idle"] /\ job = [t \in Tasks |-> NoJob]
    /\ allowed = [moves |-> MaxMoves, faults |-> MaxFaults]
Init == DataInit /\ TaskInit

Goto(t, next, j) == pc' = [pc EXCEPT ![t] = next] /\ job' = [job EXCEPT ![t] = j]
Finish(t) == Goto(t, "idle", NoJob)
Spend(what) == allowed[what] > 0 /\ allowed' = [allowed EXCEPT ![what] = @ - 1]
Busy(g) == \E t \in Tasks : job[t].guild = g
Refreshing == \E t \in Tasks : pc[t] = "baseline"

(***************************************************************************)
(* Discord and the gateway.                                                *)
(***************************************************************************)
\* An event about g is dispatched; what was missed about g is made up for.  Only a
\* departure makes clear again what overlapping events left behind.
Hears(t, g, event) ==
    /\ pc[t] = "idle" /\ online
    /\ Goto(t, event, About(g))
    /\ missed' = IF event = "unavailable" THEN missed ELSE missed \ {g}
    /\ unclear' = IF Busy(g) \/ Refreshing THEN unclear \cup {g}
                  ELSE IF event = "deleted" THEN unclear \ {g} ELSE unclear

Joined(t, g) ==
    /\ g \notin inside /\ Spend("moves")
    /\ inside' = inside \cup {g}
    /\ cached' = cached \cup {g}
    /\ Hears(t, g, "created")
    /\ UNCHANGED <<bot, online, settled>>

Left(t, g) ==
    /\ g \in inside /\ Spend("moves")
    /\ inside' = inside \ {g} /\ settled' = settled \ {g}
    /\ cached' = cached \ {g}
    /\ Hears(t, g, "deleted")
    /\ UNCHANGED <<bot, online>>

\* The guild becomes unavailable, or is announced again: at start, after an outage,
\* after a reconnect.
Outage(t, g) ==
    /\ g \in inside /\ Spend("moves") /\ Hears(t, g, "unavailable")
    /\ UNCHANGED <<bot, inside, online, cached, settled>>

Announced(t, g) ==
    /\ g \in inside /\ Spend("moves") /\ Hears(t, g, "created")
    /\ cached' = cached \cup {g}
    /\ UNCHANGED <<bot, inside, online, settled>>

Disconnect ==
    /\ online /\ Spend("faults")
    /\ online' = FALSE
    /\ UNCHANGED <<bot, inside, cached, missed, unclear, settled, pc, job>>

MissedMove(g) ==
    /\ ~online /\ Spend("moves")
    /\ inside' = IF g \in inside THEN inside \ {g} ELSE inside \cup {g}
    /\ settled' = settled \ {g}
    /\ missed' = missed \cup {g}
    /\ unclear' = IF Busy(g) \/ Refreshing THEN unclear \cup {g} ELSE unclear
    /\ UNCHANGED <<bot, online, cached, pc, job>>

\* A new session: the guilds the bot is in are added to the cache, and those that were
\* left meanwhile stay there.
Identify(t) ==
    /\ ~online /\ pc[t] = "idle"
    /\ online' = TRUE
    /\ cached' = cached \cup inside
    /\ missed' = IF setUp THEN missed ELSE missed \ inside
    /\ unclear' = IF Refreshing THEN unclear \cup missed ELSE unclear
    /\ Goto(t, "ready", NoJob)
    /\ UNCHANGED <<bot, inside, settled, allowed>>

Crash ==
    /\ Spend("faults")
    /\ online' = FALSE /\ cached' = {} /\ setUp' = FALSE
    /\ guildSet' = {} /\ knownGuilds' = {} /\ readySeen' = FALSE
    /\ pc' = [t \in Tasks |-> "idle"] /\ job' = [t \in Tasks |-> NoJob]
    /\ missed' = {} /\ unclear' = {}
    /\ UNCHANGED <<inside, settled, rejudged>>

(***************************************************************************)
(* The bot.                                                                *)
(***************************************************************************)
SetUp ==
    /\ online /\ ~setUp
    /\ setUp' = TRUE /\ guildSet' = guildSet \cup cached
    /\ UNCHANGED <<inside, online, cached, knownGuilds, readySeen, missed, unclear, settled, rejudged,
                   pc, job, allowed>>

OnReady(t) ==
    /\ pc[t] = "ready"
    /\ Goto(t, "baseline", [guild |-> NoGuild, guilds |-> cached])
    /\ settled' = settled \cup {g \in cached \cap inside : ~Busy(g)}
    /\ UNCHANGED <<bot, inside, online, cached, missed, unclear, allowed>>

Baseline(t) ==
    /\ pc[t] = "baseline" /\ Finish(t)
    /\ knownGuilds' = job[t].guilds /\ readySeen' = TRUE
    /\ UNCHANGED <<inside, online, cached, setUp, guildSet, missed, unclear, settled, rejudged, allowed>>

OnGuildCreate(t) ==
    LET g == job[t].guild IN
    /\ pc[t] = "created"
    /\ guildSet' = guildSet \cup {g}
    /\ IF ~readySeen \/ g \in knownGuilds
       THEN Finish(t) /\ UNCHANGED <<knownGuilds, settled, rejudged>>
       ELSE /\ Goto(t, "judge", job[t])
            /\ knownGuilds' = knownGuilds \cup {g}
            /\ rejudged' = IF g \in settled \ unclear THEN rejudged \cup {g} ELSE rejudged
            /\ settled' = IF g \in inside THEN settled \cup {g} ELSE settled
    /\ UNCHANGED <<inside, online, cached, setUp, readySeen, missed, unclear, allowed>>

\* bot_ratio truncates the percentage to two decimals.
BotRatio(crowd) == (crowd.bots * 10000) \div (crowd.bots + crowd.humans)
TooManyBots(crowd) ==
    /\ crowd.bots + crowd.humans > 0
    /\ BotRatio(crowd) > 2000 \/ crowd.humans < 5

\* Unless an owner of the bot is a member, which a failing lookup does not find.
Judge(t) ==
    /\ pc[t] = "judge"
    /\ \E crowd \in Crowds, trusted \in BOOLEAN :
         IF ~trusted /\ TooManyBots(crowd) THEN Goto(t, "leave", job[t]) ELSE Finish(t)
    /\ UNCHANGED <<data, allowed>>

\* The departure is announced like any other.
NotifyAndLeave(t) ==
    LET g == job[t].guild IN
    /\ pc[t] = "leave"
    /\ \/ /\ g \in inside /\ inside' = inside \ {g}
          /\ cached' = IF online THEN cached \ {g} ELSE cached
          /\ missed' = IF online THEN missed ELSE missed \cup {g}
          /\ settled' = settled \ {g}
          /\ IF online THEN Goto(t, "deleted", job[t]) ELSE Finish(t)
          /\ UNCHANGED allowed
       \/ g \notin inside /\ Finish(t) /\ UNCHANGED <<inside, cached, missed, settled, allowed>>
       \/ g \in inside /\ Spend("faults") /\ Finish(t) /\ UNCHANGED <<inside, cached, missed, settled>>
    /\ UNCHANGED <<bot, online, unclear>>

\* Mutant: an outage is taken for a removal.
RemoveAlways(t) ==
    /\ pc[t] \in {"deleted", "unavailable"} /\ Finish(t)
    /\ guildSet' = guildSet \ {job[t].guild} /\ knownGuilds' = knownGuilds \ {job[t].guild}
    /\ UNCHANGED <<inside, online, cached, setUp, readySeen, missed, unclear, settled, rejudged, allowed>>

OnGuildDelete(t) ==
    /\ pc[t] \in {"deleted", "unavailable"} /\ Finish(t)
    /\ \/ pc[t] = "unavailable" /\ UNCHANGED <<guildSet, knownGuilds>>
       \/ /\ pc[t] = "deleted"
          /\ guildSet' = guildSet \ {job[t].guild} /\ knownGuilds' = knownGuilds \ {job[t].guild}
    /\ UNCHANGED <<inside, online, cached, setUp, readySeen, missed, unclear, settled, rejudged, allowed>>

Next ==
    \/ \E t \in Tasks, g \in Guilds : Joined(t, g) \/ Left(t, g) \/ Outage(t, g) \/ Announced(t, g)
    \/ Disconnect \/ Crash \/ SetUp
    \/ \E g \in Guilds : MissedMove(g)
    \/ \E t \in Tasks :
         \/ Identify(t) \/ OnReady(t) \/ Baseline(t) \/ OnGuildCreate(t)
         \/ Judge(t) \/ NotifyAndLeave(t) \/ OnGuildDelete(t)

Spec == Init /\ [][Next]_vars

(***************************************************************************)
(* Properties.                                                             *)
(***************************************************************************)
\* Everything is a set of guilds.
TypeOK ==
    /\ {inside, cached, guildSet, knownGuilds, missed, unclear, settled, rejudged} \subseteq SUBSET Guilds
    /\ {online, setUp, readySeen} \subseteq BOOLEAN
    /\ pc \in [Tasks -> {"idle", "ready", "baseline", "created", "judge", "leave", "deleted", "unavailable"}]
    /\ job \in [Tasks -> [guild : Guilds \cup {NoGuild}, guilds : SUBSET Guilds]]

\* The dashboard sees the guilds the bot is in: once set up and idle, guild_set differs
\* from them at most by guilds joined or left while the bot was disconnected, and by
\* those of which events overlapped (on_guild_create, on_guild_delete).
GuildSetInStep ==
    setUp /\ (\A t \in Tasks : pc[t] = "idle") =>
        (inside \ guildSet) \cup (guildSet \ inside) \subseteq missed \cup unclear

\* The policy is for new guilds only: outages, reconnects and restarts never bring it
\* upon a guild the bot was in already (events.rs:31-37, known_guilds).
NoneJudgedAgain == rejudged = {}
=============================================================================
