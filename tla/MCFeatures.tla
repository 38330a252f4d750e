----------------------------- MODULE MCFeatures -----------------------------
(* The features that share nothing with one another, with values for their   *)
(* constants: a behaviour exercises one of them, its focus, and the others   *)
(* stay as they begin.                                                       *)
EXTENDS Premium, TLC

CONSTANTS
    Focuses,
    Members, RewardLevels, Awards, SetTo, MaxMessages, None,
    People, Notices, Grace, MaxNow, MaxCommands, Nobody, NoNotice, NoSnapshot,
    Joiners, MaxAutoroles, JoinMoves,
    Channels, NoChannel, Thresholds,
    Guilds, NoGuild, GuildMoves,
    Actors, NoActor, Window, MaxActor, MaxGlobal, Cap, MaxClock, MaxRequests,
    Holders, Bots, Ranks, Prompts, MaxPending, BulkPresses, MaxStaff, NoHolder, NoPrompt, NoChange,
    MaxQueue, MaxLoad, MaxOrders,
    Messages, NoMessage, Authors, Texts, Blank, Fields, MaxFields, MaxBuilders, MaxPresses, NoEmbed,
    LevelRoles, JoinRoleSet,
    MaxEdits, MaxReadies, MaxChanges

\* One bot among few, too many by share, too many by number of people, and nobody seen.
Crowd(bots, humans) == [bots |-> bots, humans |-> humans]
Crowds == {Crowd(0, 0), Crowd(2, 8), Crowd(2, 7), Crowd(0, 4)}

ASSUME LevelConstants == RewardLevels \subseteq Nat \ {0} /\ Awards \cup SetTo \subseteq Nat /\ None \notin Members \cup Nat

VARIABLES
    focus,
    step, local, budget,    \* pc, job and allowed of all but Premium
    xp, rewards, known, granted, steady, pristine,
    afkRows, afkCache, now, upset,
    autoroles, sticky, saved, present, roles, always, stuck, owed,
    exists, stored, copy, unsure,
    inside, online, cached, setUp, guildSet, knownGuilds, readySeen, missed, unclear, settled, rejudged,
    hits, global, clock, served, passed, evicted,
    holds, botTop, buttons, pending, asked, confirmed, calledOff, begun,
    player, queue, playing, created, crowded,
    builders, drafts, view, shown, alone, tangled

Lv == INSTANCE Levels WITH pc <- step, job <- local, allowed <- budget, Roles <- LevelRoles
Away == INSTANCE Afk WITH pc <- step, job <- local, allowed <- budget
Jn == INSTANCE JoinRoles WITH pc <- step, job <- local, allowed <- budget, Roles <- JoinRoleSet, MaxMoves <- JoinMoves
Sn == INSTANCE Sentinel WITH pc <- step, job <- local, allowed <- budget
Gt == INSTANCE GuildTracking WITH pc <- step, job <- local, allowed <- budget, MaxMoves <- GuildMoves
Hl == INSTANCE HttpLimiter WITH pc <- step, job <- local, allowed <- budget
Br == INSTANCE BulkRoles WITH pc <- step, job <- local, allowed <- budget, MaxPresses <- BulkPresses
Mu == INSTANCE Music WITH pc <- step, job <- local, allowed <- budget
Em == INSTANCE EmbedSessions WITH pc <- step, job <- local, allowed <- budget

\* The levels are those the code's loop finds: what is paid for them is spent, and does
\* not suffice for the next one.  No proof uses it.
ASSUME LevelsAreTheLoops ==
    \A total \in 0 .. 2000 :
        LET level == Lv!LevelFromXp(total) IN
        Lv!Total[level] <= total /\ total < Lv!Total[level + 1]

ASSUME AfkConstants ==
    /\ MaxNow \in Nat /\ Nobody \notin People /\ NoSnapshot \notin [People -> Away!Entry \cup {NoNotice}]

ASSUME EmbedConstants ==
    /\ Messages \cap Authors = {} /\ NoMessage \notin Messages /\ Texts # {} /\ MaxFields \in Nat

ASSUME BulkConstants == IsFiniteSet(Ranks) /\ Ranks # {} /\ Ranks \subseteq Nat

ASSUME GuildConstants == NoGuild \notin Guilds

ASSUME LimiterConstants == {Window, MaxActor, MaxGlobal} \subseteq Nat \ {0} /\ MaxClock \in Nat

ASSUME MusicConstants == MaxQueue \in Nat /\ MaxLoad \in Nat

ASSUME JoinConstants == IsFiniteSet(JoinRoleSet) /\ MaxAutoroles \in Nat /\ Nobody \notin Joiners

levelsVars == <<xp, rewards, known, granted, steady, pristine>>
awayVars == <<afkRows, afkCache, now, upset>>
joinVars == <<autoroles, sticky, saved, present, roles, always, stuck, owed>>
sentinelVars == <<exists, stored, copy, unsure>>
guildVars == <<inside, online, cached, setUp, guildSet, knownGuilds, readySeen, missed, unclear, settled, rejudged>>
limiterVars == <<hits, global, clock, served, passed, evicted>>
bulkVars == <<holds, botTop, buttons, asked, pending, confirmed, calledOff, begun>>
musicVars == <<player, queue, playing, created, crowded>>
embedVars == <<builders, drafts, view, shown, alone, tangled>>

\* What a feature could begin with that it does not need when it is not the focus.
Plain ==
    /\ focus # "levels" => known = {}
    /\ focus # "joining" => autoroles = {} /\ ~sticky

MCInit ==
    /\ focus \in Focuses
    /\ Lv!DataInit /\ DataInit /\ Away!DataInit /\ Jn!DataInit /\ Sn!DataInit
    /\ Gt!DataInit /\ Hl!DataInit /\ Br!DataInit /\ Mu!DataInit /\ Em!DataInit
    /\ Plain /\ TaskInit
    /\ \/ focus = "levels" /\ Lv!TaskInit
       \/ focus = "premium" /\ step = <<>> /\ local = <<>> /\ budget = <<>>
       \/ focus = "afk" /\ Away!TaskInit
       \/ focus = "joining" /\ Jn!TaskInit
       \/ focus = "sentinel" /\ Sn!TaskInit
       \/ focus = "guilds" /\ Gt!TaskInit
       \/ focus = "limiter" /\ Hl!TaskInit
       \/ focus = "bulk" /\ Br!TaskInit
       \/ focus = "music" /\ Mu!TaskInit
       \/ focus = "embeds" /\ Em!TaskInit

MCNext ==
    /\ UNCHANGED focus
    /\ IF focus = "levels" THEN Lv!Next ELSE UNCHANGED levelsVars
    /\ IF focus = "premium" THEN Next /\ UNCHANGED <<step, local, budget>> ELSE UNCHANGED vars
    /\ IF focus = "afk" THEN Away!Next ELSE UNCHANGED awayVars
    /\ IF focus = "joining" THEN Jn!Next ELSE UNCHANGED joinVars
    /\ IF focus = "sentinel" THEN Sn!Next ELSE UNCHANGED sentinelVars
    /\ IF focus = "guilds" THEN Gt!Next ELSE UNCHANGED guildVars
    /\ IF focus = "limiter" THEN Hl!Next ELSE UNCHANGED limiterVars
    /\ IF focus = "bulk" THEN Br!Next ELSE UNCHANGED bulkVars
    /\ IF focus = "music" THEN Mu!Next ELSE UNCHANGED musicVars
    /\ IF focus = "embeds" THEN Em!Next ELSE UNCHANGED embedVars

State == <<levelsVars, vars, awayVars, joinVars, sentinelVars, guildVars, limiterVars, bulkVars, musicVars, embedVars>>

MCSpec == MCInit /\ [][MCNext]_<<focus, State, step, local, budget>>

\* Every variable has its type, those of the tasks that of the focus.
FeaturesTypeOK ==
    /\ focus = "levels" => Lv!TypeOK
    /\ TypeOK
    /\ focus = "afk" => Away!TypeOK
    /\ focus = "joining" => Jn!TypeOK
    /\ focus = "sentinel" => Sn!TypeOK
    /\ focus = "guilds" => Gt!TypeOK
    /\ focus = "limiter" => Hl!TypeOK
    /\ focus = "bulk" => Br!TypeOK
    /\ focus = "music" => Mu!TypeOK
    /\ focus = "embeds" => Em!TypeOK

\* No reward is lost to messages that overlap (Levels).
RewardsArrive == focus = "levels" => Lv!RewardsArrive
\* The copies in memory are those a restart would bring back (Afk, Sentinel).
CopiesInStep == (focus = "afk" => Away!AfkInStep) /\ (focus = "sentinel" => Sn!SentinelInStep)
\* Who joins gets the autoroles and what they left with (JoinRoles).
JoinersGetTheirRoles == focus = "joining" => Jn!JoinersGetTheirRoles
\* The bot knows which guilds it is in, and judges only new ones (GuildTracking).
GuildsTracked == focus = "guilds" => Gt!GuildSetInStep /\ Gt!NoneJudgedAgain
\* A bulk change is made once and confirmed, and nobody raises above themselves (BulkRoles).
RolesInOrder == focus = "bulk" => Br!ConfirmedOnce /\ Br!NoneAboveAuthor
\* What is done to an embed is done to the one its author saw (EmbedSessions).
DoneToWhatIsShown == focus = "embeds" => Em!DoneToWhatIsShown
\* Requests keep to their budgets, and the queue to its limit (HttpLimiter, Music).
LimitsHeld == (focus = "limiter" => Hl!BudgetsHeld) /\ (focus = "music" => Mu!QueuePlays)

Alike == Permutations(Tasks)
=============================================================================
