--------------------------- MODULE MCServerConfig ---------------------------
(* GuildConfig and Prefixes with values for their constants.  The prefixes   *)
(* and the configurations of the cogs share nothing, so that a behaviour     *)
(* exercises one of them, its focus, and the others stay as they begin.      *)
EXTENDS GuildConfig, TLC

CONSTANTS Focuses, Names, Standard, MaxPrefixes, MaxCommands, MaxEvents

ASSUME PrefixConstants ==
    /\ IsFiniteSet(Names) /\ Standard \in Names /\ MaxPrefixes \in Nat \ {0}
    /\ \A S \in SUBSET Names : Absent \notin [S -> Nat]   \* Absent is not a list

VARIABLES focus, table, list, member, step, local, budget, orderly, loaded

P == INSTANCE Prefixes
       WITH rows <- table, cache <- list, pc <- step, job <- local, allowed <- budget

prefixVars == <<table, list, member, step, local, budget, orderly, loaded>>

MCInit == focus \in Focuses /\ Init /\ P!Init

MCNext ==
    /\ UNCHANGED focus
    /\ \/ /\ focus # "prefixes" /\ Next /\ UNCHANGED prefixVars
          /\ \A t \in Tasks : job'[t].cog \in {focus, Absent}
          /\ \A c \in Cogs \ {focus} : hydration'[c] = Idle /\ c \in clean'
       \/ focus = "prefixes" /\ P!Next /\ UNCHANGED vars

MCSpec == MCInit /\ [][MCNext]_<<focus, vars, prefixVars>>

\* The list commands are dispatched by is the table, and no guild has more prefixes
\* than the limit (Prefixes).
PrefixesInOrder == P!PrefixTypeOK /\ P!ListIsTable /\ P!LimitHeld
\* An event about a guild the bot stays in takes no prefixes away (Prefixes).
OutagesKeepPrefixes == P!OutagesKeepPrefixes

Alike == Permutations(Tasks) \cup Permutations(Targets) \cup Permutations(Names \ {Standard})
=============================================================================
