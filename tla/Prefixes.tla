------------------------------ MODULE Prefixes ------------------------------
(***************************************************************************)
(* The custom prefixes of a guild: rows of settings_prefixes, and the list *)
(* in prefix_cache from which commands are dispatched.  Commands, the      *)
(* dashboard and the gateway's events about the guild change table and     *)
(* list in steps of their own.  The order of the list, by length, is left  *)
(* out; how often it holds a prefix is not.                                *)
(***************************************************************************)
EXTENDS Naturals, FiniteSets, Bags

CONSTANTS
    Names,          \* sanitized prefixes
    Standard,       \* the bot's own prefix, one of them
    MaxPrefixes,
    Tasks,
    MaxCommands,    \* bound on commands and dashboard requests
    MaxEvents,      \* bound on ready, guild create and guild delete events
    MaxFaults,      \* bound on crashes and failing queries
    Absent          \* no entry

VARIABLES
    rows,       \* SQLite: prefixes of the guild
    cache,      \* prefix_cache: bag of prefixes, or Absent
    member,     \* Discord: the bot is in the guild
    pc, job,    \* the await task t is at, and its locals
    allowed,    \* commands, events and faults the bounds still allow
    \* history
    orderly,    \* so far one thing happened at a time, no failure was ignored
                \* and no ready event found the list filled
    loaded      \* the list was filled since the process was started

vars == <<rows, cache, member, pc, job, allowed, orderly, loaded>>

NoJob == [name |-> Absent, list |-> EmptyBag, left |-> {}]

Init ==
    /\ rows = {} /\ cache = Absent /\ member = TRUE
    /\ pc = [t \in Tasks |-> "idle"] /\ job = [t \in Tasks |-> NoJob]
    /\ allowed = [commands |-> MaxCommands, events |-> MaxEvents, faults |-> MaxFaults]
    /\ orderly = TRUE /\ loaded = FALSE

Goto(t, next, j) == pc' = [pc EXCEPT ![t] = next] /\ job' = [job EXCEPT ![t] = j]
Finish(t) == Goto(t, "idle", NoJob)

UnderWay == \E t \in Tasks : pc[t] # "idle"

\* Something begins; its first query fails or not, and a failure is ignored.
Outcomes == IF allowed.faults > 0 THEN {"succeeds", "fails"} ELSE {"succeeds"}

Spend(what, outcome) ==
    /\ allowed[what] > 0
    /\ allowed' = [allowed EXCEPT ![what] = @ - 1,
                                 !.faults = IF outcome = "fails" THEN @ - 1 ELSE @]
    /\ orderly' = (orderly /\ ~UnderWay /\ outcome = "succeeds")

\* A command of a member, or a dashboard request for a guild the bot is in.
Arrives(t, outcome) == pc[t] = "idle" /\ member /\ Spend("commands", outcome)

\* A query on the way fails.
Fault == allowed.faults > 0 /\ allowed' = [allowed EXCEPT !.faults = @ - 1]

\* The list if there is one, otherwise the table; a query that fails finds no rows.
\* (Looking for the list and the answer of the query are one step.)
Current(outcome) ==
    IF cache # Absent THEN cache ELSE IF outcome = "fails" THEN EmptyBag ELSE SetToBag(rows)

\* How many entries a list has: one for every copy of a prefix.
Length(list) == Cardinality(UNION {{p} \X (1..list[p]) : p \in BagToSet(list)})

\* Looking up the list fails only if there is a query.
LookupOutcomes == IF cache = Absent THEN Outcomes ELSE {"succeeds"}

(***************************************************************************)
(* prefix add, prefix remove: look, change the table, insert the list.     *)
(***************************************************************************)
Add(t) ==
    /\ \E outcome \in LookupOutcomes, p \in Names :
         /\ Arrives(t, outcome)
         /\ LET current == Current(outcome) IN
            IF BagIn(p, current) \/ Length(current) >= MaxPrefixes
            THEN UNCHANGED <<pc, job>>
            ELSE Goto(t, "add", [NoJob EXCEPT !.name = p, !.list = current])
    /\ UNCHANGED <<rows, cache, member, loaded>>

\* A failure is reported and ends the command, here and at the deletion.
InsertRow(t) ==
    /\ pc[t] = "add"
    /\ \/ /\ rows' = rows \cup {job[t].name}
          /\ Goto(t, "cache", [job[t] EXCEPT !.list = @ (+) SetToBag({job[t].name})])
          /\ UNCHANGED allowed
       \/ Fault /\ Finish(t) /\ UNCHANGED rows
    /\ UNCHANGED <<cache, member, orderly, loaded>>

Remove(t) ==
    /\ \E outcome \in LookupOutcomes, p \in Names :
         /\ Arrives(t, outcome)
         /\ IF BagIn(p, Current(outcome))
            THEN Goto(t, "remove", [NoJob EXCEPT !.name = p, !.list = Current(outcome)])
            ELSE UNCHANGED <<pc, job>>
    /\ UNCHANGED <<rows, cache, member, loaded>>

\* Mutant: the prefix stays in the list.
DeleteRowOnly(t) ==
    /\ pc[t] = "remove"
    /\ rows' = rows \ {job[t].name}
    /\ Goto(t, "cache", job[t])
    /\ UNCHANGED <<cache, member, allowed, orderly, loaded>>

DeleteRow(t) ==
    /\ pc[t] = "remove"
    /\ \/ /\ rows' = rows \ {job[t].name}
          /\ Goto(t, "cache", [job[t] EXCEPT !.list =
                 [p \in BagToSet(job[t].list) \ {job[t].name} |-> job[t].list[p]]])
          /\ UNCHANGED allowed
       \/ Fault /\ Finish(t) /\ UNCHANGED rows
    /\ UNCHANGED <<cache, member, orderly, loaded>>

CacheList(t) ==
    /\ pc[t] = "cache"
    /\ cache' = job[t].list /\ loaded' = TRUE
    /\ Finish(t)
    /\ UNCHANGED <<rows, member, allowed, orderly>>

(***************************************************************************)
(* prefix reset, the reset of all settings and the removal of a guild:     *)
(* clear the table, drop the entry, whatever became of the query.          *)
(***************************************************************************)
Clear(t, outcome) ==
    /\ rows' = IF outcome = "fails" THEN rows ELSE {}
    /\ Goto(t, "drop", NoJob)
    /\ UNCHANGED <<cache, loaded>>

Reset(t) ==
    \E outcome \in Outcomes : Arrives(t, outcome) /\ Clear(t, outcome) /\ UNCHANGED member

\* Discord says that the guild is gone: the bot left, or there is an outage.
GuildDelete(t, unavailable) ==
    \E outcome \in Outcomes :
        /\ pc[t] = "idle" /\ member /\ Spend("events", outcome)
        /\ member' = unavailable
        /\ Clear(t, outcome)

Drop(t) ==
    /\ pc[t] = "drop"
    /\ cache' = Absent /\ Finish(t)
    /\ UNCHANGED <<rows, member, allowed, orderly, loaded>>

(***************************************************************************)
(* The dashboard replaces the list: clear, insert one by one, cache.       *)
(***************************************************************************)
\* Validation removes duplicates and refuses a list that is too long; a deletion
\* that fails ends the request and changes nothing.
Put(t) ==
    /\ Arrives(t, "succeeds")
    /\ \E list \in {s \in SUBSET Names : Cardinality(s) <= MaxPrefixes} :
         Goto(t, "put", [NoJob EXCEPT !.list = SetToBag(list), !.left = list])
    /\ rows' = {}
    /\ UNCHANGED <<cache, member, loaded>>

\* An insertion that fails is ignored.
PutRow(t) ==
    /\ pc[t] = "put"
    /\ IF job[t].left = {}
       THEN Goto(t, "cachePut", job[t]) /\ UNCHANGED <<rows, allowed, orderly>>
       ELSE \E p \in job[t].left :
              /\ Goto(t, "put", [job[t] EXCEPT !.left = @ \ {p}])
              /\ \/ rows' = rows \cup {p} /\ UNCHANGED <<allowed, orderly>>
                 \/ Fault /\ orderly' = FALSE /\ UNCHANGED rows
    /\ UNCHANGED <<cache, member, loaded>>

\* An empty list is no entry.
CachePut(t) ==
    /\ pc[t] = "cachePut"
    /\ cache' = IF job[t].list = EmptyBag THEN Absent ELSE job[t].list
    /\ loaded' = TRUE /\ Finish(t)
    /\ UNCHANGED <<rows, member, allowed, orderly>>

(***************************************************************************)
(* The gateway's events: guild create (a join, or the guild is available   *)
(* again), and ready.                                                      *)
(***************************************************************************)
\* A guild with an entry is skipped; one without a row gets the standard prefix.
GuildCreate(t) ==
    /\ pc[t] = "idle" /\ member' = TRUE
    /\ \E outcome \in LookupOutcomes :
         /\ Spend("events", outcome)
         /\ LET current == Current(outcome) IN
            IF cache # Absent THEN UNCHANGED <<pc, job>>
            ELSE IF current = EmptyBag
            THEN Goto(t, "create", [NoJob EXCEPT !.list = SetToBag({Standard})])
            ELSE Goto(t, "cache", [NoJob EXCEPT !.list = current])
    /\ UNCHANGED <<rows, cache, loaded>>

InsertStandard(t) ==
    /\ pc[t] = "create"
    /\ Goto(t, "cache", job[t])
    /\ \/ rows' = rows \cup {Standard} /\ UNCHANGED <<allowed, orderly>>
       \/ Fault /\ orderly' = FALSE /\ UNCHANGED rows
    /\ UNCHANGED <<cache, member, loaded>>

ReadyRead(t) ==
    /\ pc[t] = "idle"
    /\ \E outcome \in Outcomes :
         /\ Spend("events", outcome)
         /\ Goto(t, "ready", [NoJob EXCEPT !.left = IF outcome = "fails" THEN {} ELSE rows])
    /\ UNCHANGED <<rows, cache, member, loaded>>

\* The rows are pushed to whatever list there is.
ReadyPush(t) ==
    /\ pc[t] = "ready"
    /\ orderly' = (orderly /\ cache = Absent)
    /\ cache' = IF job[t].left = {} THEN cache
                ELSE SetToBag(job[t].left) (+) (IF cache = Absent THEN EmptyBag ELSE cache)
    /\ loaded' = TRUE /\ Finish(t)
    /\ UNCHANGED <<rows, member, allowed>>

Crash ==
    /\ Fault
    /\ cache' = Absent /\ loaded' = FALSE
    /\ pc' = [t \in Tasks |-> "idle"] /\ job' = [t \in Tasks |-> NoJob]
    /\ UNCHANGED <<rows, member, orderly>>

Command(t) == Add(t) \/ Remove(t) \/ Reset(t) \/ Put(t)
Event(t) == GuildCreate(t) \/ ReadyRead(t) \/ \E unavailable \in BOOLEAN : GuildDelete(t, unavailable)
TaskStep(t) ==
    \/ InsertRow(t) \/ DeleteRow(t) \/ CacheList(t) \/ Drop(t)
    \/ PutRow(t) \/ CachePut(t) \/ InsertStandard(t) \/ ReadyPush(t)

Next == Crash \/ \E t \in Tasks : Command(t) \/ Event(t) \/ TaskStep(t)

Spec == Init /\ [][Next]_vars

(***************************************************************************)
(* Properties.                                                             *)
(***************************************************************************)
\* Table and lists hold known prefixes, and no list holds a prefix zero times.
PrefixTypeOK ==
    /\ rows \subseteq Names /\ member \in BOOLEAN /\ orderly \in BOOLEAN /\ loaded \in BOOLEAN
    /\ cache # Absent => IsABag(cache) /\ BagToSet(cache) \subseteq Names
    /\ pc \in [Tasks -> {"idle", "add", "remove", "cache", "drop", "put", "cachePut",
                          "create", "ready"}]
    /\ \A t \in Tasks : /\ job[t].name \in Names \cup {Absent} /\ job[t].left \subseteq Names
                        /\ IsABag(job[t].list) /\ BagToSet(job[t].list) \subseteq Names

\* The list commands are dispatched by is the table, each prefix once, when so
\* far commands, requests and events came one at a time, no ignored query failed
\* and ready events found no list; no list means no rows, once it was loaded.
ListIsTable ==
    orderly /\ ~UnderWay =>
        IF cache = Absent THEN loaded => rows = {} ELSE cache = SetToBag(rows)

\* A guild has at most MaxPrefixes prefixes in the table, under the same proviso,
\* also while something is under way and across restarts.
LimitHeld == orderly => Cardinality(rows) <= MaxPrefixes

\* Prefixes are not taken from a guild the bot stays in by an event of the
\* gateway (cogs/events.rs: "A guild going *unavailable* (outage) is not a real
\* removal").
OutagesKeepPrefixes ==
    [][allowed'.events < allowed.events /\ member' => rows \subseteq rows']_vars
=============================================================================
