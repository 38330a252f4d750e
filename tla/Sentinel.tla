------------------------------ MODULE Sentinel ------------------------------
(***************************************************************************)
(* The settings of Sentinel and Decancer in one guild: two rows, and their *)
(* copies in memory (sentinel_cache and DELETE_FLAGS, DECANCER_CACHE).     *)
(* Most settings have a command that writes one column and then changes    *)
(* the copy in place, whatever became of the write; the default setup, the *)
(* dashboard and ready events replace several at once.  A copy that is not *)
(* there reads as the defaults, as a row does.  The seven thresholds are   *)
(* treated alike; one stands for them.                                     *)
(***************************************************************************)
EXTENDS Naturals, FiniteSets, Sequences, Functions

CONSTANTS
    Channels, NoChannel,
    Thresholds,         \* in percent, among them the default
    Tasks,
    MaxChanges, MaxReadies, MaxFaults   \* bounds

VARIABLES
    exists,     \* the tables that have a row for the guild
    stored,     \* setting -> its value in the row, or the default
    copy,       \* setting -> its value in memory, or the default
    pc, job,    \* the await task t is at, and what it has yet to do
    allowed,    \* changes, ready events and faults the bounds still allow
    \* history
    unsure      \* settings of which two changes overlapped, or one failed or left
                \* the copy as it was, since the last change of both row and copy

data == <<exists, stored, copy, unsure>>
vars == <<exists, stored, copy, unsure, pc, job, allowed>>

Default == [enabled |-> FALSE, channel |-> NoChannel, threshold |-> 85, delete |-> FALSE,
            cleaning |-> FALSE, log |-> NoChannel]
Settings == DOMAIN Default
TableOf(f) == IF f \in {"cleaning", "log"} THEN "decancer" ELSE "sentinel"
FieldsOf(table) == {f \in Settings : TableOf(f) = table}

\* A row, or a copy, with some of its settings changed.
Over(new, row) == [f \in DOMAIN row |-> IF f \in DOMAIN new THEN new[f] ELSE row[f]]

\* A statement and the change of the copy that follows it.
Part(how, table, to) == [how |-> how, table |-> table, to |-> to]
Upsert(to) == Part("upsert", "sentinel", to)
Ensure == Part("ensure", "decancer", <<>>)
Update(table, to) == Part("update", table, to)
Put(table, to) == Part("put", table, to)
Hydrate(table) == Part("hydrate", table, Restrict(Default, FieldsOf(table)))

NoJob == [parts |-> <<>>, fields |-> {}, before |-> {}]

DataInit == exists = {} /\ stored = Default /\ copy = Default /\ unsure = {}
TaskInit ==
    /\ pc = [t \in Tasks |-> "idle"] /\ job = [t \in Tasks |-> NoJob]
    /\ allowed = [changes |-> MaxChanges, readies |-> MaxReadies, faults |-> MaxFaults]
Init == DataInit /\ TaskInit

Goto(t, next, j) == pc' = [pc EXCEPT ![t] = next] /\ job' = [job EXCEPT ![t] = j]
Spend(what) == allowed[what] > 0 /\ allowed' = [allowed EXCEPT ![what] = @ - 1]
UnderWay(f) == \E t \in Tasks : f \in job[t].fields

(***************************************************************************)
(* What is asked for.                                                      *)
(***************************************************************************)
SentinelEnable == <<Upsert([enabled |-> TRUE])>>
SentinelDisable == <<Update("sentinel", [enabled |-> FALSE])>>
SetLogChannel(c) == <<Upsert([channel |-> c])>>
SetThreshold(v) == <<Upsert([threshold |-> v])>>
SentinelDelete(on) == <<Upsert([delete |-> on])>>
\* The second threshold form saves each field it finds filled, one after the other.
OnModal(v, c) == <<Upsert([threshold |-> v]), Upsert([channel |-> c])>>
SetDecancerEnabled(on) == <<Ensure, Update("decancer", [cleaning |-> on])>>
DecancerLogs(c) == <<Ensure, Update("decancer", [log |-> c])>>
PutSentinel(on, c, v, delete, clean, log) ==
    <<Put("sentinel", [enabled |-> on, channel |-> c, threshold |-> v, delete |-> delete]),
      Put("decancer", [cleaning |-> clean, log |-> log])>>
\* The log channel is kept, or a new one made.
SentinelDefault(c) == <<Upsert([enabled |-> TRUE, channel |-> c, threshold |-> 85])>>

Requests ==
    {SentinelEnable, SentinelDisable}
    \cup {SetLogChannel(c) : c \in Channels} \cup {SetThreshold(v) : v \in Thresholds}
    \cup {OnModal(v, c) : v \in Thresholds, c \in Channels}
    \cup {SentinelDelete(on) : on \in BOOLEAN} \cup {SetDecancerEnabled(on) : on \in BOOLEAN}
    \cup {DecancerLogs(c) : c \in Channels}
    \cup {SentinelDefault(c) : c \in IF copy.channel # NoChannel THEN {copy.channel} ELSE Channels}
    \cup {PutSentinel(on, c, v, on, on, c) :
             on \in BOOLEAN, c \in Channels \cup {NoChannel}, v \in Thresholds}

\* The reset of all settings deletes the row of Sentinel, and drops its copy.
SettingsReset == <<Part("reset", "sentinel", Restrict(Default, FieldsOf("sentinel")))>>

OnReady == <<Hydrate("sentinel"), Hydrate("decancer")>>

FieldsIn(parts) == UNION {DOMAIN parts[i].to : i \in DOMAIN parts}

\* Something begins that will write the given settings, in row and copy.
Begin(t, parts, sure) ==
    /\ pc[t] = "idle"
    /\ Goto(t, "write", [parts |-> parts, fields |-> FieldsIn(parts), before |-> unsure])
    /\ unsure' = (unsure \ sure) \cup {f \in FieldsIn(parts) : UnderWay(f)}
    /\ UNCHANGED <<exists, stored, copy>>

Change(t) == Spend("changes") /\ \E parts \in Requests \cup {SettingsReset} : Begin(t, parts, FieldsIn(parts))

Ready(t) == Spend("readies") /\ Begin(t, OnReady, {f \in Settings : TableOf(f) \in exists})

(***************************************************************************)
(* Its steps.                                                              *)
(***************************************************************************)
To(t, parts) ==
    IF parts = <<>> THEN Goto(t, "idle", NoJob)
    ELSE Goto(t, "write", [job[t] EXCEPT !.parts = parts])

\* Mutant: a command for one setting writes the defaults of the others.
WholeRow(part) == Over(part.to, Restrict(Default, FieldsOf(part.table)))
Row(part) == part.to

\* The statement: an upsert creates the row, an update needs it, the row of Decancer
\* is ensured first, a reset deletes it.  Hydration reads the row.
Write(t) ==
    /\ pc[t] = "write"
    /\ LET part == Head(job[t].parts) IN
       /\ exists' = IF part.how \in {"upsert", "ensure", "put"} THEN exists \cup {part.table}
                    ELSE IF part.how = "reset" THEN exists \ {part.table} ELSE exists
       /\ stored' = IF part.how = "hydrate" \/ (part.how = "update" /\ part.table \notin exists)
                    THEN stored ELSE Over(Row(part), stored)
       /\ IF part.how = "ensure" THEN To(t, Tail(job[t].parts))
          ELSE IF part.how = "hydrate"
          THEN Goto(t, "mirror", [job[t] EXCEPT !.parts[1].to =
                   IF part.table \in exists THEN Restrict(stored, FieldsOf(part.table)) ELSE <<>>])
          ELSE Goto(t, "mirror", job[t])
    /\ UNCHANGED <<copy, unsure, allowed>>

\* A statement that fails is ignored by the commands, as if it had been executed;
\* hydration finds no row; only the dashboard reports it and stops.
WriteFails(t) ==
    /\ pc[t] = "write" /\ Spend("faults")
    /\ LET part == Head(job[t].parts) IN
       IF part.how = "put"
       THEN /\ Goto(t, "idle", NoJob)
            /\ unsure' = unsure \cup (job[t].before \cap FieldsIn(job[t].parts))
       ELSE /\ IF part.how = "ensure" THEN To(t, Tail(job[t].parts))
               ELSE IF part.how = "hydrate" THEN Goto(t, "mirror", [job[t] EXCEPT !.parts[1].to = <<>>])
               ELSE Goto(t, "mirror", job[t])
            /\ unsure' = unsure \cup (FieldsIn(job[t].parts) \cap
                                    IF part.how = "hydrate" THEN job[t].before ELSE Settings)
    /\ UNCHANGED <<exists, stored, copy>>

\* Whether flagged messages are deleted is kept apart (DELETE_FLAGS): the reset does
\* not drop it.
Mirrored(part) == IF part.how = "reset" THEN Restrict(part.to, DOMAIN part.to \ {"delete"}) ELSE part.to

\* The copy of the dashboard's settings, or of a hydrated row, is whole; a command
\* changes its own setting in place, creating the copy if need be.
Mirror(t) ==
    /\ pc[t] = "mirror"
    /\ LET part == Head(job[t].parts) IN
       /\ copy' = Over(Mirrored(part), copy)
       /\ unsure' = unsure \cup (DOMAIN part.to \ DOMAIN Mirrored(part))
    /\ To(t, Tail(job[t].parts))
    /\ UNCHANGED <<exists, stored, allowed>>

\* The process dies and is started again: nothing is in memory.
Crash ==
    /\ Spend("faults")
    /\ copy' = Default
    /\ pc' = [t \in Tasks |-> "idle"] /\ job' = [t \in Tasks |-> NoJob]
    /\ unsure' = {f \in Settings : stored[f] # Default[f]}
    /\ UNCHANGED <<exists, stored>>

Next ==
    \/ \E t \in Tasks : Change(t) \/ Ready(t) \/ Write(t) \/ WriteFails(t) \/ Mirror(t)
    \/ Crash

Spec == Init /\ [][Next]_vars

(***************************************************************************)
(* Properties.                                                             *)
(***************************************************************************)
Values(f) ==
    IF f \in {"channel", "log"} THEN Channels \cup {NoChannel}
    ELSE IF f = "threshold" THEN Thresholds \cup {85} ELSE BOOLEAN

\* Settings have values of their kind, and what has no row has its default.
TypeOK ==
    /\ \A f \in Settings : stored[f] \in Values(f) /\ copy[f] \in Values(f)
    /\ exists \subseteq {"sentinel", "decancer"} /\ unsure \subseteq Settings
    /\ \A f \in Settings : TableOf(f) \notin exists => stored[f] = Default[f]
    /\ pc \in [Tasks -> {"idle", "write", "mirror"}]
    /\ \A t \in Tasks : job[t].fields \subseteq Settings /\ job[t].before \subseteq Settings

\* Messages and newcomers are judged by the settings that are stored, once nothing
\* about a setting is under way: changes of different settings may overlap, a change
\* of one keeps the others, a request the dashboard reports as failed changes neither
\* side of what it had not reached, and a later change of the setting, or a ready
\* event, repairs what overlapping changes, failures, restarts and resets left behind.
SentinelInStep == \A f \in Settings \ unsure : ~UnderWay(f) => copy[f] = stored[f]

\* What settings.rs says of a reset, "delete every per-guild settings row and drop the
\* cached copies": what has no row reads as the defaults in memory too.
ResetDropsCopies ==
    \A f \in Settings : TableOf(f) \notin exists /\ ~UnderWay(f) => copy[f] = Default[f]
=============================================================================
