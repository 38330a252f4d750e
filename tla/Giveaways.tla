------------------------------ MODULE Giveaways ------------------------------
(***************************************************************************)
(* The giveaways of the bot: the tables giveaways and giveaway_entries,    *)
(* the commands that start, end and reroll, the entry button, the          *)
(* dashboard's end route, and the background sweeper that draws and        *)
(* announces.  Commands, button presses and requests are tasks of their    *)
(* own; each await is a step.                                              *)
(***************************************************************************)
EXTENDS Naturals, FiniteSets

CONSTANTS
    Giveaways,      \* ids the database may hand out
    Users,
    Tasks,
    Commands,       \* Commands[t]: what task t may be asked to do
    Clickers,       \* Clickers[t]: users whose button presses task t handles
    Lengths,        \* durations of giveaways
    MaxTime,        \* bound on the clock
    MaxCommands,    \* bound on the number of commands and presses
    MaxErrors,      \* bound on the number of failing queries and Discord calls
    MaxCrashes,     \* bound on the number of crashes
    None            \* no giveaway, no user

CommandTypes == {"start", "click", "end", "reroll"}

ASSUME GiveawayConstants ==
    /\ None \notin Giveaways /\ None \notin Users
    /\ Commands \in [Tasks -> SUBSET CommandTypes]
    /\ Clickers \in [Tasks -> SUBSET Users]
    /\ Lengths \subseteq Nat \ {0}
    /\ MaxTime \in Nat /\ MaxCommands \in Nat /\ MaxErrors \in Nat /\ MaxCrashes \in Nat

VARIABLES
    \* SQLite
    gws,        \* id -> [state, ends, posted]; posted: message_id is not 0
    entries,    \* pairs <<id, user>>
    \* Discord
    post,       \* id -> "none", "open" (with the button) or "closed"
    clock,
    \* the process
    pc, job,    \* the await task t is at, and its locals
    sweep,      \* the locals of the sweeper
    budget,     \* commands, errors and crashes the bounds still allow
    \* history
    results,    \* id -> number of results announced, rerolls not counted
    said        \* pairs <<id, user>> whose last reply was "Entry confirmed!"

dbVars == <<gws, entries>>
historyVars == <<results, said>>
vars == <<dbVars, post, clock, pc, job, sweep, budget, historyVars>>

Job(g, u, ends) == [id |-> g, user |-> u, ends |-> ends]
NoJob == Job(None, None, 0)
Asleep == [pc |-> "sleep", rows |-> {}, id |-> None, posted |-> FALSE]
NoGiveaway == [state |-> "absent", ends |-> 0, posted |-> FALSE]

Init ==
    /\ gws = [g \in Giveaways |-> NoGiveaway] /\ entries = {}
    /\ post = [g \in Giveaways |-> "none"]
    /\ clock = 1
    /\ pc = [t \in Tasks |-> "idle"] /\ job = [t \in Tasks |-> NoJob]
    /\ sweep = Asleep
    /\ budget = [commands |-> MaxCommands, errors |-> MaxErrors, crashes |-> MaxCrashes]
    /\ results = [g \in Giveaways |-> 0] /\ said = {}

Goto(t, next, j) ==
    /\ pc' = [pc EXCEPT ![t] = next]
    /\ job' = [job EXCEPT ![t] = IF next = "idle" THEN NoJob ELSE j]
Finish(t) == Goto(t, "idle", NoJob)

\* A query or a call to Discord fails.
CallFails ==
    /\ budget.errors > 0
    /\ budget' = [budget EXCEPT !.errors = @ - 1]

Exists(g) == gws[g].state # "absent"

(***************************************************************************)
(* A command, a button press or a request arrives.  Its button is there to *)
(* press; any number may be given to end and reroll.                       *)
(***************************************************************************)
FirstStep(type) ==
    CASE type = "start" -> "insert"
      [] type = "click" -> "lookup"
      [] type = "end" -> "checkEnd"
      [] type = "reroll" -> "checkReroll"

Arguments(t, type) ==
    IF type = "start" THEN {Job(None, None, clock + d) : d \in Lengths}
    ELSE IF type = "click"
         THEN {Job(g, u, 0) : g \in {h \in Giveaways : post[h] = "open"}, u \in Clickers[t]}
         ELSE {Job(g, None, 0) : g \in Giveaways}

Issue(t) ==
    /\ pc[t] = "idle" /\ budget.commands > 0
    /\ budget' = [budget EXCEPT !.commands = @ - 1]
    /\ \E type \in Commands[t] : \E j \in Arguments(t, type) : Goto(t, FirstStep(type), j)
    /\ UNCHANGED <<dbVars, post, clock, sweep, historyVars>>

(***************************************************************************)
(* giveaway start: the row comes first, then the post that carries its id  *)
(* in the button, then the id of the post in the row.                      *)
(***************************************************************************)
InsertGiveaway(t) ==
    /\ pc[t] = "insert"
    /\ \/ \E g \in Giveaways :
            /\ ~Exists(g)
            /\ gws' = [gws EXCEPT ![g] =
                          [state |-> "open", ends |-> job[t].ends, posted |-> FALSE]]
            /\ Goto(t, "post", [job[t] EXCEPT !.id = g])
            /\ UNCHANGED budget
       \/ CallFails /\ Finish(t) /\ UNCHANGED gws
    /\ UNCHANGED <<entries, post, clock, sweep, historyVars>>

PostGiveaway(t) ==
    /\ pc[t] = "post"
    /\ \/ /\ post' = [post EXCEPT ![job[t].id] = "open"]
          /\ Goto(t, "storePost", job[t])
          /\ UNCHANGED budget
       \/ CallFails /\ Finish(t) /\ UNCHANGED post
    /\ UNCHANGED <<dbVars, clock, sweep, historyVars>>

\* Mutant: the giveaway's own id ends up in the column.
StorePostId(t) ==
    /\ pc[t] = "storePost"
    /\ gws' = [gws EXCEPT ![job[t].id].posted = job[t].id] /\ UNCHANGED budget
    /\ Finish(t)
    /\ UNCHANGED <<entries, post, clock, sweep, historyVars>>

StorePost(t) ==
    /\ pc[t] = "storePost"
    /\ \/ gws' = [gws EXCEPT ![job[t].id].posted = TRUE] /\ UNCHANGED budget
       \/ CallFails /\ UNCHANGED gws
    /\ Finish(t)
    /\ UNCHANGED <<entries, post, clock, sweep, historyVars>>

(***************************************************************************)
(* The entry button: on_component.                                         *)
(***************************************************************************)
\* A giveaway that cannot be looked up counts as ended.
LookUp(t) ==
    /\ pc[t] = "lookup"
    /\ \/ gws[job[t].id].state = "open" /\ Goto(t, "enter", job[t]) /\ UNCHANGED budget
       \/ gws[job[t].id].state # "open" /\ Finish(t) /\ UNCHANGED budget
       \/ CallFails /\ Finish(t)
    /\ UNCHANGED <<dbVars, post, clock, sweep, historyVars>>

\* Insert the entry; a conflict means the member is in and wants to leave.
Enter(t) ==
    LET entry == <<job[t].id, job[t].user>> IN
    /\ pc[t] = "enter"
    /\ \/ /\ entry \notin entries
          /\ entries' = entries \cup {entry} /\ said' = said \cup {entry}
          /\ Finish(t) /\ UNCHANGED budget
       \/ entry \in entries /\ Goto(t, "leave", job[t]) /\ UNCHANGED <<entries, said, budget>>
       \/ CallFails /\ Finish(t) /\ UNCHANGED <<entries, said>>
    /\ UNCHANGED <<gws, post, clock, sweep, results>>

\* Mutant: the delete matches the giveaway but not the member.
LeaveAll(t) ==
    LET entry == <<job[t].id, job[t].user>> IN
    /\ pc[t] = "leave"
    /\ entries' = {e \in entries : e[1] # job[t].id} /\ said' = said \ {entry}
    /\ Finish(t)
    /\ UNCHANGED <<gws, post, clock, sweep, budget, results>>

\* The reply says "You left" even if the delete failed.
Leave(t) ==
    LET entry == <<job[t].id, job[t].user>> IN
    /\ pc[t] = "leave"
    /\ \/ entries' = entries \ {entry} /\ UNCHANGED budget
       \/ CallFails /\ UNCHANGED entries
    /\ said' = said \ {entry}
    /\ Finish(t)
    /\ UNCHANGED <<gws, post, clock, sweep, results>>

(***************************************************************************)
(* giveaway end and the dashboard's end route; giveaway reroll.            *)
(***************************************************************************)
CheckEnd(t) ==
    /\ pc[t] = "checkEnd"
    /\ \/ gws[job[t].id].state = "open" /\ Goto(t, "endNow", job[t]) /\ UNCHANGED budget
       \/ gws[job[t].id].state # "open" /\ Finish(t) /\ UNCHANGED budget
       \/ CallFails /\ Finish(t)
    /\ UNCHANGED <<dbVars, post, clock, sweep, historyVars>>

\* The row is made due; the sweeper does the rest.
EndNow(t) ==
    /\ pc[t] = "endNow"
    /\ \/ gws' = [gws EXCEPT ![job[t].id].ends = clock - 1] /\ UNCHANGED budget
       \/ CallFails /\ UNCHANGED gws
    /\ Finish(t)
    /\ UNCHANGED <<entries, post, clock, sweep, historyVars>>

CheckReroll(t) ==
    /\ pc[t] = "checkReroll"
    /\ \/ gws[job[t].id].state = "ended" /\ Goto(t, "reroll", job[t]) /\ UNCHANGED budget
       \/ gws[job[t].id].state # "ended" /\ Finish(t) /\ UNCHANGED budget
       \/ CallFails /\ Finish(t)
    /\ UNCHANGED <<dbVars, post, clock, sweep, historyVars>>

\* finish_giveaway for a reroll announces another winner and leaves the
\* giveaway, its result and its post alone.
Reroll(t) ==
    /\ pc[t] = "reroll"
    /\ Finish(t)
    /\ UNCHANGED <<dbVars, post, clock, sweep, budget, historyVars>>

(***************************************************************************)
(* The sweeper and finish_giveaway.                                        *)
(***************************************************************************)
\* Mutant: the sweep takes every giveaway that has not ended.
DueNow == {[id |-> g, posted |-> gws[g].posted] : g \in {h \in Giveaways : gws[h].state = "open"}}

\* Mutant: the sweep skips giveaways whose post is not known.
DueAndPosted ==
    {[id |-> g, posted |-> TRUE] :
        g \in {h \in Giveaways : gws[h].state = "open" /\ gws[h].ends <= clock /\ gws[h].posted}}

Due ==
    {[id |-> g, posted |-> gws[g].posted] :
        g \in {h \in Giveaways : gws[h].state = "open" /\ gws[h].ends <= clock}}

Scan ==
    /\ sweep.pc = "sleep"
    /\ sweep' = IF Due = {} THEN sweep ELSE [Asleep EXCEPT !.pc = "draw", !.rows = Due]
    /\ UNCHANGED <<dbVars, post, clock, pc, job, budget, historyVars>>

\* Take the next giveaway and draw among its entries (whom, is not modelled).
Draw ==
    /\ sweep.pc = "draw"
    /\ \E row \in sweep.rows :
         sweep' = [pc |-> "mark", rows |-> sweep.rows \ {row},
                   id |-> row.id, posted |-> row.posted]
    /\ UNCHANGED <<dbVars, post, clock, pc, job, budget, historyVars>>

NextGiveaway ==
    IF sweep.rows = {} THEN Asleep ELSE [Asleep EXCEPT !.pc = "draw", !.rows = sweep.rows]

\* Mutant: a failed write does not keep the result from being announced.
MarkEndedAnyway ==
    /\ sweep.pc = "mark"
    /\ \/ gws' = [gws EXCEPT ![sweep.id].state = "ended"] /\ UNCHANGED budget
       \/ CallFails /\ UNCHANGED gws
    /\ sweep' = [sweep EXCEPT !.pc = "announce"]
    /\ UNCHANGED <<entries, post, clock, pc, job, historyVars>>

\* Mutant: a giveaway without a known post is closed in silence.
MarkEndedSilently ==
    /\ sweep.pc = "mark"
    /\ \/ /\ gws' = [gws EXCEPT ![sweep.id].state = "ended"] /\ UNCHANGED budget
          /\ sweep' = IF sweep.posted THEN [sweep EXCEPT !.pc = "announce"] ELSE NextGiveaway
       \/ CallFails /\ sweep' = NextGiveaway /\ UNCHANGED gws
    /\ UNCHANGED <<entries, post, clock, pc, job, historyVars>>

\* Mark the giveaway ended before announcing; if that fails, skip the
\* announcement and leave the giveaway to the next sweep.
MarkEnded ==
    /\ sweep.pc = "mark"
    /\ \/ /\ gws' = [gws EXCEPT ![sweep.id].state = "ended"]
          /\ sweep' = [sweep EXCEPT !.pc = "announce"] /\ UNCHANGED budget
       \/ CallFails /\ sweep' = NextGiveaway /\ UNCHANGED gws
    /\ UNCHANGED <<entries, post, clock, pc, job, historyVars>>

Announce ==
    /\ sweep.pc = "announce"
    /\ \/ results' = [results EXCEPT ![sweep.id] = @ + 1] /\ UNCHANGED budget
       \/ CallFails /\ UNCHANGED results
    /\ sweep' = IF sweep.posted THEN [sweep EXCEPT !.pc = "strip"] ELSE NextGiveaway
    /\ UNCHANGED <<dbVars, post, clock, pc, job, said>>

\* Edit the original message: the button goes.
Strip ==
    /\ sweep.pc = "strip"
    /\ \/ post' = [post EXCEPT ![sweep.id] = "closed"] /\ UNCHANGED budget
       \/ CallFails /\ UNCHANGED post
    /\ sweep' = NextGiveaway
    /\ UNCHANGED <<dbVars, clock, pc, job, historyVars>>

Tick ==
    /\ clock < MaxTime
    /\ clock' = clock + 1
    /\ UNCHANGED <<dbVars, post, pc, job, sweep, budget, historyVars>>

Crash ==
    /\ budget.crashes > 0
    /\ budget' = [budget EXCEPT !.crashes = @ - 1]
    /\ pc' = [t \in Tasks |-> "idle"] /\ job' = [t \in Tasks |-> NoJob] /\ sweep' = Asleep
    /\ UNCHANGED <<dbVars, post, clock, historyVars>>

TaskStep(t) ==
    \/ InsertGiveaway(t) \/ PostGiveaway(t) \/ StorePost(t)
    \/ LookUp(t) \/ Enter(t) \/ Leave(t)
    \/ CheckEnd(t) \/ EndNow(t) \/ CheckReroll(t) \/ Reroll(t)

SweepStep == Scan \/ Draw \/ MarkEnded \/ Announce \/ Strip

Next ==
    \/ \E t \in Tasks : Issue(t) \/ TaskStep(t)
    \/ SweepStep
    \/ Tick \/ Crash

Spec == Init /\ [][Next]_vars

\* Tasks and the sweeper are polled on, and time passes.
Fairness ==
    /\ WF_vars(Tick) /\ WF_vars(SweepStep)
    /\ \A t \in Tasks : WF_vars(TaskStep(t))

FairSpec == Spec /\ Fairness
-----------------------------------------------------------------------------
(***************************************************************************)
(* Properties.                                                             *)
(***************************************************************************)
Jobs == [id : Giveaways \cup {None}, user : Users \cup {None}, ends : Nat]
Steps == {"idle", "insert", "post", "storePost", "lookup", "enter", "leave",
          "checkEnd", "endNow", "checkReroll", "reroll"}
Rows == [id : Giveaways, posted : BOOLEAN]

\* Every variable holds a value of its type.
TypeOK ==
    /\ gws \in [Giveaways -> [state : {"absent", "open", "ended"}, ends : Nat, posted : BOOLEAN]]
    /\ entries \subseteq Giveaways \X Users /\ said \subseteq Giveaways \X Users
    /\ post \in [Giveaways -> {"none", "open", "closed"}]
    /\ clock \in Nat \ {0}
    /\ pc \in [Tasks -> Steps]
    /\ job \in [Tasks -> Jobs]
    /\ sweep \in [pc : {"sleep", "draw", "mark", "announce", "strip"}, rows : SUBSET Rows,
                   id : Giveaways \cup {None}, posted : BOOLEAN]
    /\ budget \in [commands : Nat, errors : Nat, crashes : Nat]
    /\ results \in [Giveaways -> Nat]

\* finish_giveaway marks a giveaway "ended BEFORE announcing" so that no second
\* result is ever drawn: whatever fails or crashes, a giveaway that ended stays
\* so and its result is announced at most once, afterwards.
Promise == INSTANCE GiveawayPromise WITH
    life <- [g \in Giveaways |-> gws[g].state], announced <- results
KeepsPromise == Promise!PromiseSpec

\* As long as nothing fails, the price of that order is not paid: a giveaway that
\* ended has its result, or the sweeper is about to announce it.
NothingFailed == budget.errors = MaxErrors /\ budget.crashes = MaxCrashes
ResultNotLost ==
    NothingFailed =>
        \A g \in Giveaways : gws[g].state = "ended" =>
            results[g] = 1 \/ (sweep.pc = "announce" /\ sweep.id = g)

\* The sweeper works from a snapshot, but never ends a giveaway before its time.
NeverEndsEarly ==
    [][\A g \in Giveaways :
          (gws[g].state = "open" /\ gws'[g].state = "ended") => gws[g].ends <= clock]_vars

\* "Members toggle their entry": when nothing has failed and a member's presses
\* are handled one at a time, the last reply a member got tells whether they are in.
RepliesHold == NothingFailed => said = entries

\* "A background sweeper draws winners once ends_at passes": a giveaway that is
\* due, or ended early by a moderator, is eventually over.
DueGiveawaysEnd ==
    \A g \in Giveaways :
        (gws[g].state = "open" /\ gws[g].ends <= clock) ~> gws[g].state = "ended"
=============================================================================
