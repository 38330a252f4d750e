------------------------------ MODULE Starboard ------------------------------
(***************************************************************************)
(* The starboard of a guild: reactions to a message are counted and the    *)
(* message is mirrored in the starboard channel while it has enough of     *)
(* them.  Every reaction added or removed is an event with a task of its   *)
(* own, throttled per message by RECOUNT_LIMITER.  The configuration does  *)
(* not change: enabled, with a channel and the emoji the reactions have.   *)
(***************************************************************************)
EXTENDS Naturals, FiniteSets

CONSTANTS
    Messages,
    Users,
    Uncounted,      \* bots, and the authors unless self_star is set
    Posts,          \* ids of messages in the starboard channel
    Tasks,
    Threshold,
    Window,         \* RECOUNT_INTERVAL
    Capacity,       \* capacity of RECOUNT_LIMITER
    MaxTime,        \* bound on the clock
    MaxReactions,   \* bound on the number of reactions added and removed
    MaxFaults,      \* bound on the number of crashes and of failing calls
    None            \* no post, no message

ASSUME StarboardConstants ==
    /\ None \notin Posts \cup Messages
    /\ IsFiniteSet(Messages) /\ IsFiniteSet(Users) /\ Uncounted \subseteq Users
    /\ Threshold \in Nat \ {0} /\ Window \in Nat \ {0} /\ Capacity \in Nat \ {0}
    /\ MaxTime \in Nat /\ MaxReactions \in Nat /\ MaxFaults \in Nat

VARIABLES
    \* Discord
    reactors,   \* message -> users whose reaction it has
    mirror,     \* post -> [of, count, up]; up: not deleted
    \* SQLite
    rows,       \* starboard_posts: message -> [post, count], or NoRow
    clock,
    \* the process
    last,       \* RECOUNT_LIMITER: message -> time of its last recount, 0 if absent
    pc, job,    \* the await task t is at, and its locals
    budget,     \* reactions and faults the bounds still allow
    \* history
    seen,       \* message -> counts it ever had
    calm        \* messages whose reactions came one at a time, a window apart

vars == <<reactors, mirror, rows, clock, last, pc, job, budget, seen, calm>>

NoRow == [post |-> None, count |-> 0]
NotPosted == [of |-> None, count |-> 0, up |-> FALSE]
NoJob == [msg |-> None, count |-> 0, post |-> None]

Init ==
    /\ reactors = [m \in Messages |-> {}]
    /\ mirror = [p \in Posts |-> NotPosted]
    /\ rows = [m \in Messages |-> NoRow]
    /\ clock = 1
    /\ last = [m \in Messages |-> 0]
    /\ pc = [t \in Tasks |-> "idle"] /\ job = [t \in Tasks |-> NoJob]
    /\ budget = [reactions |-> MaxReactions, faults |-> MaxFaults]
    /\ seen = [m \in Messages |-> {0}] /\ calm = Messages

Goto(t, next, j) ==
    /\ pc' = [pc EXCEPT ![t] = next]
    /\ job' = [job EXCEPT ![t] = IF next = "idle" THEN NoJob ELSE j]
Finish(t) == Goto(t, "idle", NoJob)

\* A query or a call to Discord fails, or the process dies.
Fault ==
    /\ budget.faults > 0
    /\ budget' = [budget EXCEPT !.faults = @ - 1]

\* Mutant: everybody's reaction counts.
CountAll(users) == Cardinality(users)

Count(users) == Cardinality(users \ Uncounted)

Posted == {p \in Posts : mirror[p].of # None}
Mirrors(m) == {p \in Posts : mirror[p].of = m /\ mirror[p].up}

(***************************************************************************)
(* RateLimiter::check looks the key up and records the time in two steps.  *)
(***************************************************************************)
Throttled(m) == last[m] # 0 /\ clock - last[m] < Window

Limited == {m \in Messages : last[m] # 0}

(***************************************************************************)
(* recount.                                                                *)
(***************************************************************************)
\* A user adds or removes a reaction; either event runs recount.
React(t) ==
    /\ pc[t] = "idle" /\ budget.reactions > 0
    /\ budget' = [budget EXCEPT !.reactions = @ - 1]
    /\ \E m \in Messages, u \in Users :
         LET now == IF u \in reactors[m] THEN reactors[m] \ {u} ELSE reactors[m] \cup {u} IN
         /\ reactors' = [reactors EXCEPT ![m] = now]
         /\ seen' = [seen EXCEPT ![m] = @ \cup {Cardinality(now \ Uncounted)}]
         /\ calm' = IF Throttled(m) \/ \E s \in Tasks : job[s].msg = m THEN calm \ {m} ELSE calm
         /\ Goto(t, "check", [NoJob EXCEPT !.msg = m])
    /\ UNCHANGED <<mirror, rows, clock, last>>

Check(t) ==
    /\ pc[t] = "check"
    /\ IF Throttled(job[t].msg) THEN Finish(t) ELSE Goto(t, "record", job[t])
    /\ UNCHANGED <<reactors, mirror, rows, clock, last, budget, seen, calm>>

\* bounded_insert: a full map loses arbitrary keys first.
Record(t) ==
    /\ pc[t] = "record"
    /\ \E kept \in SUBSET Limited :
         /\ Cardinality(kept) = IF Cardinality(Limited) >= Capacity
                                THEN Capacity - 1 ELSE Cardinality(Limited)
         /\ last' = [m \in Messages |-> IF m = job[t].msg THEN clock
                                        ELSE IF m \in kept THEN last[m] ELSE 0]
    /\ Goto(t, "fetch", job[t])
    /\ UNCHANGED <<reactors, mirror, rows, clock, budget, seen, calm>>

\* The message and then its reactions are fetched.
Fetch(t) ==
    /\ pc[t] = "fetch"
    /\ \/ /\ Goto(t, "lookup", [job[t] EXCEPT !.count = Count(reactors[job[t].msg])])
          /\ UNCHANGED budget
       \/ Fault /\ Finish(t)
    /\ UNCHANGED <<reactors, mirror, rows, clock, last, seen, calm>>

\* What is to be done depends on the count and on the post the row names.
NextStep(count, post) ==
    IF count >= Threshold THEN IF post = None THEN "send" ELSE "edit"
    ELSE IF post = None THEN "idle" ELSE "unpost"

\* A lookup that fails finds no row.
LookUp(t) ==
    LET decide(post) == Goto(t, NextStep(job[t].count, post), [job[t] EXCEPT !.post = post]) IN
    /\ pc[t] = "lookup"
    /\ \/ decide(rows[job[t].msg].post) /\ UNCHANGED budget
       \/ decide(None) /\ Fault
    /\ UNCHANGED <<reactors, mirror, rows, clock, last, seen, calm>>

\* Mutant: the text of the post is not brought up to date.
LeaveText(t) ==
    /\ pc[t] = "edit"
    /\ Goto(t, "upsert", job[t])
    /\ UNCHANGED <<reactors, mirror, rows, clock, last, budget, seen, calm>>

\* Edit the post; if it cannot be edited, go on as if it had been.
Edit(t) ==
    /\ pc[t] = "edit"
    /\ \/ /\ mirror' = [mirror EXCEPT ![job[t].post].count =
                           IF mirror[job[t].post].up THEN job[t].count ELSE @]
          /\ UNCHANGED budget
       \/ Fault /\ UNCHANGED mirror
    /\ Goto(t, "upsert", job[t])
    /\ UNCHANGED <<reactors, rows, clock, last, seen, calm>>

\* Ids of posts are handed out in a fixed order.
NextPost == CHOOSE p \in Posts \ Posted : TRUE

Send(t) ==
    /\ pc[t] = "send"
    /\ \/ /\ Posts # Posted
          /\ mirror' = [mirror EXCEPT
                 ![NextPost] = [of |-> job[t].msg, count |-> job[t].count, up |-> TRUE]]
          /\ Goto(t, "upsert", [job[t] EXCEPT !.post = NextPost])
          /\ UNCHANGED budget
       \/ Fault /\ Finish(t) /\ UNCHANGED mirror
    /\ UNCHANGED <<reactors, rows, clock, last, seen, calm>>

\* Mutant: the columns are swapped.
UpsertSwapped(t) ==
    /\ pc[t] = "upsert"
    /\ rows' = [rows EXCEPT ![job[t].msg] = [post |-> job[t].count, count |-> job[t].post]]
    /\ Finish(t)
    /\ UNCHANGED <<reactors, mirror, clock, last, budget, seen, calm>>

\* Mutant: the row is written for every message of the guild.
UpsertAll(t) ==
    /\ pc[t] = "upsert"
    /\ rows' = [m \in Messages |-> [post |-> job[t].post, count |-> job[t].count]]
    /\ Finish(t)
    /\ UNCHANGED <<reactors, mirror, clock, last, budget, seen, calm>>

Upsert(t) ==
    /\ pc[t] = "upsert"
    /\ \/ /\ rows' = [rows EXCEPT ![job[t].msg] = [post |-> job[t].post, count |-> job[t].count]]
          /\ UNCHANGED budget
       \/ Fault /\ UNCHANGED rows
    /\ Finish(t)
    /\ UNCHANGED <<reactors, mirror, clock, last, seen, calm>>

\* Below the threshold: delete the post, then the row.
Unpost(t) ==
    /\ pc[t] = "unpost"
    /\ \/ mirror' = [mirror EXCEPT ![job[t].post].up = FALSE] /\ UNCHANGED budget
       \/ Fault /\ UNCHANGED mirror
    /\ Goto(t, "deleteRow", job[t])
    /\ UNCHANGED <<reactors, rows, clock, last, seen, calm>>

DeleteRow(t) ==
    /\ pc[t] = "deleteRow"
    /\ \/ rows' = [rows EXCEPT ![job[t].msg] = NoRow] /\ UNCHANGED budget
       \/ Fault /\ UNCHANGED rows
    /\ Finish(t)
    /\ UNCHANGED <<reactors, mirror, clock, last, seen, calm>>

Tick ==
    /\ clock < MaxTime
    /\ clock' = clock + 1
    /\ UNCHANGED <<reactors, mirror, rows, last, pc, job, budget, seen, calm>>

Crash ==
    /\ Fault
    /\ pc' = [t \in Tasks |-> "idle"] /\ job' = [t \in Tasks |-> NoJob]
    /\ last' = [m \in Messages |-> 0]
    /\ UNCHANGED <<reactors, mirror, rows, clock, seen, calm>>

TaskStep(t) ==
    \/ Check(t) \/ Record(t) \/ Fetch(t) \/ LookUp(t)
    \/ Edit(t) \/ Send(t) \/ Upsert(t) \/ Unpost(t) \/ DeleteRow(t)

Next == (\E t \in Tasks : React(t) \/ TaskStep(t)) \/ Tick \/ Crash

Spec == Init /\ [][Next]_vars
-----------------------------------------------------------------------------
(***************************************************************************)
(* Properties.                                                             *)
(***************************************************************************)
\* Every variable holds a value of its type.
TypeOK ==
    /\ reactors \in [Messages -> SUBSET Users]
    /\ mirror \in [Posts -> [of : Messages \cup {None}, count : Nat, up : BOOLEAN]]
    /\ rows \in [Messages -> [post : Posts \cup {None}, count : Nat]]
    /\ clock \in Nat /\ last \in [Messages -> Nat]
    /\ pc \in [Tasks -> {"idle", "check", "record", "fetch", "lookup", "edit", "send",
                         "upsert", "unpost", "deleteRow"}]
    /\ job \in [Tasks -> [msg : Messages \cup {None}, count : Nat, post : Posts \cup {None}]]
    /\ budget \in [reactions : Nat, faults : Nat]
    /\ seen \in [Messages -> SUBSET Nat] /\ calm \subseteq Messages

\* Whatever interleaves or fails, the row of a message names a post of this message,
\* and a post shows a count the message had, enough for the starboard.
RowsNameTheirPosts ==
    \A m \in Messages : rows[m] # NoRow => mirror[rows[m].post].of = m
PostsWereEarned ==
    \A p \in Posted : mirror[p].count >= Threshold /\ mirror[p].count \in seen[mirror[p].of]

\* The starboard shows message m exactly as it is.
Shows(m) ==
    LET count == Cardinality(reactors[m] \ Uncounted) IN
    IF count >= Threshold
    THEN \E p \in Posts : /\ Mirrors(m) = {p} /\ mirror[p].count = count
                          /\ rows[m] = [post |-> p, count |-> count]
    ELSE Mirrors(m) = {} /\ rows[m] = NoRow

\* "Re-reacting keeps the mirrored post's star count in sync, and it is removed again
\* if the count drops back below the threshold": so it is once all is quiet, as long
\* as nothing fails and the message's reactions come one at a time, a window apart.
NothingFailed == budget.faults = MaxFaults
InSyncWhenCalm ==
    NothingFailed => \A m \in calm : (\A t \in Tasks : job[t].msg # m) => Shows(m)
=============================================================================
