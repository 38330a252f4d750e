------------------------------ MODULE WarnTally ------------------------------
(***************************************************************************)
(* Moderation, watched by a tally of warns and of the punishments they led *)
(* to.  The tally is history: no step of Moderation reads it, and deleting *)
(* a case does not change it.                                              *)
(***************************************************************************)
EXTENDS Moderation

VARIABLES
    warned,     \* user -> number of warns recorded so far
    punished,   \* task -> user -> escalations Discord carried out
    unreset     \* task -> user -> those of them that could not reset the counter

tally == <<warned, punished, unreset>>

\* Task t is escalating against u, from the count of the warns to their reset.
Punishing(t, u) == job[t].by = "escalation" /\ job[t].user = u
Landed(t, u) == Punishing(t, u) /\ pc[t] # "discord"

NewWarns(u) ==
    {n \in DOMAIN cases' \ DOMAIN cases : cases'[n].type = "warn" /\ cases'[n].user = u}
Lands(t, u) == Punishing(t, u) /\ pc[t] = "discord" /\ pc'[t] = "begin"
\* The reset fails or the process dies before it, with warns left to be counted again.
LosesReset(t, u) ==
    /\ Landed(t, u) /\ pc'[t] = "idle" /\ ActiveWarns(u)' # {}
    /\ pc[t] = "reset" \/ Crash

Add(b) == IF b THEN 1 ELSE 0

TallyInit ==
    /\ Init /\ warned = [u \in Users |-> 0]
    /\ punished = [t \in Tasks |-> [u \in Users |-> 0]] /\ unreset = punished

TallyNext ==
    /\ Next
    /\ warned' = [u \in Users |-> warned[u] + Cardinality(NewWarns(u))]
    /\ punished' = [t \in Tasks |-> [u \in Users |-> punished[t][u] + Add(Lands(t, u))]]
    /\ unreset' = [t \in Tasks |-> [u \in Users |-> unreset[t][u] + Add(LosesReset(t, u))]]

TallySpec == TallyInit /\ [][TallyNext]_<<vars, tally>>
-----------------------------------------------------------------------------
(***************************************************************************)
(* Properties.                                                             *)
(***************************************************************************)
\* The thresholds at which warns may escalate; 0 is off.
Thresholds == {p.threshold : p \in Policies \cup {InitialPolicy}} \ {0}
Lowest(n) == n \in Thresholds /\ \A m \in Thresholds : n <= m

\* warn: "auto-punish once the member accumulates enough active warns, then reset the
\* counter".  Escalations that follow one another never share a warn: all that a handler
\* punishes a member for, one escalation after the other, took a threshold of new warns
\* each time, unless its reset was lost, however other handlers warn, escalate, reset and
\* delete meanwhile and whatever fails.  So a warn counts at most once for each handler
\* at work, and more than once only where handlers overlap.
EscalationsEarned ==
    \A t \in Tasks, u \in Users, n \in Thresholds :
        Lowest(n) => n * punished[t][u] <= warned[u] + n * unreset[t][u]
=============================================================================
