----------------------------- MODULE MCReminders -----------------------------
(* Reminders, in behaviours of two kinds, chosen at the start.               *)
EXTENDS Reminders, TLC

CONSTANTS u1, u2, t1, t2

VARIABLE
    focus   \* "delivery": u1 does everything and u2 meddles, one task each
            \* "limit": both tasks serve u1, who creates more than there is room for

Serves == (t1 :> {u1}) @@ (t2 :> {u1, u2})
OwnerAndMeddler == (t1 :> CommandTypes) @@ (t2 :> {"remind", "confirm", "cancel"})

\* Ids that were handed out, or may be to a task on its way to insert.
Taken ==
    Cardinality(Reminders \ Unused) + Cardinality({t \in Tasks : pc[t] \in {"count", "insert"}})

\* For delivery two reminders are enough.
Delivers ==
    /\ pc[t2] = "idle" /\ pc'[t2] # "idle" => job'[t2].user = u2
    /\ \A t \in Tasks : pc[t] = "idle" /\ pc'[t] = "count" => Taken < 2

\* For the limit, what creates reminders is: t2 by command, t1 by command and by a prompt,
\* while no time passes.  (Fairness asks for time, so DueRemindersGo is of deliveries only.)
Crowds ==
    /\ pc[t2] = "idle" /\ pc'[t2] # "idle" =>
           job'[t2].user = u1 /\ pc'[t2] = "count" /\ job'[t2].prompt = None
    /\ pc[t1] = "idle" => pc'[t1] \in {"idle", "register", "count"}
    /\ Cardinality(Unsent') + 1 >= Cardinality(Prompts)
    /\ UNCHANGED clock

InFocus == IF focus = "delivery" THEN Delivers ELSE Crowds

MCInit == Init /\ focus \in {"delivery", "limit"}
MCNext == Next /\ InFocus /\ UNCHANGED focus

MCSpec == MCInit /\ [][MCNext]_<<vars, focus>> /\ Fairness
=============================================================================
