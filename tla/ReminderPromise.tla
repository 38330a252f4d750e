--------------------------- MODULE ReminderPromise ---------------------------
(***************************************************************************)
(* What the bot promises about reminders: each waits, unchanged, until it  *)
(* goes; it goes when it is due, or because its owner deletes it, and does *)
(* not come back.  Messages arrive when it is due and while it waits; only *)
(* a reminder deleted while it was being sent may still arrive, once.      *)
(***************************************************************************)
EXTENDS Naturals

CONSTANTS
    Reminders,
    Owners

VARIABLES
    life,       \* reminder -> "unmade", "waiting", "fired" or "dropped"
    made,       \* reminder -> [owner, at], who it is for and when it is due
    late,       \* reminders deleted while they were being sent
    arrived,    \* reminder -> number of messages that arrived
    clock

promiseVars == <<life, made, late, arrived, clock>>

PromiseInit ==
    /\ life = [id \in Reminders |-> "unmade"]
    /\ made \in [Reminders -> [owner : Owners, at : Nat]]
    /\ late = {}
    /\ arrived = [id \in Reminders |-> 0]
    /\ clock \in Nat

DueNow(id) == made[id].at <= clock

Make(id) ==
    /\ life[id] = "unmade" /\ life' = [life EXCEPT ![id] = "waiting"]
    /\ made' \in [Reminders -> [owner : Owners, at : Nat]]
    /\ \A r \in Reminders \ {id} : made'[r] = made[r]
    /\ UNCHANGED <<late, arrived, clock>>

Arrive(id) ==
    /\ DueNow(id) /\ arrived' = [arrived EXCEPT ![id] = @ + 1]
    /\ \/ life[id] = "waiting" /\ UNCHANGED late
       \/ id \in late /\ late' = late \ {id}
    /\ UNCHANGED <<life, made, clock>>

Fire(id) ==
    /\ life[id] = "waiting" /\ DueNow(id)
    /\ life' = [life EXCEPT ![id] = "fired"]
    /\ UNCHANGED <<made, late, arrived, clock>>

Drop(id) ==
    /\ life[id] = "waiting" /\ life' = [life EXCEPT ![id] = "dropped"]
    /\ UNCHANGED late \/ (DueNow(id) /\ late' = late \cup {id})
    /\ UNCHANGED <<made, arrived, clock>>

\* What was being sent may be given up.
GiveUp ==
    /\ late' \in SUBSET late
    /\ UNCHANGED <<life, made, arrived, clock>>

Pass == clock' = clock + 1 /\ UNCHANGED <<life, made, late, arrived>>

PromiseNext ==
    \/ \E id \in Reminders : Make(id) \/ Arrive(id) \/ Fire(id) \/ Drop(id)
    \/ GiveUp \/ Pass

PromiseSpec == PromiseInit /\ [][PromiseNext]_promiseVars
=============================================================================
