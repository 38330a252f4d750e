----------------------------- MODULE JoinRoles ------------------------------
(***************************************************************************)
(* Roles given on joining a guild: the autoroles every new member gets,    *)
(* and the sticky roles, saved when a member leaves and restored when they *)
(* come back.  Both tables are read at each event, nothing is cached.      *)
(* Joining and leaving are handled by tasks of their own, which Discord    *)
(* and the database may delay past the member's next coming or going.      *)
(***************************************************************************)
EXTENDS Naturals, FiniteSets

CONSTANTS
    Joiners,
    Roles,
    MaxAutoroles,   \* MAX_AUTOROLES
    Tasks,
    MaxMoves,       \* bound on joins, leaves and changes of roles by staff
    MaxEdits, MaxFaults,
    Nobody

VARIABLES
    autoroles,  \* welcome_autoroles: set of roles
    sticky,     \* sticky_roles_config: the switch
    saved,      \* sticky_roles: member -> roles, {} without a row
    present,    \* Discord: who is in the guild
    roles,      \* Discord: member -> roles
    pc, job,    \* the await task t is at, and its locals
    allowed,    \* moves, edits and faults the bounds still allow
    \* history
    always,     \* autoroles listed all along
    stuck,      \* the switch was on all along
    owed        \* member -> what the last join promised, or {}

data == <<autoroles, sticky, saved, present, roles, always, stuck, owed>>
vars == <<autoroles, sticky, saved, present, roles, always, stuck, owed, pc, job, allowed>>

Job(u, set) == [member |-> u, set |-> set]
NoJob == Job(Nobody, {})

DataInit ==
    /\ autoroles \in {{}} \cup {{r} : r \in Roles} /\ always = autoroles
    /\ sticky \in BOOLEAN /\ stuck = sticky
    /\ saved = [u \in Joiners |-> {}] /\ owed = saved /\ roles = saved
    /\ present = {}
TaskInit ==
    /\ pc = [t \in Tasks |-> "idle"] /\ job = [t \in Tasks |-> NoJob]
    /\ allowed = [moves |-> MaxMoves, edits |-> MaxEdits, faults |-> MaxFaults]
Init == DataInit /\ TaskInit

Goto(t, next, j) == pc' = [pc EXCEPT ![t] = next] /\ job' = [job EXCEPT ![t] = j]
Finish(t) == Goto(t, "idle", NoJob)
Spend(what) == allowed[what] > 0 /\ allowed' = [allowed EXCEPT ![what] = @ - 1]
Fault == Spend("faults")
Busy(u) == \E t \in Tasks : job[t].member = u

\* A promise is off once something of it fails or somebody interferes.
Release(u) == owed' = [owed EXCEPT ![u] = {}]

\* The roles a saved row promises: all, unless there are more than are restored.
Restored(u) == IF stuck /\ Cardinality(saved[u]) <= MaxAutoroles THEN saved[u] ELSE {}

(***************************************************************************)
(* A member joins: autoroles, then sticky roles.                           *)
(***************************************************************************)
Join(t, u) ==
    /\ pc[t] = "idle" /\ u \notin present /\ Spend("moves")
    /\ present' = present \cup {u}
    /\ owed' = [owed EXCEPT ![u] = IF Busy(u) THEN {} ELSE always \cup Restored(u)]
    /\ Goto(t, "autoroles", Job(u, {}))
    /\ UNCHANGED <<autoroles, sticky, saved, roles, always, stuck>>

\* apply_autoroles; a read that fails finds none.
ReadAutoroles(t) ==
    /\ pc[t] = "autoroles"
    /\ \/ Goto(t, "assign", Job(job[t].member, autoroles)) /\ UNCHANGED <<owed, allowed>>
       \/ Fault /\ Goto(t, "assign", Job(job[t].member, {})) /\ Release(job[t].member)
    /\ UNCHANGED <<autoroles, sticky, saved, present, roles, always, stuck>>

\* One add_member_role of t; it fails when the member is gone, or for Discord's reasons.
AddRole(t, next) ==
    \E r \in job[t].set :
        /\ Goto(t, next, Job(job[t].member, job[t].set \ {r}))
        /\ \/ /\ job[t].member \in present
              /\ roles' = [roles EXCEPT ![job[t].member] = @ \cup {r}] /\ UNCHANGED <<owed, allowed>>
           \/ job[t].member \notin present /\ UNCHANGED <<roles, owed, allowed>>
           \/ Fault /\ Release(job[t].member) /\ UNCHANGED roles

Assign(t) ==
    /\ pc[t] = "assign"
    /\ \/ AddRole(t, "assign")
       \/ job[t].set = {} /\ Goto(t, "switch", job[t]) /\ UNCHANGED <<roles, owed, allowed>>
    /\ UNCHANGED <<autoroles, sticky, saved, present, always, stuck>>

\* apply_sticky_roles: the switch, the row, and role by role, no more of them than there
\* may be autoroles.  What fails reads as off and as no row.
CheckSticky(t) ==
    /\ pc[t] = "switch"
    /\ \/ /\ IF sticky THEN Goto(t, "saved", job[t]) ELSE Finish(t)
          /\ UNCHANGED <<owed, allowed>>
       \/ Fault /\ Finish(t) /\ Release(job[t].member)
    /\ UNCHANGED <<autoroles, sticky, saved, present, roles, always, stuck>>

\* Mutant: of the saved roles, those that are autoroles are restored.
ReadSavedOfList(t) ==
    /\ pc[t] = "saved"
    /\ Goto(t, "restore", Job(job[t].member, saved[job[t].member] \cap autoroles))
    /\ UNCHANGED <<data, allowed>>

ReadSaved(t) ==
    /\ pc[t] = "saved"
    /\ \/ /\ \E first \in SUBSET saved[job[t].member] :
               /\ Cardinality(first) <= MaxAutoroles
               /\ first = saved[job[t].member] \/ Cardinality(first) = MaxAutoroles
               /\ Goto(t, "restore", Job(job[t].member, first))
          /\ UNCHANGED <<owed, allowed>>
       \/ Fault /\ Finish(t) /\ Release(job[t].member)
    /\ UNCHANGED <<autoroles, sticky, saved, present, roles, always, stuck>>

Restore(t) ==
    /\ pc[t] = "restore"
    /\ \/ AddRole(t, "restore")
       \/ job[t].set = {} /\ Finish(t) /\ UNCHANGED <<roles, owed, allowed>>
    /\ UNCHANGED <<autoroles, sticky, saved, present, always, stuck>>

(***************************************************************************)
(* A member leaves: their roles are saved, if the switch is on.            *)
(***************************************************************************)
Leave(t, u) ==
    /\ pc[t] = "idle" /\ u \in present /\ Spend("moves")
    /\ present' = present \ {u} /\ Release(u)
    /\ roles' = [roles EXCEPT ![u] = {}]
    /\ Goto(t, "leaving", Job(u, roles[u]))
    /\ UNCHANGED <<autoroles, sticky, saved, always, stuck>>

\* The roles come from the cache, which may hold the member still, no longer, or again.
\* Without roles nothing is saved: an older row stays.
SeeRoles(t) ==
    /\ pc[t] = "leaving"
    /\ \/ /\ sticky
          /\ \E seen \in {job[t].set, {}, roles[job[t].member]} :
               IF seen = {} THEN Finish(t) ELSE Goto(t, "save", Job(job[t].member, seen))
          /\ UNCHANGED allowed
       \/ ~sticky /\ Finish(t) /\ UNCHANGED allowed
       \/ Fault /\ Finish(t)
    /\ UNCHANGED data

SaveSticky(t) ==
    /\ pc[t] = "save" /\ Finish(t)
    /\ \/ saved' = [saved EXCEPT ![job[t].member] = job[t].set] /\ UNCHANGED allowed
       \/ Fault /\ UNCHANGED saved
    /\ UNCHANGED <<autoroles, sticky, present, roles, always, stuck, owed>>

(***************************************************************************)
(* Staff.                                                                  *)
(***************************************************************************)
Give(u, r) ==
    /\ u \in present /\ r \notin roles[u] /\ Spend("moves")
    /\ roles' = [roles EXCEPT ![u] = @ \cup {r}]
    /\ UNCHANGED <<autoroles, sticky, saved, present, always, stuck, owed, pc, job>>

Take(u, r) ==
    /\ r \in roles[u] /\ Spend("moves") /\ Release(u)
    /\ roles' = [roles EXCEPT ![u] = @ \ {r}]
    /\ UNCHANGED <<autoroles, sticky, saved, present, always, stuck, pc, job>>

\* The table is changed; so is the history of what was listed all along.
List(set) ==
    /\ autoroles' = set /\ always' = always \cap set
    /\ owed' = [u \in Joiners |-> owed[u] \ (always \ set)]
    /\ UNCHANGED <<sticky, saved, present, roles, stuck>>

Turn(on) ==
    /\ sticky' = on /\ stuck' = (stuck /\ on)
    /\ owed' = IF on THEN owed ELSE [u \in Joiners |-> {}]
    /\ UNCHANGED <<autoroles, saved, present, roles, always>>

\* autorole set, of a role that may be listed: all rows are deleted, then it is inserted.
AutoroleSet(t) ==
    /\ pc[t] = "idle" /\ Spend("edits")
    /\ \E r \in Roles : Goto(t, "insert", Job(Nobody, {r}))
    /\ List({})

\* autorole add, of a role that may be listed: the rows are counted, then it is inserted.
AutoroleAdd(t) ==
    /\ pc[t] = "idle" /\ Spend("edits")
    /\ Cardinality(autoroles) < MaxAutoroles
    /\ \E r \in Roles : Goto(t, "insert", Job(Nobody, {r}))
    /\ UNCHANGED data

\* A count that fails lets any list through, a deletion that fails is ignored: either
\* way the role is inserted into what is there.
InsertRegardless(t) ==
    /\ pc[t] = "idle" /\ allowed.edits > 0 /\ allowed.faults > 0
    /\ allowed' = [allowed EXCEPT !.edits = @ - 1, !.faults = @ - 1]
    /\ \E r \in Roles : Goto(t, "insert", Job(Nobody, {r}))
    /\ UNCHANGED data

\* Inserts one by one of the dashboard, or the only one of a command; a role that is
\* listed stays, a failure is ignored.  The dashboard then sets the switch.
InsertAutorole(t) ==
    /\ pc[t] \in {"insert", "insertOn", "insertOff"}
    /\ \E r \in job[t].set :
         /\ Goto(t, pc[t], Job(Nobody, job[t].set \ {r}))
         /\ \/ List(autoroles \cup {r}) /\ UNCHANGED allowed
            \/ Fault /\ UNCHANGED data

EndInserts(t) ==
    /\ job[t].set = {} /\ Finish(t)
    /\ \/ pc[t] = "insert" /\ UNCHANGED <<data, allowed>>
       \/ pc[t] = "insertOn" /\ Turn(TRUE) /\ UNCHANGED allowed
       \/ pc[t] = "insertOff" /\ Turn(FALSE) /\ UNCHANGED allowed
       \/ pc[t] \in {"insertOn", "insertOff"} /\ Fault /\ UNCHANGED data

AutoroleRemove == Spend("edits") /\ (\E r \in autoroles : List(autoroles \ {r})) /\ UNCHANGED <<pc, job>>

AutoroleClear == Spend("edits") /\ List({}) /\ UNCHANGED <<pc, job>>

\* The dashboard replaces the list, of at most the limit, and sets the switch.
PutRoles(t) ==
    /\ pc[t] = "idle" /\ Spend("edits")
    /\ \E set \in SUBSET Roles, turn \in {"insertOn", "insertOff"} :
         Cardinality(set) <= MaxAutoroles /\ Goto(t, turn, Job(Nobody, set))
    /\ List({})

StickyroleSwitch == Spend("edits") /\ Turn(~sticky) /\ UNCHANGED <<pc, job>>

Coming(t) ==
    \/ \E u \in Joiners : Join(t, u)
    \/ ReadAutoroles(t) \/ Assign(t) \/ CheckSticky(t) \/ ReadSaved(t) \/ Restore(t)
Going(t) == (\E u \in Joiners : Leave(t, u)) \/ SeeRoles(t) \/ SaveSticky(t)
Editing(t) == \/ AutoroleSet(t) \/ AutoroleAdd(t) \/ InsertRegardless(t)
              \/ PutRoles(t) \/ InsertAutorole(t) \/ EndInserts(t)

Next ==
    \/ \E t \in Tasks : Coming(t) \/ Going(t) \/ Editing(t)
    \/ \E u \in Joiners, r \in Roles : Give(u, r) \/ Take(u, r)
    \/ AutoroleRemove \/ AutoroleClear \/ StickyroleSwitch

Spec == Init /\ [][Next]_vars

(***************************************************************************)
(* Properties.                                                             *)
(***************************************************************************)
Steps == {"idle", "autoroles", "assign", "switch", "saved", "restore", "leaving", "save",
          "insert", "insertOn", "insertOff"}

\* Tables, roles and locals hold sets of roles.
TypeOK ==
    /\ autoroles \subseteq Roles /\ always \subseteq autoroles /\ sticky \in BOOLEAN /\ stuck \in BOOLEAN
    /\ {saved, roles, owed} \subseteq [Joiners -> SUBSET Roles] /\ present \subseteq Joiners
    /\ pc \in [Tasks -> Steps]
    /\ job \in [Tasks -> [member : Joiners \cup {Nobody}, set : SUBSET Roles]]

\* Whoever joined has, once the handler is through, every autorole that was listed all
\* along and, if sticky roles were on all along, every role saved when they left:
\* unless a call failed, staff took a role away, or the handler of their last leave
\* was still at it (apply_autoroles, apply_sticky_roles, save_sticky_roles).
JoinersGetTheirRoles == \A u \in present : ~Busy(u) => owed[u] \subseteq roles[u]
=============================================================================
