----------------------------- MODULE BulkRoles ------------------------------
(***************************************************************************)
(* Roles changed by command in one guild: of a single member, subject to   *)
(* the hierarchy, and of everyone, after a prompt its author confirms.  A  *)
(* role is named by its rank (role_rank is a total order); @everyone is 0. *)
(* The change waits in PENDING under the message of its prompt: a bounded  *)
(* map, filled after the prompt is shown.  Once confirmed it is carried    *)
(* out member by member, by a task of its own.                             *)
(***************************************************************************)
EXTENDS Naturals, FiniteSets, FiniteSetsExt

CONSTANTS
    Holders,        \* members of the guild
    Bots,           \* those of them who are bots
    Ranks,          \* the roles, by rank
    Prompts,        \* messages
    MaxPending,     \* size of PENDING
    Tasks,
    MaxChanges, MaxPresses, MaxStaff, MaxFaults,    \* bounds
    NoHolder, NoPrompt, NoChange

VARIABLES
    holds,      \* Discord: member -> roles
    botTop,     \* the rank of the bot's highest role
    buttons,    \* prompts that show their buttons
    pending,    \* PENDING: prompt -> change, or NoChange
    pc, job,    \* the await task t is at, and its locals
    allowed,    \* commands, presses, changes by staff and faults the bounds still allow
    \* history
    asked,      \* prompts ever shown
    confirmed,  \* prompts whose author pressed Start
    calledOff,  \* prompts whose author's Cancel was handled while the change was pending
    begun       \* prompt -> how often its change was begun

data == <<holds, botTop, buttons, pending, asked, confirmed, calledOff, begun>>
vars == <<holds, botTop, buttons, pending, asked, confirmed, calledOff, begun, pc, job, allowed>>

Change(role, adds, targets) == [role |-> role, adds |-> adds, targets |-> targets]
Job(u, add, drop, top, m, change) ==
    [member |-> u, add |-> add, drop |-> drop, top |-> top, prompt |-> m, change |-> change]
NoJob == Job(NoHolder, {}, {}, 0, NoPrompt, NoChange)
OfMember(u, add, drop, top) == Job(u, add, drop, top, NoPrompt, NoChange)
OfPrompt(m, change) == Job(NoHolder, {}, {}, 0, m, change)

TopRole(set) == Max(set \cup {0})

DataInit ==
    /\ holds = [u \in Holders |-> IF u \in Bots THEN {} ELSE {Min(Ranks)}] /\ botTop = Max(Ranks)
    /\ buttons = {} /\ pending = [m \in Prompts |-> NoChange]
    /\ asked = {} /\ confirmed = {} /\ calledOff = {} /\ begun = [m \in Prompts |-> 0]
TaskInit ==
    /\ pc = [t \in Tasks |-> "idle"] /\ job = [t \in Tasks |-> NoJob]
    /\ allowed = [commands |-> MaxChanges, presses |-> MaxPresses, staff |-> MaxStaff, faults |-> MaxFaults]
Init == DataInit /\ TaskInit

Goto(t, next, j) == pc' = [pc EXCEPT ![t] = next] /\ job' = [job EXCEPT ![t] = j]
Finish(t) == Goto(t, "idle", NoJob)
Spend(what) == allowed[what] > 0 /\ allowed' = [allowed EXCEPT ![what] = @ - 1]
SamePrompts == UNCHANGED <<buttons, pending, asked, confirmed, calledOff, begun>>

\* One call that gives or takes a role; Discord refuses roles not below the bot's.
Call(u, role, adds) ==
    \/ /\ role < botTop /\ UNCHANGED allowed
       /\ holds' = [holds EXCEPT ![u] = IF adds THEN @ \cup {role} ELSE @ \ {role}]
    \/ role >= botTop /\ UNCHANGED <<holds, allowed>>
    \/ Spend("faults") /\ UNCHANGED holds

(***************************************************************************)
(* A single member.                                                        *)
(***************************************************************************)
\* What the author, the member and the bot are seen to rank decides; without the bot's
\* roles, nothing is below them.
MayChange(authorTop, memberTop, bot, add, drop) ==
    /\ authorTop >= memberTop
    /\ \A r \in add : r <= memberTop /\ r < bot
    /\ memberTop \notin drop

\* The command is admitted; the member's roles came with it, and may be older.
ChangeMember(t, add, drop) ==
    /\ pc[t] = "idle" /\ Spend("commands")
    /\ \E author \in Holders \ Bots, u \in Holders :
         /\ MayChange(TopRole(holds[author]), TopRole(holds[u]), botTop, add, drop)
         /\ Goto(t, "change", OfMember(u, add, drop, TopRole(holds[author])))
    /\ UNCHANGED data

RoleAdd(t) == \E r \in Ranks : ChangeMember(t, {r}, {})
RoleRemove(t) == \E r \in Ranks : ChangeMember(t, {}, {r})
RoleCustom(t) == \E add, drop \in SUBSET Ranks : ChangeMember(t, add, drop)

\* What is to be added comes before what is to be removed.
ChangeNext(t) ==
    LET j == job[t] IN
    /\ pc[t] = "change"
    /\ \/ /\ j.add # {}
          /\ \E r \in j.add : Call(j.member, r, TRUE) /\ Goto(t, "change", OfMember(j.member, j.add \ {r}, j.drop, j.top))
       \/ /\ j.add = {}
          /\ \E r \in j.drop : Call(j.member, r, FALSE) /\ Goto(t, "change", OfMember(j.member, {}, j.drop \ {r}, j.top))
       \/ j.add = {} /\ j.drop = {} /\ Finish(t) /\ UNCHANGED <<holds, allowed>>
    /\ UNCHANGED botTop /\ SamePrompts

(***************************************************************************)
(* Everyone: the prompt.                                                   *)
(***************************************************************************)
\* The role must be below the bot's highest.
RoleAll(t) ==
    /\ pc[t] = "idle" /\ Spend("commands")
    /\ \E r \in Ranks, adds \in BOOLEAN :
         r < botTop /\ Goto(t, "fetch", OfPrompt(NoPrompt, Change(r, adds, {})))
    /\ UNCHANGED data

\* Whoever would change; what fails ends the command.
FetchAllMembers(t) ==
    LET c == job[t].change IN
    /\ pc[t] = "fetch"
    /\ Goto(t, "prompt", OfPrompt(NoPrompt,
           Change(c.role, c.adds, {u \in Holders \ Bots : (c.role \in holds[u]) # c.adds})))
    /\ UNCHANGED <<data, allowed>>

ShowPrompt(t) ==
    /\ pc[t] = "prompt"
    /\ \E m \in Prompts \ asked :
         /\ buttons' = buttons \cup {m} /\ asked' = asked \cup {m}
         /\ Goto(t, "insert", OfPrompt(m, job[t].change))
    /\ UNCHANGED <<holds, botTop, pending, confirmed, calledOff, begun, allowed>>

Waiting == {m \in Prompts : pending[m] # NoChange}

\* bounded_insert: a full map loses an arbitrary entry first.
StorePending(t) ==
    /\ pc[t] = "insert" /\ Finish(t)
    /\ \E evicted \in IF Cardinality(Waiting) >= MaxPending THEN {{m} : m \in Waiting} ELSE {{}} :
         pending' = [m \in Prompts |-> IF m = job[t].prompt THEN job[t].change
                                       ELSE IF m \in evicted THEN NoChange ELSE pending[m]]
    /\ UNCHANGED <<holds, botTop, buttons, asked, confirmed, calledOff, begun, allowed>>

(***************************************************************************)
(* Everyone: the buttons.  Only the author's presses do anything.          *)
(***************************************************************************)
PressStart(t, m) ==
    /\ pc[t] = "idle" /\ m \in buttons /\ Spend("presses")
    /\ confirmed' = confirmed \cup {m}
    /\ Goto(t, "start", OfPrompt(m, NoChange))
    /\ UNCHANGED <<holds, botTop, buttons, pending, asked, calledOff, begun>>

PressCancel(t, m) ==
    /\ pc[t] = "idle" /\ m \in buttons /\ Spend("presses")
    /\ Goto(t, "cancel", OfPrompt(m, NoChange))
    /\ UNCHANGED data

\* The response that takes the buttons away, or the deletion of the message, may fail.
Withdraw(m) ==
    \/ buttons' = buttons \ {m} /\ UNCHANGED allowed
    \/ Spend("faults") /\ UNCHANGED buttons

Cancel(t) ==
    LET m == job[t].prompt IN
    /\ pc[t] = "cancel" /\ Finish(t)
    /\ pending' = [pending EXCEPT ![m] = NoChange]
    /\ calledOff' = IF pending[m] = NoChange THEN calledOff ELSE calledOff \cup {m}
    /\ Withdraw(m)
    /\ UNCHANGED <<holds, botTop, asked, confirmed, begun>>

\* Mutant: the change is read, and stays where it is.
StartAndKeep(t) ==
    LET m == job[t].prompt IN
    /\ pc[t] = "start" /\ pending[m] # NoChange
    /\ begun' = [begun EXCEPT ![m] = @ + 1]
    /\ Goto(t, "run", OfPrompt(m, pending[m])) /\ Withdraw(m)
    /\ UNCHANGED <<holds, botTop, pending, asked, confirmed, calledOff>>

\* Without a change, the prompt has expired.
Start(t) ==
    LET m == job[t].prompt IN
    /\ pc[t] = "start"
    /\ \/ /\ pending[m] # NoChange
          /\ pending' = [pending EXCEPT ![m] = NoChange]
          /\ begun' = [begun EXCEPT ![m] = @ + 1]
          /\ Goto(t, "run", OfPrompt(m, pending[m])) /\ Withdraw(m)
       \/ pending[m] = NoChange /\ Finish(t) /\ UNCHANGED <<pending, begun, buttons, allowed>>
    /\ UNCHANGED <<holds, botTop, asked, confirmed, calledOff>>

RunBulk(t) ==
    LET m == job[t].prompt  c == job[t].change IN
    /\ pc[t] = "run"
    /\ \/ \E u \in c.targets :
            /\ Call(u, c.role, c.adds)
            /\ Goto(t, "run", OfPrompt(m, Change(c.role, c.adds, c.targets \ {u})))
       \/ c.targets = {} /\ Finish(t) /\ UNCHANGED <<holds, allowed>>
    /\ UNCHANGED botTop /\ SamePrompts

(***************************************************************************)
(* Others change roles, and move the bot's; the process dies.              *)
(***************************************************************************)
Staff ==
    /\ Spend("staff")
    /\ \/ \E u \in Holders, set \in SUBSET Ranks : holds' = [holds EXCEPT ![u] = set] /\ UNCHANGED botTop
       \/ botTop' \in Ranks /\ UNCHANGED holds
    /\ UNCHANGED <<pc, job>> /\ SamePrompts

Crash ==
    /\ Spend("faults")
    /\ pending' = [m \in Prompts |-> NoChange]
    /\ pc' = [t \in Tasks |-> "idle"] /\ job' = [t \in Tasks |-> NoJob]
    /\ UNCHANGED <<holds, botTop, buttons, asked, confirmed, calledOff, begun>>

Next ==
    \/ \E t \in Tasks :
         \/ RoleAdd(t) \/ RoleRemove(t) \/ RoleCustom(t) \/ ChangeNext(t)
         \/ RoleAll(t) \/ FetchAllMembers(t) \/ ShowPrompt(t) \/ StorePending(t)
         \/ \E m \in Prompts : PressStart(t, m) \/ PressCancel(t, m)
         \/ Cancel(t) \/ Start(t) \/ RunBulk(t)
    \/ Staff \/ Crash

Spec == Init /\ [][Next]_vars

(***************************************************************************)
(* Properties.                                                             *)
(***************************************************************************)
Changes == [role : Ranks, adds : BOOLEAN, targets : SUBSET (Holders \ Bots)]

\* Members hold roles, prompts have changes, of members who are not bots.
TypeOK ==
    /\ holds \in [Holders -> SUBSET Ranks] /\ botTop \in Ranks
    /\ {buttons, asked, confirmed, calledOff} \subseteq SUBSET Prompts
    /\ pending \in [Prompts -> Changes \cup {NoChange}] /\ begun \in [Prompts -> Nat]
    /\ pc \in [Tasks -> {"idle", "change", "fetch", "prompt", "insert", "start", "cancel", "run"}]
    /\ job \in [Tasks -> [member : Holders \cup {NoHolder}, add : SUBSET Ranks, drop : SUBSET Ranks,
                          top : Ranks \cup {0}, prompt : Prompts \cup {NoPrompt},
                          change : Changes \cup {NoChange}]]

\* A bulk change is carried out at most once, only when its author confirmed it, and
\* never once they called it off, however often the buttons are pressed before they
\* are gone (on_component, do_roleall).
ConfirmedOnce ==
    \A m \in Prompts :
        /\ begun[m] <= 1
        /\ begun[m] > 0 => m \in confirmed /\ m \notin calledOff

\* No command gives a single member a role that ranks above its author's highest,
\* though only the member's is compared with it (role_add, role_custom).
NoneAboveAuthor == \A t \in Tasks : \A r \in job[t].add : r <= job[t].top
=============================================================================
