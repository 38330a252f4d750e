------------------------------ MODULE Premium -------------------------------
(***************************************************************************)
(* Premium tiers.  The owner of the bot generates tokens; a user who       *)
(* activates one burns it, in a single statement that finds it unredeemed, *)
(* and is then given its tier by a read and a write of their own.          *)
(***************************************************************************)
EXTENDS Naturals, FiniteSets

CONSTANTS
    Tokens,
    Users,
    Tiers,         \* Basic, Pro, Max: 1..3
    Tasks,
    NoToken, NoUser,
    MaxActivations, \* bound on the number of activations
    MaxFaults       \* bound on failing queries and crashes

ASSUME PremiumConstants ==
    /\ Tiers \subseteq Nat \ {0} /\ NoUser \notin Users /\ NoToken \notin Tokens
    /\ MaxActivations \in Nat /\ MaxFaults \in Nat

VARIABLES
    tokens,     \* premium_tokens: token -> its level, 0 while there is none
    owner,      \* its owner once it is redeemed, NoUser before
    tier,       \* settings_users.patron_level, 0 without a row
    pc, job,    \* the await task t is at, and its locals
    allowed,    \* activations and faults the bounds still allow
    \* history
    spoilt      \* users of whom two activations overlapped, or one failed half-way

data == <<tokens, owner, tier, spoilt>>
vars == <<tokens, owner, tier, spoilt, pc, job, allowed>>

Job(u, k, existing) == [user |-> u, token |-> k, existing |-> existing]
NoJob == Job(NoUser, NoToken, 0)

DataInit ==
    /\ tokens = [k \in Tokens |-> 0] /\ owner = [k \in Tokens |-> NoUser]
    /\ tier = [u \in Users |-> 0] /\ spoilt = {}
TaskInit ==
    /\ pc = [t \in Tasks |-> "idle"] /\ job = [t \in Tasks |-> NoJob]
    /\ allowed = [activations |-> MaxActivations, faults |-> MaxFaults]
Init == DataInit /\ TaskInit

Goto(t, next, j) == pc' = [pc EXCEPT ![t] = next] /\ job' = [job EXCEPT ![t] = j]
Finish(t) == Goto(t, "idle", NoJob)
Fault == allowed.faults > 0 /\ allowed' = [activations |-> allowed.activations, faults |-> allowed.faults - 1]

Busy(u) == \E t \in Tasks : job[t].user = u

\* premium generate inserts a token of a tier.
PremiumGenerate(k) ==
    /\ tokens[k] = 0
    /\ \E level \in Tiers : tokens' = [tokens EXCEPT ![k] = level]
    /\ UNCHANGED <<owner, tier, spoilt, pc, job, allowed>>

\* premium activate looks the token up; without one, or when it is redeemed, or when
\* the query fails, the command ends.
FindToken(t) ==
    /\ pc[t] = "idle" /\ allowed.activations > 0
    /\ allowed' = [activations |-> allowed.activations - 1, faults |-> allowed.faults]
    /\ \E u \in Users : \E k \in Tokens :
         /\ tokens[k] # 0 /\ owner[k] = NoUser
         /\ Goto(t, "burn", Job(u, k, 0))
         /\ spoilt' = IF Busy(u) THEN spoilt \cup {u} ELSE spoilt
    /\ UNCHANGED <<tokens, owner, tier>>

\* Mutant: the statement does not look at redeemed again.
BurnAnyway(t) ==
    /\ pc[t] = "burn"
    /\ owner' = [owner EXCEPT ![job[t].token] = job[t].user]
    /\ Goto(t, "existing", job[t])
    /\ UNCHANGED <<tokens, tier, spoilt, allowed>>

Burn(t) ==
    /\ pc[t] = "burn"
    /\ IF owner[job[t].token] = NoUser
       THEN /\ owner' = [owner EXCEPT ![job[t].token] = job[t].user]
            /\ Goto(t, "existing", job[t])
       ELSE Finish(t) /\ UNCHANGED owner
    /\ UNCHANGED <<tokens, tier, spoilt, allowed>>

BurnFails(t) ==
    /\ pc[t] = "burn" /\ Fault /\ Finish(t)
    /\ UNCHANGED data

ReadExisting(t) ==
    /\ pc[t] = "existing"
    /\ Goto(t, "apply", Job(job[t].user, job[t].token, tier[job[t].user]))
    /\ UNCHANGED <<data, allowed>>

\* A read that fails finds no tier.
ReadExistingFails(t) ==
    /\ pc[t] = "existing" /\ Fault
    /\ Goto(t, "apply", Job(job[t].user, job[t].token, 0))
    /\ spoilt' = spoilt \cup {job[t].user}
    /\ UNCHANGED <<tokens, owner, tier>>

Higher(a, b) == IF a > b THEN a ELSE b

ApplyTier(t) ==
    /\ pc[t] = "apply"
    /\ tier' = [tier EXCEPT ![job[t].user] = Higher(tokens[job[t].token], job[t].existing)]
    /\ Finish(t)
    /\ UNCHANGED <<tokens, owner, spoilt, allowed>>

\* A write that fails is not noticed.
ApplyTierFails(t) ==
    /\ pc[t] = "apply" /\ Fault
    /\ spoilt' = spoilt \cup {job[t].user}
    /\ Finish(t)
    /\ UNCHANGED <<tokens, owner, tier>>

\* The process dies and is started again: what was under way is forgotten.
Crash ==
    /\ Fault
    /\ spoilt' = spoilt \cup {u \in Users : Busy(u)}
    /\ pc' = [t \in Tasks |-> "idle"] /\ job' = [t \in Tasks |-> NoJob]
    /\ UNCHANGED <<tokens, owner, tier>>

Activation(t) ==
    \/ FindToken(t) \/ Burn(t) \/ BurnFails(t)
    \/ ReadExisting(t) \/ ReadExistingFails(t) \/ ApplyTier(t) \/ ApplyTierFails(t)

Next ==
    \/ \E k \in Tokens : PremiumGenerate(k)
    \/ \E t \in Tasks : Activation(t)
    \/ Crash

Spec == Init /\ [][Next]_vars

(***************************************************************************)
(* Properties.                                                             *)
(***************************************************************************)
\* Tokens and tiers have a level or 0, owners and locals are users and tokens.
TypeOK ==
    /\ tokens \in [Tokens -> Tiers \cup {0}] /\ owner \in [Tokens -> Users \cup {NoUser}]
    /\ tier \in [Users -> Tiers \cup {0}] /\ spoilt \subseteq Users
    /\ pc \in [Tasks -> {"idle", "burn", "existing", "apply"}]
    /\ job \in [Tasks -> [user : Users \cup {NoUser}, token : Tokens \cup {NoToken},
                          existing : Tiers \cup {0}]]
    /\ allowed \in [activations : Nat, faults : Nat]

PaidFor(u) == {tokens[k] : k \in {k \in Tokens : owner[k] = u}} \cup {0}

\* Nobody has a tier that no token of their own paid for, however many redeem the
\* same token at once; and who redeemed theirs one at a time, and without a failure
\* in between, has the highest tier they paid for (premium_activate).
TierPaidFor ==
    \A u \in Users :
        /\ tier[u] \in PaidFor(u)
        /\ ~Busy(u) /\ u \notin spoilt => \A level \in PaidFor(u) : level <= tier[u]

\* Nobody loses a tier ("never downgrade a user who already holds a higher tier",
\* premium.rs:153-154).
NeverDowngraded == [][\A u \in Users : tier'[u] >= tier[u]]_vars
=============================================================================
