--------------------------- MODULE GiveawayPromise ---------------------------
(***************************************************************************)
(* What the bot promises about giveaways: each runs until it is closed, is *)
(* never reopened, and its result is announced at most once, after it was  *)
(* closed.                                                                 *)
(***************************************************************************)
EXTENDS Naturals

CONSTANT Giveaways

VARIABLES
    life,       \* giveaway -> "absent", "open" or "ended"
    announced   \* giveaway -> number of results announced

promiseVars == <<life, announced>>

PromiseInit ==
    /\ life = [g \in Giveaways |-> "absent"]
    /\ announced = [g \in Giveaways |-> 0]

Begin(g) ==
    /\ life[g] = "absent"
    /\ life' = [life EXCEPT ![g] = "open"]
    /\ UNCHANGED announced

Close(g) ==
    /\ life[g] = "open"
    /\ life' = [life EXCEPT ![g] = "ended"]
    /\ UNCHANGED announced

AnnounceOnce(g) ==
    /\ life[g] = "ended" /\ announced[g] = 0
    /\ announced' = [announced EXCEPT ![g] = 1]
    /\ UNCHANGED life

PromiseNext == \E g \in Giveaways : Begin(g) \/ Close(g) \/ AnnounceOnce(g)

PromiseSpec == PromiseInit /\ [][PromiseNext]_promiseVars
=============================================================================
