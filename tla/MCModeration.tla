---------------------------- MODULE MCModeration ----------------------------
(* Values for the constants of Moderation, one group per run.               *)
EXTENDS Moderation, TLC

CONSTANTS u1, u2, r1, r2, t1, t2

Symmetry == Permutations({u1, u2})

OffPolicy == [threshold |-> 0, action |-> "timeout"]
TimeoutAtTwo == [threshold |-> 2, action |-> "timeout"]
NoPolicies == {}
SwitchedOff == {OffPolicy}

\* two moderators punishing: one mutes, both ban and warn
WatchCommands ==
    (t1 :> {"mute", "unmute", "tempban", "warn"}) @@ (t2 :> {"tempban", "softban", "lift", "warn"})
\* one moderator: whatever runs out
TermCommands == t1 :> {"tempban", "unban", "mute", "warn", "delcase", "policy"}
MuteAloneCommands == t1 :> {"mute"}
=============================================================================
