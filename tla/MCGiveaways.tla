----------------------------- MODULE MCGiveaways -----------------------------
(* Values for the constants of Giveaways.                                    *)
EXTENDS Giveaways, TLC

CONSTANTS g1, g2, u1, u2, t1, t2, t3

\* one task serves the host, the others each a member who presses the button
HostAndMembers == (t1 :> {"start", "end", "reroll"}) @@ (t2 :> {"click"}) @@ (t3 :> {"click"})
MemberClicks == (t1 :> {}) @@ (t2 :> {u1}) @@ (t3 :> {u2})
=============================================================================
