----------------------------- MODULE MCStarboard -----------------------------
(* Values for the constants of Starboard.                                    *)
EXTENDS Starboard, TLC

CONSTANTS bot

Alike == Permutations(Messages) \cup Permutations(Users \ {bot})
=============================================================================
