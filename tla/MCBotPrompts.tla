---------------------------- MODULE MCBotPrompts ----------------------------
(* BotPrompts for TLC.                                                     *)
EXTENDS BotPrompts, TLC

CONSTANTS a1, a2, i1, i2, s1, s2

MCLegs == <<"strategy">>

\* Every account or none; one of two is a link or an unlink away.
MCBegins == {Accounts, {}}
MCHeld == {Accounts}

Symmetry == Permutations(Accounts) \cup Permutations(Ids) \cup Permutations(Slots)

=============================================================================
