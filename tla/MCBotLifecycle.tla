--------------------------- MODULE MCBotLifecycle ---------------------------
EXTENDS BotLifecycle, TLC

Symmetry == Permutations(Requests) \cup Permutations(Bots) \cup Permutations(Accounts)
=============================================================================
