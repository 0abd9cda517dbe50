-------------------------- MODULE MCBotEvaluation --------------------------
EXTENDS BotEvaluation, TLC

\* The shortest period that is accepted, default thresholds.
ShortPeriod == [period |-> 2]

Symmetry == Permutations(Requests)
=============================================================================
