-------------------------------- MODULE Rsi --------------------------------
(***************************************************************************)
(* RsiStrategy: the relative strength index of the latest closes and the   *)
(* signal taken from it.  The code computes it in floating point; here it  *)
(* is the exact fraction, numerator over denominator.                      *)
(***************************************************************************)
EXTENDS Totals

CONSTANTS Parameters    \* those a bot's row gives; the others have defaults

DEFAULTS == [period |-> 14, oversold |-> 30, overbought |-> 70]

readParameters ==
    [p \in DOMAIN DEFAULTS |->
       IF p \in DOMAIN Parameters THEN Parameters[p] ELSE DEFAULTS[p]]

Period     == readParameters.period
Oversold   == readParameters.oversold
Overbought == readParameters.overbought

\* What validateParameters lets into a bot's row.
ValidParameters ==
    /\ Period \in 2..100
    /\ Oversold \in 1..49
    /\ Overbought \in 51..99
    /\ Oversold < Overbought

ASSUME ParametersAssumption == ValidParameters

requiredCandleCount == Period + 1

Window(closes) == SubSeq(closes, Len(closes) - Period, Len(closes))

Delta(w, i) == w[i] - w[i - 1]

\* Mutant: the loop starts one close late.
MovesLate(w) == 3..Len(w)

Moves(w) == 2..Len(w)

GainSum(w) ==
    Total([i \in 1..Len(w) |-> IF i \in Moves(w) /\ Delta(w, i) >= 0 THEN Delta(w, i) ELSE 0])

LossSum(w) ==
    Total([i \in 1..Len(w) |-> IF i \in Moves(w) /\ Delta(w, i) < 0 THEN -Delta(w, i) ELSE 0])

\* 100 - 100 / (1 + avgGain / avgLoss), both averages over the period.
computeRsi(closes) ==
    LET gain == GainSum(Window(closes))
        loss == LossSum(Window(closes))
    IN  IF loss = 0 THEN [num |-> 100, den |-> 1]
                    ELSE [num |-> 100 * (loss + gain) - 100 * loss, den |-> loss + gain]

Signal(closes) ==
    LET rsi == computeRsi(closes)
    IN  CASE rsi.num < Oversold * rsi.den   -> "buy"
          [] rsi.num > Overbought * rsi.den -> "sell"
          [] OTHER                          -> "hold"
=============================================================================
