----------------------------- MODULE MCBacktest -----------------------------
(***************************************************************************)
(* Series that are flat up to just below each of the window sizes, 10, 12, *)
(* 17 and 27, and free for three points after that.                        *)
(***************************************************************************)
EXTENDS Backtest

CONSTANTS Lengths, Bases, Values

At(value, partial) == [value |-> value, partial |-> partial]

Flat(length, base) == [i \in 1 .. length |-> At(base, FALSE)]

MCSeries ==
    {Flat(length, base) \o <<At(x, FALSE), At(y, FALSE), At(z, partial)>> :
        length \in Lengths, base \in Bases, x \in Values, y \in Values, z \in Values,
        partial \in BOOLEAN}

MCHours == [tf \in Timeframes |-> IF tf = "now" THEN 1 ELSE 24]
=============================================================================
