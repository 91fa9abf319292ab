---------------------------- MODULE FxConversion ----------------------------
(* The use of a CBN rate (internal/fx): minor units of one currency in those *)
(* of the other, half-up.  A conversion to nothing is an error to its caller.*)
EXTENDS Naturals

CONSTANT Scale      \* MicroScale: the units in which a rate is quoted

ASSUME ScaleAssumption == Scale \in Nat \ {0}

ConvertUSDToNGN(micro, usd) == (usd * micro + Scale \div 2) \div Scale

ConvertNGNToUSD(micro, ngn) == (2 * ngn * Scale + micro) \div (2 * micro)
=============================================================================
