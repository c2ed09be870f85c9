-------------------------------- MODULE Pricing --------------------------------
(***************************************************************************)
(* The cost arithmetic of the gateway (internal/gateway/cost.go).  Numbers *)
(* are words of Word values, where the code has 2^64; a currency unit is   *)
(* 10^Places parts, where the code has a million.                          *)
(***************************************************************************)
EXTENDS Integers, Sequences, SequencesExt

CONSTANTS Word, Places, Padding, MaxPrice

ASSUME PricingAssumption ==
    /\ Places \in Nat \ {0} /\ 10 ^ Places \in Nat \ {0}
    /\ {Word, Padding, MaxPrice} \subseteq Nat
    /\ Word > 10 ^ Places /\ Padding < Word /\ MaxPrice < Word

PerUnit == 10 ^ Places
Overflow == -1  \* also: the amount cannot be read

NoPrice == [input |-> 0, output |-> 0]
Priced(rates) == rates.input > 0 /\ rates.output > 0

\* validOptional: both prices or none.
ValidRates(rates) ==
    \/ rates = NoPrice
    \/ Priced(rates) /\ rates.input <= MaxPrice /\ rates.output <= MaxPrice

\* Mutant: rounds down.
FloorMulDiv(left, right, divisor) ==
    IF left * right >= divisor * Word THEN Overflow ELSE (left * right) \div divisor

\* The product has two words; a quotient that needs the second is refused, and
\* so is one that rounding up would wrap.
CeilMulDiv(left, right, divisor) ==
    LET hi == (left * right) \div Word
        lo == (left * right) % Word
        quotient == (hi * Word + lo) \div divisor
        up == IF (hi * Word + lo) % divisor = 0 THEN 0 ELSE 1
    IN  IF divisor = 0 \/ hi >= divisor \/ quotient + up = Word
        THEN Overflow ELSE quotient + up

\* EstimateCostMicros of a body and an output bound of at least one.
EstimateCost(bytes, tokens, rates) ==
    LET input  == CeilMulDiv(bytes + Padding, rates.input, PerUnit)
        output == CeilMulDiv(tokens, rates.output, PerUnit)
    IN  IF ~Priced(rates) THEN 0
        ELSE IF \/ bytes > Word - 1 - Padding
                \/ Overflow \in {input, output}
                \/ input > Word - 1 - output
             THEN Overflow ELSE input + output

\* An amount as it is written: the digits of its two halves, <<>> for one that
\* is absent.  Ten stands for a character that is no digit.
Digits == 0..9
Number(digits) ==
    LET value[n \in 0..Len(digits)] == IF n = 0 THEN 0 ELSE 10 * value[n - 1] + digits[n]
    IN  value[Len(digits)]

\* ParseCurrencyMicros.
ParseAmount(text) ==
    LET whole == Number(text.whole)
        fraction == Number(text.fraction \o [i \in 1..(Places - Len(text.fraction)) |-> 0])
    IN  IF \/ text.points > 1
           \/ Len(text.fraction) > Places
           \/ ~(Range(text.whole) \cup Range(text.fraction) \subseteq Digits)
           \/ whole >= Word
           \/ whole > (Word - 1 - fraction) \div PerUnit
           \/ whole * PerUnit + fraction = 0
        THEN Overflow ELSE whole * PerUnit + fraction
===============================================================================
