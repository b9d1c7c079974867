------------------------------- MODULE Amounts -------------------------------
(***************************************************************************)
(* How an amount gets into the database.  The node writes it in BTC with    *)
(* eight decimals, encoding/json reads it into the float64 Vout.Value, and  *)
(* parser.go stores int64(vout.Value * 100000000), in satoshis.  Reading    *)
(* rounds to a double (53 significant bits), multiplying rounds again, the  *)
(* conversion cuts off.  An amount of n satoshis is <<whole BTC, the        *)
(* satoshis left>>, so that every number here stays below 2^31.             *)
(***************************************************************************)
EXTENDS Integers

Unit == 100000000       \* satoshis in one BTC
Supply == 21000000      \* the limit in BTC

Amount == (0..Supply - 1) \X (0..Unit - 1)

Less(m, n) == m[1] < n[1] \/ (m[1] = n[1] /\ m[2] < n[2])

(* m - n, for amounts that are close to each other. *)
Difference(m, n) == (m[1] - n[1]) * Unit + (m[2] - n[2])

Times2(n) == <<2 * n[1] + (2 * n[2]) \div Unit, (2 * n[2]) % Unit>>

Pow2[i \in Nat] == IF i = 0 THEN 1 ELSE 2 * Pow2[i - 1]

(* n * 2^i *)
Shifted(n, i) == LET s[j \in 0..i] == IF j = 0 THEN n ELSE Times2(s[j - 1]) IN s[i]

(* 2^i satoshis *)
PowerOfTwo == [i \in 0..51 |-> Shifted(<<0, 1>>, i)]

(* k with 2^k <= n < 2^(k + 1), n in BTC, and the number of bits of n in    *)
(* satoshis.                                                                *)
Exponent(n) ==
    IF n[1] > 0 THEN CHOOSE k \in 0..24 : Pow2[k] <= n[1] /\ n[1] < Pow2[k + 1]
    ELSE -(CHOOSE i \in 1..27 : Shifted(n, i)[1] = 1)
Bits(n) == CHOOSE l \in 1..51 : ~Less(n, PowerOfTwo[l - 1]) /\ Less(n, PowerOfTwo[l])

(* a / b rounded to the nearest integer, a tie to the even one. *)
RoundHalfEven(a, b) ==
    LET q == a \div b
        twice == 2 * (a % b)
    IN  IF twice > b \/ (twice = b /\ q % 2 = 1) THEN q + 1 ELSE q

(* The double read for n satoshis differs from n by ReadError(n) units of   *)
(* 2^(Exponent(n) - 52) satoshis, half a unit of its last place at most.    *)
ReadError(n) ==
    LET rest[j \in 0..(52 - Exponent(n))] ==
            IF j = 0 THEN n[2] ELSE (2 * rest[j - 1]) % Unit
        r == rest[52 - Exponent(n)]
    IN  IF 2 * r < Unit THEN -r ELSE Unit - r

(* The product of that double with 100000000, rounded, cut off: how many    *)
(* satoshis are missing.  One place of the product is 2^(Bits(n) - 53)      *)
(* satoshis, and half of that below a power of two.                         *)
Lost(n) ==
    IF n = <<0, 0>> THEN 0
    ELSE LET below == n = PowerOfTwo[Bits(n) - 1] /\ ReadError(n) < 0
             unit == Pow2[Bits(n) - 1 - Exponent(n) - (IF below THEN 1 ELSE 0)]
             places == 53 - Bits(n) + (IF below THEN 1 ELSE 0)
             error == RoundHalfEven(ReadError(n), unit)
         IN  -(error \div Pow2[IF places < 30 THEN places ELSE 30])

(* Mutant: int64(vout.Value) * 100000000, only whole bitcoins remain. *)
ConvertWholeOnly(n) == <<n[1], 0>>

(* value_sats of the row of an output of n satoshis. *)
Convert(n) ==
    IF n[2] >= Lost(n) THEN <<n[1], n[2] - Lost(n)>>
    ELSE <<n[1] - 1, Unit + n[2] - Lost(n)>>
=============================================================================
