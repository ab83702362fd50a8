---------------------------- MODULE TuningProofs ----------------------------
(***************************************************************************)
(* Proofs about Tuning: for any rates, frequencies and corrections, what   *)
(* the registers of resampler, filter and PLLs say is what was asked for   *)
(* (RateAsRequested, FilterCoversRate, PllHitsTarget, DividersHitTarget).  *)
(*                                                                         *)
(* An answer is given in one step and changes nothing that is looked at    *)
(* later, so the invariant has the ranges of correction and IF and no      *)
(* more; the work is in the arithmetic of each answer.                     *)
(***************************************************************************)
EXTENDS Tuning, TLAPS

\* The correction is small, and there is always an IF.
Ranges ==
    /\ freq_offset_ppm \in Int /\ -1000 <= freq_offset_ppm /\ freq_offset_ppm <= 1000
    /\ if_khz \in Nat

-----------------------------------------------------------------------------
(* Division of 64-bit products.                                            *)

\* d is quotient and remainder of a by b.
Divides(d, a, b) ==
    /\ d.quotient \in Nat /\ d.rest \in Nat /\ d.rest < b
    /\ a = d.quotient * b + d.rest

\* q is the quotient of a * 2^22 by b, rounded down.
ScaledBy(q, a, b) ==
    q \in Nat /\ q * b <= 4194304 * a /\ 4194304 * a < (q + 1) * b

\* A doubling keeps a division exact.
LEMMA DoubledDivides ==
    ASSUME NEW b \in Nat, b > 0, NEW a \in Nat, NEW d, Divides(d, a, b)
    PROVE  Divides(Doubled(d, b), 2 * a, b)
  <1> DEFINE q == d.quotient
             r == d.rest
  <1>1. q \in Nat /\ r \in Nat /\ r < b /\ a = q * b + r
    BY DEF Divides
  <1> HIDE DEF q, r
  <1>2. q * b \in Nat /\ (2 * q) * b = 2 * (q * b) /\ (2 * q + 1) * b = 2 * (q * b) + b
    BY <1>1
  <1>3. CASE 2 * r >= b
    <2>1. Doubled(d, b) = [quotient |-> 2 * q + 1, rest |-> 2 * r - b]
      BY <1>3 DEF Doubled, q, r
    <2>2. 2 * a = (2 * q + 1) * b + (2 * r - b)
      BY <1>1, <1>2
    <2> QED BY <1>1, <1>3, <2>1, <2>2 DEF Divides
  <1>4. CASE ~(2 * r >= b)
    <2>1. Doubled(d, b) = [quotient |-> 2 * q, rest |-> 2 * r]
      BY <1>4 DEF Doubled, q, r
    <2>2. 2 * a = (2 * q) * b + 2 * r
      BY <1>1, <1>2
    <2> QED BY <1>1, <1>4, <2>1, <2>2 DEF Divides
  <1> QED BY <1>3, <1>4

\* So do two of them.
LEMMA Times4Divides ==
    ASSUME NEW b \in Nat, b > 0, NEW a \in Nat, NEW d, Divides(d, a, b)
    PROVE  Divides(Times4(d, b), 4 * a, b)
  <1>1. Divides(Doubled(d, b), 2 * a, b)
    BY DoubledDivides
  <1>2. Divides(Doubled(Doubled(d, b), b), 2 * (2 * a), b)
    BY <1>1, DoubledDivides
  <1>3. 2 * (2 * a) = 4 * a
    OBVIOUS
  <1> QED BY <1>2, <1>3 DEF Times4

\* Four.
LEMMA Times16Divides ==
    ASSUME NEW b \in Nat, b > 0, NEW a \in Nat, NEW d, Divides(d, a, b)
    PROVE  Divides(Times16(d, b), 16 * a, b)
  <1>1. Divides(Times4(d, b), 4 * a, b)
    BY Times4Divides
  <1>2. Divides(Times4(Times4(d, b), b), 4 * (4 * a), b)
    BY <1>1, Times4Divides
  <1>3. 4 * (4 * a) = 16 * a
    OBVIOUS
  <1> QED BY <1>2, <1>3 DEF Times16

\* And sixteen.
LEMMA Times65536Divides ==
    ASSUME NEW b \in Nat, b > 0, NEW a \in Nat, NEW d, Divides(d, a, b)
    PROVE  Divides(Times65536(d, b), 65536 * a, b)
  <1>1. Divides(Times16(d, b), 16 * a, b)
    BY Times16Divides
  <1>2. Divides(Times16(Times16(d, b), b), 16 * (16 * a), b)
    BY <1>1, Times16Divides
  <1>3. Divides(Times16(Times16(Times16(d, b), b), b), 16 * (16 * (16 * a)), b)
    BY <1>2, Times16Divides
  <1>4. Divides(Times16(Times16(Times16(Times16(d, b), b), b), b), 16 * (16 * (16 * (16 * a))), b)
    BY <1>3, Times16Divides
  <1>5. 16 * (16 * (16 * (16 * a))) = 65536 * a
    OBVIOUS
  <1> QED BY <1>4, <1>5 DEF Times65536

\* 22 of them make the quotient of a * 2^22.
LEMMA ScaledDivides ==
    ASSUME NEW b \in Nat, b > 0, NEW a \in Nat
    PROVE  ScaledBy(Scaled(a, b), a, b)
  <1> DEFINE d0 == [quotient |-> a \div b, rest |-> a % b]
             d1 == Times65536(d0, b)
             d2 == Times16(d1, b)
             d3 == Times4(d2, b)
  <1>1. Divides(d0, a, b)
    <2>1. /\ a \div b \in Nat /\ a % b \in Nat /\ a % b < b
          /\ a = (a \div b) * b + (a % b)
      OBVIOUS
    <2> QED BY <2>1 DEF Divides
  <1> HIDE DEF d0
  <1>2. Divides(d1, 65536 * a, b)
    BY <1>1, Times65536Divides
  <1> HIDE DEF d1
  <1>3. Divides(d2, 16 * (65536 * a), b)
    BY <1>2, Times16Divides
  <1> HIDE DEF d2
  <1>4. Divides(d3, 4 * (16 * (65536 * a)), b)
    BY <1>3, Times4Divides
  <1>5. 4 * (16 * (65536 * a)) = 4194304 * a
    OBVIOUS
  <1>6. Scaled(a, b) = d3.quotient
    BY DEF Scaled, d0, d1, d2
  <1> HIDE DEF d3
  <1> DEFINE q == d3.quotient
             r == d3.rest
  <1>7. q \in Nat /\ r \in Nat /\ r < b /\ 4194304 * a = q * b + r
    BY <1>4, <1>5 DEF Divides
  <1> HIDE DEF q, r
  <1>8. q * b \in Nat /\ (q + 1) * b = q * b + b
    BY <1>7
  <1> QED BY <1>6, <1>7, <1>8 DEF q, ScaledBy

-----------------------------------------------------------------------------
(* The resampler.                                                          *)

\* The ratio of any rate that is let through, and what becomes of an expressible one.
LEMMA RatioTaken ==
    ASSUME Ranges, NEW rate \in Nat, 225000 <= rate, rate <= 3200000
    PROVE  /\ CorrectedXtal \in Nat /\ 28771200 <= CorrectedXtal /\ CorrectedXtal <= 28828800
           /\ Effective(Ratio(rate)) \in Nat
           /\ Expressible(rate) =>
                LET exact == Scaled(CorrectedXtal, rate)
                IN  Effective(Ratio(rate)) = exact - (exact % 4)
  <1> DEFINE X == CorrectedXtal
             exact == Scaled(X, rate)
             low == exact - (exact % 4)
  <1>1. X \in Nat /\ 28771200 <= X /\ X <= 28828800
    BY DEF Ranges, CorrectedXtal, Xtal
  <1> HIDE DEF X
  <1>2. /\ exact \in Nat
        /\ exact * rate <= 4194304 * X
        /\ 4194304 * X < (exact + 1) * rate
    <2>1. rate > 0
      OBVIOUS
    <2>2. ScaledBy(exact, X, rate)
      BY <1>1, <2>1, ScaledDivides
    <2> QED BY <2>2 DEF ScaledBy
  <1> HIDE DEF exact
  <1>3. low \in Nat /\ low <= exact /\ exact - low < 4 /\ low % 4 = 0
    BY <1>2
  <1>4. Ratio(rate) = low % 268435456
    BY DEF Ratio, exact, X
  <1> HIDE DEF low
  <1>5. Effective(Ratio(rate)) =
          IF low % 268435456 >= 134217728 THEN (low % 268435456) + 268435456 ELSE low % 268435456
    BY <1>4 DEF Effective
  <1>6. Effective(Ratio(rate)) \in Nat
    BY <1>3, <1>5
  <1>7. ASSUME Expressible(rate)
        PROVE  Effective(Ratio(rate)) = low
    <2>1. CASE 32 * rate > X
      <3>1. SUFFICES ASSUME exact >= 134217728
                     PROVE  FALSE
        BY <1>3, <1>2, <1>5
      <3>2. exact * rate >= 134217728 * rate
        BY <1>2, <3>1
      <3> QED BY <1>1, <1>2, <2>1, <3>2
    <2>2. CASE 96 * rate <= X /\ 128 * rate > X
      <3>1. exact < 536870912
        <4>1. SUFFICES ASSUME exact >= 536870912
                       PROVE  FALSE
          BY <1>2
        <4>2. exact * rate >= 536870912 * rate
          BY <1>2, <4>1
        <4> QED BY <1>1, <1>2, <2>2, <4>2
      <3>2. exact >= 402653184
        <4>1. SUFFICES ASSUME exact + 1 <= 402653184
                       PROVE  FALSE
          BY <1>2
        <4>2. (exact + 1) * rate <= 402653184 * rate
          BY <1>2, <4>1
        <4> QED BY <1>1, <1>2, <2>2, <4>2
      <3>3. low >= 402653184 /\ low < 536870912
        BY <1>3, <1>2, <3>1, <3>2
      <3>4. low % 268435456 = low - 268435456
        BY <1>3, <3>3
      <3> QED BY <1>3, <1>5, <3>3, <3>4
    <2> QED BY <1>7, <2>1, <2>2 DEF Expressible, X
  <1> QED BY <1>1, <1>6, <1>7 DEF X, exact, low

\* The second division gives an expressible rate back, rounded up by one at most.
LEMMA RateTaken ==
    ASSUME Ranges, NEW rate \in Nat, 225000 <= rate, rate <= 3200000, Expressible(rate)
    PROVE  /\ Effective(Ratio(rate)) # 0
           /\ Scaled(CorrectedXtal, Effective(Ratio(rate))) \in rate..rate+1
  <1> DEFINE X == CorrectedXtal
             exact == Scaled(X, rate)
             e == Effective(Ratio(rate))
             recorded == Scaled(X, e)
  <1>1. X \in Nat /\ 28771200 <= X /\ X <= 28828800 /\ e \in Nat /\ e = exact - (exact % 4)
    BY RatioTaken
  <1> HIDE DEF X, e
  <1>2. /\ exact \in Nat
        /\ exact * rate <= 4194304 * X
        /\ 4194304 * X < (exact + 1) * rate
    <2>1. rate > 0
      OBVIOUS
    <2>2. ScaledBy(exact, X, rate)
      BY <1>1, <2>1, ScaledDivides
    <2> QED BY <2>2 DEF ScaledBy
  <1> HIDE DEF exact
  <1>3. e <= exact /\ exact <= e + 3
    BY <1>1, <1>2
  <1>4. e * rate <= 4194304 * X /\ 4194304 * X < (e + 4) * rate
    <2>1. e * rate <= exact * rate /\ (exact + 1) * rate <= (e + 4) * rate
      BY <1>1, <1>2, <1>3
    <2>2. e * rate \in Int /\ exact * rate \in Int /\ (exact + 1) * rate \in Int /\ (e + 4) * rate \in Int
      BY <1>1, <1>2
    <2> QED BY <1>1, <1>2, <2>1, <2>2
  <1>5. e > 2 * rate
    <2>1. SUFFICES ASSUME e + 4 <= 6400004
                   PROVE  FALSE
      BY <1>1
    <2>2. (e + 4) * rate <= 6400004 * rate
      BY <1>1, <2>1
    <2> QED BY <1>1, <1>4, <2>2
  <1>6. /\ recorded \in Nat
        /\ recorded * e <= 4194304 * X
        /\ 4194304 * X < (recorded + 1) * e
    <2>1. e > 0
      BY <1>1, <1>5
    <2>2. ScaledBy(recorded, X, e)
      BY <1>1, <2>1, ScaledDivides
    <2> QED BY <2>2 DEF ScaledBy
  <1> HIDE DEF recorded
  <1>7. recorded >= rate
    <2>1. SUFFICES ASSUME recorded + 1 <= rate
                   PROVE  FALSE
      BY <1>6
    <2>2. (recorded + 1) * e <= rate * e
      BY <1>1, <1>6, <2>1
    <2>3. rate * e = e * rate /\ rate * e \in Int /\ (recorded + 1) * e \in Int
      BY <1>1, <1>6
    <2> QED BY <1>1, <1>4, <1>6, <2>2, <2>3
  <1>8. recorded <= rate + 1
    <2>1. SUFFICES ASSUME recorded >= rate + 2
                   PROVE  FALSE
      BY <1>6
    <2>2. recorded * e >= (rate + 2) * e
      BY <1>1, <1>6, <2>1
    <2>3. (rate + 2) * e = e * rate + 2 * e /\ (e + 4) * rate = e * rate + 4 * rate
      BY <1>1
    <2>4. recorded * e \in Int /\ e * rate \in Int
      BY <1>1, <1>6
    <2> QED BY <1>1, <1>4, <1>5, <1>6, <2>2, <2>3, <2>4
  <1> QED BY <1>5, <1>6, <1>7, <1>8 DEF X, e, recorded

-----------------------------------------------------------------------------
(* The IF filter of the R820T.                                             *)

\* The table falls.
LEMMA Table ==
    /\ DOMAIN LowPass = 1..10 /\ Len(LowPass) = 10
    /\ \A i \in 1..10 : LowPass[i] \in Nat /\ 350 <= LowPass[i] /\ LowPass[i] <= 1700
    /\ \A i \in 1..10, j \in 1..10 : i < j => LowPass[i] > LowPass[j]
    /\ LowPass[1] = 1700
  BY DEF LowPass

\* There is a last low-pass that is wide enough, or none is.
LEMMA NarrowestExists ==
    ASSUME NEW width \in Int
    PROVE  /\ Narrowest(width) \in 1..10
           /\ Narrowest(width) = 1 \/ LowPass[Narrowest(width)] >= width
           /\ \A j \in Narrowest(width)+1..10 : LowPass[j] < width
  <1> DEFINE Fit(i) == /\ i = 1 \/ LowPass[i] >= width
                       /\ \A j \in i+1..10 : LowPass[j] < width
  <1>1. \E i \in 1..10 : Fit(i)
    <2>1. CASE width > 1600
      <3>1. Fit(1)
        BY <2>1 DEF LowPass
      <3> QED BY <3>1
    <2>2. CASE width <= 350
      <3>1. Fit(10)
        BY <2>2 DEF LowPass
      <3> QED BY <3>1
    <2>3. ASSUME NEW i \in 2..9, width <= LowPass[i], LowPass[i + 1] < width
          PROVE  \E k \in 1..10 : Fit(k)
      <3>1. Fit(i)
        BY <2>3, Table
      <3> QED BY <3>1
    <2>4. width <= 1600 /\ width > 350 =>
            \E i \in 2..9 : width <= LowPass[i] /\ LowPass[i + 1] < width
      BY DEF LowPass
    <2> QED BY <2>1, <2>2, <2>3, <2>4
  <1>2. Narrowest(width) = CHOOSE i \in 1..10 : Fit(i)
    BY Table DEF Narrowest
  <1>3. Narrowest(width) \in 1..10 /\ Fit(Narrowest(width))
    <2> HIDE DEF Fit
    <2> QED BY <1>1, <1>2
  <1> QED BY <1>3

\* The filter put together for a bandwidth.
LEMMA FilterCovers ==
    ASSUME NEW bw \in Nat
    PROVE  /\ Filter(bw).if \in Nat
           /\ Filter(bw).low_pass # 0 =>
                LET filter == Filter(bw)
                    open == filter.width - LowPass[filter.low_pass]
                IN  /\ filter.width >= bw
                    /\ \A i \in 1..10 : LowPass[i] + open >= bw => LowPass[i] + open >= filter.width
                    /\ 2 * filter.if + filter.width \in 2 * (2300 + open)..2 * (2300 + open) + 1
  <1> DEFINE second == bw > 2050
             rest == IF second THEN bw - 380 ELSE bw
             first == rest > 1700
             needed == IF first THEN rest - 350 ELSE rest
             low_pass == Narrowest(needed)
             open == (IF second THEN 380 ELSE 0) + (IF first THEN 350 ELSE 0)
             width == open + LowPass[low_pass]
             filter == [low_pass |-> low_pass, if |-> 2300 + open - width \div 2, width |-> width]
  <1>1. CASE bw > 2430
    <2>1. Filter(bw).low_pass = 0 /\ Filter(bw).if \in {4570, 3570}
      BY <1>1 DEF Filter, LowPass, HighPass1, HighPass2
    <2> QED BY <2>1
  <1>2. CASE ~(bw > 2430)
    <2>1. Filter(bw) = filter
      <3>1. LowPass[1] + HighPass1 + HighPass2 = 2430 /\ LowPass[1] + HighPass1 = 2050
        BY Table DEF HighPass1, HighPass2
      <3> QED BY <1>2, <3>1, Table DEF Filter, HighPass1, HighPass2
    <2>2. rest \in Int /\ needed \in Int /\ needed <= 1700 /\ open \in {0, 350, 380, 730} /\ needed = bw - open
      BY <1>2
    <2> HIDE DEF open, needed
    <2>3. low_pass \in 1..10 /\ LowPass[low_pass] >= needed
      BY <2>2, NarrowestExists, Table
    <2>4. \A j \in low_pass+1..10 : LowPass[j] < needed
      BY <2>2, NarrowestExists
    <2> HIDE DEF low_pass
    <2> DEFINE lp == LowPass[low_pass]
    <2>5. lp \in Nat /\ 350 <= lp /\ lp <= 1700
      BY <2>3, Table
    <2>6. ASSUME NEW i \in 1..10, LowPass[i] >= needed
          PROVE  LowPass[i] >= lp
      <3>1. i <= low_pass
        BY <2>2, <2>3, <2>4, <2>6, Table
      <3> QED BY <3>1, <2>3, <2>6, Table
    <2> HIDE DEF lp
    <2>7. width = open + lp /\ filter.if = 2300 + open - width \div 2 /\ filter.width = width
          /\ filter.low_pass = low_pass
      BY DEF lp
    <2>8. width - lp = open /\ width >= bw /\ filter.if \in Nat
      BY <2>2, <2>3, <2>5, <2>7 DEF lp
    <2>9. 2 * filter.if + width \in 2 * (2300 + open)..2 * (2300 + open) + 1
      BY <2>2, <2>5, <2>7
    <2>10. \A i \in 1..10 : LowPass[i] + open >= bw => LowPass[i] + open >= width
      BY <2>2, <2>5, <2>6, <2>7, Table
    <2> HIDE DEF filter, width
    <2> QED BY <2>1, <2>7, <2>8, <2>9, <2>10 DEF lp
  <1> QED BY <1>1, <1>2

-----------------------------------------------------------------------------
(* The PLL of the FC0012.                                                  *)

\* The multiplier keeps the VCO below its ceiling, and above half of it unless it is
\* the largest one.
LEMMA MultiplierFits ==
    ASSUME NEW freq \in Nat
    PROVE  /\ Multiplier(freq) \in {96, 64, 48, 32, 24, 16, 12, 8, 6, 4}
           /\ Multiplier(freq) = 4 \/ freq * Multiplier(freq) < 3060000
           /\ Multiplier(freq) = 96 \/ freq * Multiplier(freq) >= 1530000
  <1> DEFINE S == MULTIPLIER_SET
             fits == {i \in 1..10 : freq * S[i] < 3060000}
             least == CHOOSE i \in fits : \A j \in fits : i <= j
  <1>1. DOMAIN S = 1..10 /\ Len(S) = 10
    BY DEF MULTIPLIER_SET
  <1>2. Multiplier(freq) = S[IF fits = {} THEN 10 ELSE least]
    BY <1>1 DEF Multiplier, Min
  <1>3. \A i \in 1..10 : S[i] \in {96, 64, 48, 32, 24, 16, 12, 8, 6, 4} /\ (S[i] = 96 <=> i = 1)
    BY DEF MULTIPLIER_SET
  <1>4. \A i \in 1..9 : S[i] > S[i + 1] /\ S[i] <= 2 * S[i + 1]
    BY DEF MULTIPLIER_SET
  <1>5. S[10] = 4
    BY DEF MULTIPLIER_SET
  <1> HIDE DEF S
  <1>6. CASE fits = {}
    <2>1. Multiplier(freq) = 4
      BY <1>2, <1>5, <1>6
    <2>2. ~(freq * 6 < 3060000)
      <3>1. ~(freq * S[9] < 3060000) /\ S[9] = 6
        BY <1>6 DEF S, MULTIPLIER_SET
      <3> QED BY <3>1
    <2> QED BY <2>1, <2>2
  <1>7. CASE fits # {}
    <2>1. \E i \in fits : \A j \in fits : i <= j
      <3>1. PICK i \in 1..10 : i \in fits
        BY <1>7
      <3> QED BY <3>1
    <2>2. least \in fits /\ \A j \in fits : least <= j
      <3> HIDE DEF fits
      <3> QED BY <2>1
    <2> HIDE DEF least
    <2>3. Multiplier(freq) = S[least] /\ freq * S[least] < 3060000 /\ least \in 1..10
      BY <1>2, <1>7, <2>2
    <2>4. CASE least = 1
      BY <1>3, <2>3, <2>4
    <2>5. CASE least # 1
      <3>1. least - 1 \in 1..9 /\ (least - 1) + 1 = least
        BY <2>3, <2>5
      <3>2. ~(freq * S[least - 1] < 3060000) /\ S[least - 1] <= 2 * S[least]
        BY <1>4, <2>2, <2>3, <3>1
      <3>3. S[least] \in Nat /\ S[least - 1] \in Nat
        BY <1>3, <2>3, <3>1
      <3>4. freq * S[least - 1] <= freq * (2 * S[least]) /\ freq * (2 * S[least]) = 2 * (freq * S[least])
        BY <3>2, <3>3
      <3>5. freq * S[least] \in Int /\ freq * S[least - 1] \in Int
        BY <3>3
      <3>6. freq * S[least] >= 1530000
        BY <3>2, <3>4, <3>5
      <3> QED BY <1>3, <2>3, <3>6
    <2> QED BY <2>4, <2>5
  <1> QED BY <1>6, <1>7

\* The dividers make the ratio, where no byte wraps.
LEMMA DividersMakeRatio ==
    ASSUME NEW total \in Nat, total <= 1200
    PROVE  LET d == Decomposed(total)
           IN  /\ d.n \in Nat /\ d.a \in Nat
               /\ ~Feasible(d) => total < 90 \/ total >= 264
               /\ (Feasible(d) /\ total >= 2 /\ total <= 503) =>
                    8 * d.n + d.a = total /\ d.n \in 11..31 /\ d.a \in 2..15
  <1> DEFINE lend == total % 8 < 2
             n == total \div 8 - (IF lend THEN 1 ELSE 0)
             a == (total % 8) + (IF lend THEN 8 ELSE 0)
             d == Decomposed(total)
  <1>1. n \in Int /\ a \in 2..9 /\ 8 * n + a = total /\ n <= 150 /\ n >= -1
    OBVIOUS
  <1>2. n >= 0 <=> total >= 2
    OBVIOUS
  <1>3. d = IF n % 256 > 31 THEN [n |-> 31, a |-> (a + 8 * ((n % 256) - 31)) % 256]
            ELSE [n |-> n % 256, a |-> a]
    BY DEF Decomposed
  <1> HIDE DEF n, a, lend
  <1>4. CASE n + 1 = 0
    <2>1. n % 256 = 255
      BY <1>1, <1>4
    <2>2. total < 2
      BY <1>1, <1>2, <1>4
    <2>3. d.n \in Nat /\ d.a \in Nat
      BY <1>1, <1>3, <2>1
    <2> QED BY <2>2, <2>3
  <1>5. CASE n >= 0
    <2>1. n % 256 = n
      BY <1>1, <1>5
    <2>2. CASE n > 31
      <3>1. d.n = 31 /\ d.a = (a + 8 * (n - 31)) % 256
        BY <1>3, <2>1, <2>2
      <3>2. total >= 258
        BY <1>1, <2>2
      <3>3. a + 8 * (n - 31) = total - 248
        BY <1>1
      <3>4. d.n \in Nat /\ d.a \in Nat
        BY <1>1, <2>2, <3>1
      <3>5. total <= 503 => d.a = total - 248
        BY <1>1, <3>1, <3>2, <3>3
      <3> HIDE DEF d
      <3> QED BY <3>1, <3>2, <3>4, <3>5 DEF Feasible, d
    <2>3. CASE n <= 31
      <3>1. d.n = n /\ d.a = a
        BY <1>1, <1>3, <2>1, <2>3
      <3>2. n < 11 => total < 98
        BY <1>1
      <3>3. total >= 90 /\ total < 98 => n >= 11
        BY <1>1
      <3> HIDE DEF d
      <3> QED BY <1>1, <1>5, <2>3, <3>1, <3>2, <3>3 DEF Feasible, d
    <2> QED BY <1>1, <2>2, <2>3
  <1> QED BY <1>1, <1>4, <1>5

\* The answer of the FC0012's PLL.
LEMMA DividersHit ==
    ASSUME NEW freq \in Nat, freq <= 4290000
    PROVE  LET vco == freq * Multiplier(freq)
               d == Decomposed(RawRatio(vco))
           IN  /\ ~Feasible(d) => \/ freq * 4 * 2 >= HalfXtal * (2 * 263 + 1)
                                  \/ freq * 96 * 2 < HalfXtal * (2 * 90 - 1)
               /\ (Feasible(d) /\ freq >= 225 /\ freq < 1812600) =>
                    DividersMake(d, FracWord(vco), vco)
  <1> DEFINE m == Multiplier(freq)
             vco == freq * m
             q == vco \div 14400
             r == vco % 14400
             total == q + (IF r >= 7200 THEN 1 ELSE 0)
             d == Decomposed(RawRatio(vco))
             frac == FracWord(vco)
             signed == IF frac >= 32768 THEN frac - 65536 ELSE frac
  <1>1. /\ m \in {96, 64, 48, 32, 24, 16, 12, 8, 6, 4}
        /\ m = 4 \/ vco < 3060000
        /\ m = 96 \/ vco >= 1530000
    BY MultiplierFits
  <1>2. HalfXtal = 14400
    BY DEF HalfXtal, Xtal
  <1> HIDE DEF m
  <1>3. vco \in Nat /\ (m = 96 => vco = freq * 96) /\ (m = 4 => vco = freq * 4)
    BY <1>1
  <1>4. vco <= 17160000 /\ (freq >= 225 => vco >= 21600) /\ (freq < 1812600 => vco < 7250400)
    BY <1>1, <1>3
  <1> HIDE DEF vco
  <1>5. q \in Nat /\ r \in Nat /\ r < 14400 /\ vco = 14400 * q + r
    BY <1>3
  <1>6. RawRatio(vco) = total
    BY <1>2 DEF RawRatio
  <1>7. frac = LET raw == (r * 32768) \div 14400 IN IF raw >= 16384 THEN raw + 32768 ELSE raw
    BY <1>2 DEF FracWord
  <1> HIDE DEF q, r, frac
  <1>8. /\ total \in Nat /\ total <= 1200
        /\ freq >= 225 => total >= 2
        /\ freq < 1812600 => total <= 503
    BY <1>4, <1>5
  <1>9. total < 90 => freq * 96 * 2 < 14400 * 179
    <2>1. total < 90 => vco * 2 < 14400 * 179
      BY <1>5
    <2> QED BY <1>1, <1>3, <2>1
  <1>10. total >= 264 => freq * 4 * 2 >= 14400 * 527
    <2>1. total >= 264 => vco * 2 >= 14400 * 527
      BY <1>5
    <2> QED BY <1>1, <1>3, <2>1
  <1>11. Distance(total * 14400 + (signed * 14400) \div 32768, vco) <= 1
    <2> DEFINE raw == (r * 32768) \div 14400
               step == (signed * 14400) \div 32768
    <2>1. raw \in Nat /\ raw < 32768 /\ raw * 14400 <= r * 32768 /\ r * 32768 < raw * 14400 + 14400
      BY <1>5
    <2>2. raw >= 16384 <=> r >= 7200
      BY <1>5, <2>1
    <2>3. signed = IF r >= 7200 THEN raw - 32768 ELSE raw
      BY <1>7, <2>1, <2>2
    <2> HIDE DEF raw, signed
    <2>4. /\ step \in Int
          /\ step * 32768 <= signed * 14400
          /\ signed * 14400 < step * 32768 + 32768
      BY <2>1, <2>3
    <2> HIDE DEF step
    <2>5. CASE r >= 7200
      <3>1. total = q + 1 /\ signed = raw - 32768
        BY <2>3, <2>5
      <3>2. step + 14400 <= r /\ r - 1 <= step + 14400
        BY <1>5, <2>1, <2>4, <3>1
      <3> QED BY <1>5, <2>4, <3>1, <3>2 DEF Distance, step
    <2>6. CASE ~(r >= 7200)
      <3>1. total = q /\ signed = raw
        BY <1>5, <2>3, <2>6
      <3>2. step <= r /\ r - 1 <= step
        BY <1>5, <2>1, <2>4, <3>1
      <3> QED BY <1>5, <2>4, <3>1, <3>2 DEF Distance, step
    <2> QED BY <2>5, <2>6
  <1> HIDE DEF total
  <1>12. /\ ~Feasible(d) => total < 90 \/ total >= 264
         /\ (Feasible(d) /\ total >= 2 /\ total <= 503) =>
              8 * d.n + d.a = total /\ d.n \in 11..31 /\ d.a \in 2..15
    BY <1>6, <1>8, DividersMakeRatio
  <1> HIDE DEF d, signed
  <1>13. ~Feasible(d) => \/ freq * 4 * 2 >= HalfXtal * (2 * 263 + 1)
                         \/ freq * 96 * 2 < HalfXtal * (2 * 90 - 1)
    BY <1>2, <1>9, <1>10, <1>12
  <1>14. (Feasible(d) /\ freq >= 225 /\ freq < 1812600) =>
           /\ d.n \in 11..31 /\ d.a \in 2..15
           /\ Distance((8 * d.n + d.a) * HalfXtal + (signed * HalfXtal) \div 32768, vco) <= 1
    BY <1>2, <1>8, <1>11, <1>12
  <1>15. signed = IF frac >= 2^15 THEN frac - 2^16 ELSE frac
    BY DEF signed
  <1>16. (Feasible(d) /\ freq >= 225 /\ freq < 1812600) => DividersMake(d, frac, vco)
    BY <1>14, <1>15 DEF DividersMake
  <1> QED BY <1>13, <1>16 DEF d, frac, vco, m

-----------------------------------------------------------------------------
(* The PLL of the R820T.                                                   *)

Denominator == 2 * CorrectedRef

\* The reference stays close to the crystal's.
LEMMA ReferenceFits ==
    ASSUME Ranges
    PROVE  /\ CorrectedRef \in Nat /\ 28771 <= CorrectedRef /\ CorrectedRef <= 28828
           /\ Denominator \in Nat /\ 57542 <= Denominator /\ Denominator <= 57656
  BY DEF Ranges, CorrectedRef, Xtal, Denominator

\* What the bits written leave of frac, times 2^16: at most limit / 2^16 of the
\* denominator, and the residual but for what the parts were rounded down by.
BitsFit(s, frac, limit, slack) ==
    /\ s.word \in Nat /\ s.residual \in Nat
    /\ 65536 * frac - s.word * Denominator <= limit * Denominator
    /\ 65536 * frac - s.word * Denominator <= 65536 * s.residual
    /\ 65536 * frac - s.word * Denominator >= 65536 * s.residual - slack

\* The part of one bit, times 2^16, and what it was rounded down by
LEMMA PartRounded ==
    ASSUME NEW den \in Nat, NEW w \in Nat, w > 0, NEW c \in Nat, c * w = 65536
    PROVE  /\ den \div w \in Nat /\ den % w \in Nat
           /\ c * den = 65536 * (den \div w) + c * (den % w)
           /\ c * (den % w) \in Nat
  <1> DEFINE p == den \div w
             m == den % w
  <1>1. p \in Nat /\ m \in Nat /\ den = w * p + m
    OBVIOUS
  <1> HIDE DEF p, m
  <1>2. c * (w * p + m) = (c * w) * p + c * m
    BY <1>1
  <1>3. c * m \in Nat
    BY <1>1
  <1> QED BY <1>1, <1>2, <1>3 DEF p, m

\* One round halves the limit.
LEMMA BitFits ==
    ASSUME Ranges, NEW w \in Nat, w > 0, w <= 32768, NEW c \in Nat, c * w = 65536, 65536 \div w = c,
           NEW frac \in Nat, NEW slack \in Nat, NEW s, BitsFit(s, frac, 2 * c, slack)
    PROVE  BitsFit(Bit(s, w), frac, c, slack + c * (Denominator % w))
  <1> DEFINE den == Denominator
             p == den \div w
             lost == c * (den % w)
             word == s.word
             residual == s.residual
  <1>1. den \in Nat /\ 57542 <= den
    BY ReferenceFits
  <1>2. p \in Nat /\ c * den = 65536 * p + lost /\ lost \in Nat
    BY <1>1, PartRounded
  <1>3. p >= 1
    BY <1>1
  <1>4. Bit(s, w) = IF residual <= 1 \/ residual <= p
                    THEN s ELSE [word |-> word + c, residual |-> residual - p]
    BY DEF Bit, Denominator
  <1> HIDE DEF den, p, lost
  <1>5. /\ word \in Nat /\ residual \in Nat
        /\ 65536 * frac - word * den <= (2 * c) * den
        /\ 65536 * frac - word * den <= 65536 * residual
        /\ 65536 * frac - word * den >= 65536 * residual - slack
    BY DEF BitsFit, den
  <1>6. word * den \in Nat /\ c * den \in Nat /\ (2 * c) * den = 2 * (c * den)
        /\ (word + c) * den = word * den + c * den
    BY <1>1, <1>5
  <1> DEFINE left == 65536 * frac - word * den
  <1>7. left \in Int
    BY <1>6
  <1>8. CASE residual <= 1 \/ residual <= p
    <2>1. Bit(s, w).word = word /\ Bit(s, w).residual = residual
      BY <1>4, <1>8
    <2>2. residual <= p
      BY <1>2, <1>3, <1>5, <1>8
    <2>3. left <= c * den
      BY <1>2, <1>5, <1>6, <2>2
    <2>4. left >= 65536 * residual - (slack + lost)
      BY <1>2, <1>5, <1>6
    <2> QED BY <1>5, <2>1, <2>3, <2>4 DEF BitsFit, den, lost
  <1>9. CASE ~(residual <= 1 \/ residual <= p)
    <2>1. Bit(s, w).word = word + c /\ Bit(s, w).residual = residual - p
      BY <1>4, <1>9
    <2>2. residual - p \in Nat /\ word + c \in Nat
      BY <1>2, <1>5, <1>9
    <2>3. 65536 * frac - (word + c) * den = left - c * den
      BY <1>6
    <2>4. left - c * den <= c * den
      BY <1>5, <1>6
    <2>5. left - c * den <= 65536 * (residual - p)
      BY <1>2, <1>5, <1>6, <1>7
    <2>6. left - c * den >= 65536 * (residual - p) - (slack + lost)
      BY <1>2, <1>5, <1>6, <1>7
    <2> QED BY <2>1, <2>2, <2>3, <2>4, <2>5, <2>6 DEF BitsFit, den, lost
  <1> QED BY <1>8, <1>9

\* What three rounds lose by rounding
Lost(w, k) ==
    (4 * k) * (Denominator % w) + (2 * k) * (Denominator % (2 * w)) + k * (Denominator % (4 * w))

\* Three rounds take it to an eighth.
LEMMA ThreeBitsFit ==
    ASSUME Ranges, NEW w \in Nat, w > 0, 4 * w <= 32768, NEW k \in Nat,
           (4 * k) * w = 65536, (2 * k) * (2 * w) = 65536, k * (4 * w) = 65536,
           65536 \div w = 4 * k, 65536 \div (2 * w) = 2 * k, 65536 \div (4 * w) = k,
           NEW frac \in Nat, NEW slack \in Nat, NEW s, BitsFit(s, frac, 8 * k, slack)
    PROVE  BitsFit(ThreeBits(s, w), frac, k, slack + Lost(w, k)) /\ slack + Lost(w, k) \in Nat
  <1> DEFINE one == slack + (4 * k) * (Denominator % w)
             two == one + (2 * k) * (Denominator % (2 * w))
             three == two + k * (Denominator % (4 * w))
             s1 == Bit(s, w)
             s2 == Bit(s1, 2 * w)
             s3 == Bit(s2, 4 * w)
  <1>1. Denominator \in Nat
    BY ReferenceFits
  <1>2. one \in Nat /\ BitsFit(s1, frac, 4 * k, one)
    <2>1. 2 * (4 * k) = 8 * k
      OBVIOUS
    <2>2. (4 * k) * (Denominator % w) \in Nat
      BY <1>1, PartRounded
    <2> QED BY <2>1, <2>2, BitFits
  <1> HIDE DEF one, s1
  <1>3. two \in Nat /\ BitsFit(s2, frac, 2 * k, two)
    <2>1. 2 * (2 * k) = 4 * k /\ 2 * w \in Nat /\ 2 * w > 0 /\ 2 * w <= 32768 /\ 2 * k \in Nat
      OBVIOUS
    <2>2. (2 * k) * (Denominator % (2 * w)) \in Nat
      BY <1>1, <2>1, PartRounded
    <2> QED BY <1>2, <2>1, <2>2, BitFits
  <1> HIDE DEF two, s2
  <1>4. three \in Nat /\ BitsFit(s3, frac, k, three)
    <2>1. 4 * w \in Nat /\ 4 * w > 0
      OBVIOUS
    <2>2. k * (Denominator % (4 * w)) \in Nat
      BY <1>1, <2>1, PartRounded
    <2> QED BY <1>3, <2>1, <2>2, BitFits
  <1>5. three = slack + Lost(w, k)
    <2>1. /\ (4 * k) * (Denominator % w) \in Int
          /\ (2 * k) * (Denominator % (2 * w)) \in Int
          /\ k * (Denominator % (4 * w)) \in Int
      BY <1>1
    <2> QED BY <2>1 DEF three, two, one, Lost
  <1>6. ThreeBits(s, w) = s3
    BY DEF ThreeBits, s1, s2
  <1> QED BY <1>4, <1>5, <1>6

\* What all fifteen lose: less than nine.
LEMMA AllLost ==
    ASSUME Ranges
    PROVE  Lost(2, 8192) + Lost(16, 1024) + Lost(128, 128) + Lost(1024, 16) + Lost(8192, 2) < 9 * 65536
  <1> DEFINE E(d) == (32768 * (d % 2) + 16384 * (d % 4) + 8192 * (d % 8))
                     + (4096 * (d % 16) + 2048 * (d % 32) + 1024 * (d % 64))
                     + (512 * (d % 128) + 256 * (d % 256) + 128 * (d % 512))
                     + (64 * (d % 1024) + 32 * (d % 2048) + 16 * (d % 4096))
                     + (8 * (d % 8192) + 4 * (d % 16384) + 2 * (d % 32768))
  <1>1. \A d \in {2 * ref : ref \in 28771..28828} : E(d) < 589824
    OBVIOUS
  <1>2. CorrectedRef \in 28771..28828
    BY ReferenceFits
  <1>3. Denominator \in {2 * ref : ref \in 28771..28828}
    BY <1>2 DEF Denominator
  <1>4. E(Denominator) < 589824
    BY <1>1, <1>3
  <1> QED BY <1>4, ReferenceFits DEF Lost

\* The word gives the fraction, down to two less than it and up to eight more.
LEMMA SdmFits ==
    ASSUME Ranges, NEW frac \in Nat, frac < Denominator
    PROVE  LET W == Sdm(frac)
           IN  /\ W \in Nat
               /\ 65536 * frac - W * Denominator <= 2 * Denominator
               /\ 65536 * frac - W * Denominator > -589824
  <1> DEFINE start == [word |-> 0, residual |-> frac]
             three == ThreeBits(start, 2)
             six == ThreeBits(three, 16)
             nine == ThreeBits(six, 128)
             twelve == ThreeBits(nine, 1024)
             last == ThreeBits(twelve, 8192)
             l3 == 0 + Lost(2, 8192)
             l6 == l3 + Lost(16, 1024)
             l9 == l6 + Lost(128, 128)
             l12 == l9 + Lost(1024, 16)
             l15 == l12 + Lost(8192, 2)
  <1>1. BitsFit(start, frac, 8 * 8192, 0)
    BY ReferenceFits DEF BitsFit
  <1> HIDE DEF start
  <1>2. BitsFit(three, frac, 8192, l3) /\ l3 \in Nat
    BY <1>1, ThreeBitsFit
  <1> HIDE DEF three, l3
  <1>3. BitsFit(six, frac, 1024, l6) /\ l6 \in Nat
    BY <1>2, ThreeBitsFit
  <1> HIDE DEF six, l6
  <1>4. BitsFit(nine, frac, 128, l9) /\ l9 \in Nat
    BY <1>3, ThreeBitsFit
  <1> HIDE DEF nine, l9
  <1>5. BitsFit(twelve, frac, 16, l12) /\ l12 \in Nat
    BY <1>4, ThreeBitsFit
  <1> HIDE DEF twelve, l12
  <1>6. BitsFit(last, frac, 2, l15) /\ l15 \in Nat
    BY <1>5, ThreeBitsFit
  <1> HIDE DEF last
  <1>7. l15 < 589824
    BY AllLost, ReferenceFits DEF l15, l12, l9, l6, l3, Lost
  <1> HIDE DEF l15
  <1>8. Sdm(frac) = last.word
    BY DEF Sdm, start, three, six, nine, twelve, last
  <1> DEFINE W == last.word
             residual == last.residual
  <1>9. /\ W \in Nat /\ residual \in Nat
        /\ 65536 * frac - W * Denominator <= 2 * Denominator
        /\ 65536 * frac - W * Denominator >= 65536 * residual - l15
    BY <1>6 DEF BitsFit
  <1> HIDE DEF W, residual
  <1>10. W * Denominator \in Int
    BY <1>9, ReferenceFits
  <1> QED BY <1>6, <1>7, <1>8, <1>9, <1>10, ReferenceFits DEF W

\* How the chip takes the word
Decoded(W) == (((W \div 256) * 2 * CorrectedRef) + ((W % 256) * 2 * CorrectedRef) \div 256) \div 256

\* So does what the chip makes of it.
LEMMA WordDecoded ==
    ASSUME Ranges, NEW frac \in Nat, frac < Denominator
    PROVE  /\ Decoded(Sdm(frac)) \in Int
           /\ Decoded(Sdm(frac)) <= frac + 8
           /\ Decoded(Sdm(frac)) >= frac - 2
  <1> DEFINE W == Sdm(frac)
             den == Denominator
             h == W \div 256
             l == W % 256
             x == l * den
             y == h * den
             z == x \div 256
             part == (y + z) \div 256
  <1>1. den \in Nat /\ den <= 57656 /\ CorrectedRef \in Nat /\ den = 2 * CorrectedRef
    BY ReferenceFits DEF Denominator
  <1> HIDE DEF den
  <1>2. W \in Nat /\ 65536 * frac - W * den <= 2 * den /\ 65536 * frac - W * den > -589824
    BY SdmFits DEF den
  <1> HIDE DEF W
  <1>3. h \in Nat /\ l \in Nat /\ W = 256 * h + l
    BY <1>2
  <1>4. Decoded(W) = part
    <2>1. h * 2 * CorrectedRef = h * den /\ l * 2 * CorrectedRef = l * den
      BY <1>1, <1>3
    <2> QED BY <2>1 DEF Decoded
  <1> HIDE DEF h, l
  <1>5. x \in Nat /\ y \in Nat /\ W * den = 256 * y + x
    <2>1. (256 * h + l) * den = 256 * (h * den) + l * den
      BY <1>1, <1>3
    <2> QED BY <1>1, <1>3, <2>1
  <1> HIDE DEF x, y
  <1>6. z \in Nat /\ 256 * z <= x /\ x < 256 * z + 256
    BY <1>5
  <1> HIDE DEF z
  <1>7. part \in Nat /\ 256 * part <= y + z /\ y + z < 256 * part + 256
    BY <1>5, <1>6
  <1> HIDE DEF part
  <1>8. 65536 * part <= W * den /\ W * den < 65536 * part + 65536
    BY <1>5, <1>6, <1>7
  <1>9. W * den \in Int
    BY <1>5
  <1> QED BY <1>1, <1>2, <1>4, <1>7, <1>8, <1>9 DEF W

\* The window takes one divider at most for every LO, and one for every LO it can reach.
LEMMA Orders ==
    ASSUME NEW lo \in Nat
    PROVE  LET Fits(order) == lo * 2^order >= 1770000 /\ lo * 2^order < 3540000
           IN  /\ \A a, b \in 1..6 : Fits(a) /\ Fits(b) => a = b
               /\ lo * 64 < 1770000 \/ lo >= 1770000 \/ \E order \in 1..6 : Fits(order)
               /\ \A order \in 1..6 : lo * 2^order \in Nat
  <1> DEFINE Fits(order) == lo * 2^order >= 1770000 /\ lo * 2^order < 3540000
  <1>1. 2^1 = 2 /\ 2^2 = 4 /\ 2^3 = 8 /\ 2^4 = 16 /\ 2^5 = 32 /\ 2^6 = 64
    OBVIOUS
  <1>2. /\ Fits(1) <=> lo * 2 >= 1770000 /\ lo * 2 < 3540000
        /\ Fits(2) <=> lo * 4 >= 1770000 /\ lo * 4 < 3540000
        /\ Fits(3) <=> lo * 8 >= 1770000 /\ lo * 8 < 3540000
        /\ Fits(4) <=> lo * 16 >= 1770000 /\ lo * 16 < 3540000
        /\ Fits(5) <=> lo * 32 >= 1770000 /\ lo * 32 < 3540000
        /\ Fits(6) <=> lo * 64 >= 1770000 /\ lo * 64 < 3540000
    BY <1>1
  <1>3. \A order \in 1..6 : lo * 2^order \in Nat
    <2> DEFINE vco(order) == lo * 2^order
    <2>1. vco(1) \in Nat /\ vco(2) \in Nat /\ vco(3) \in Nat
      BY <1>1
    <2>2. vco(4) \in Nat /\ vco(5) \in Nat /\ vco(6) \in Nat
      BY <1>1
    <2> HIDE DEF vco
    <2>3. \A order \in 1..6 : vco(order) \in Nat
      BY <2>1, <2>2
    <2> QED BY <2>3, Zenon DEF vco
  <1> HIDE DEF Fits
  <1>4. \A a, b \in 1..6 : Fits(a) /\ Fits(b) => a = b
    BY <1>2
  <1>5. lo * 64 < 1770000 \/ lo >= 1770000 \/ \E order \in 1..6 : Fits(order)
    BY <1>2
  <1> QED BY <1>3, <1>4, <1>5 DEF Fits

\* A candidate: a divider, and the VCO frequency in terms of the reference
Candidate(c, vco) ==
    /\ c.n \in 30..61 /\ c.frac \in Nat /\ c.frac < Denominator
    /\ vco = Denominator * c.n + c.frac /\ vco % Denominator = c.frac

\* There is one candidate at most.
LEMMA CandidatesFit ==
    ASSUME Ranges, NEW lo \in Nat
    PROVE  /\ \A c \in Candidates(lo) :
                /\ c = [order |-> c.order, n |-> c.n, frac |-> c.frac]
                /\ c.order \in 1..6
                /\ lo * 2^c.order \in Nat
                /\ Candidate(c, lo * 2^c.order)
           /\ \A c, d \in Candidates(lo) : c = d
           /\ Candidates(lo) = {} => lo * 64 < 1770000 \/ lo >= 1770000
  <1> DEFINE vco(order) == lo * 2^order
             Fits(order) == vco(order) >= 1770000 /\ vco(order) < 3540000
             den == Denominator
             Made(order) == [order |-> order, n |-> vco(order) \div den, frac |-> vco(order) % den]
  <1>1. Candidates(lo) = {Made(order) : order \in {order \in 1..6 : Fits(order)}}
    BY DEF Candidates, Denominator
  <1>2. /\ \A a, b \in 1..6 : Fits(a) /\ Fits(b) => a = b
        /\ lo * 64 < 1770000 \/ lo >= 1770000 \/ \E order \in 1..6 : Fits(order)
        /\ \A order \in 1..6 : vco(order) \in Nat
    BY Orders
  <1>3. ASSUME NEW order \in 1..6, Fits(order)
        PROVE  Candidate(Made(order), vco(order))
    <2> DEFINE v == vco(order)
               n == v \div den
               frac == v % den
    <2>1. v \in Nat /\ v >= 1770000 /\ v < 3540000
      BY <1>2, <1>3
    <2> HIDE DEF v
    <2>2. den \in Nat /\ 57542 <= den /\ den <= 57656
      BY ReferenceFits
    <2> HIDE DEF den
    <2>3. n \in Nat /\ frac \in Nat /\ frac < den /\ v = den * n + frac
      BY <2>1, <2>2
    <2> HIDE DEF n, frac
    <2>4. n <= 61
      <3>1. SUFFICES ASSUME n >= 62
                     PROVE  FALSE
        BY <2>3
      <3>2. den * n >= den * 62
        BY <2>2, <2>3, <3>1
      <3>3. den * n \in Int
        BY <2>2, <2>3
      <3> QED BY <2>1, <2>2, <2>3, <3>2, <3>3
    <2>5. n >= 30
      <3>1. SUFFICES ASSUME n <= 29
                     PROVE  FALSE
        BY <2>3
      <3>2. den * n <= den * 29
        BY <2>2, <2>3, <3>1
      <3>3. den * n \in Int
        BY <2>2, <2>3
      <3> QED BY <2>1, <2>2, <2>3, <3>2, <3>3
    <2>6. n \in 30..61
      BY <2>3, <2>4, <2>5
    <2> QED BY <2>3, <2>6 DEF Candidate, n, frac, v, den
  <1> HIDE DEF Fits, vco
  <1>4. ASSUME NEW c \in Candidates(lo)
        PROVE  /\ c = [order |-> c.order, n |-> c.n, frac |-> c.frac]
               /\ c.order \in 1..6
               /\ vco(c.order) \in Nat
               /\ Candidate(c, vco(c.order))
    <2>1. PICK order \in 1..6 : Fits(order) /\ c = Made(order)
      BY <1>1
    <2>2. c.order = order
      BY <2>1
    <2> QED BY <1>2, <1>3, <2>1, <2>2
  <1>5. ASSUME NEW c \in Candidates(lo), NEW d \in Candidates(lo)
        PROVE  c = d
    <2>1. PICK a \in 1..6 : Fits(a) /\ c = Made(a)
      BY <1>1
    <2>2. PICK b \in 1..6 : Fits(b) /\ d = Made(b)
      BY <1>1
    <2> QED BY <1>2, <2>1, <2>2
  <1>6. Candidates(lo) = {} => lo * 64 < 1770000 \/ lo >= 1770000
    <2>1. ASSUME NEW order \in 1..6, Fits(order)
          PROVE  Candidates(lo) # {}
      <3>1. order \in {k \in 1..6 : Fits(k)}
        BY <2>1
      <3>2. Made(order) \in Candidates(lo)
        BY <1>1, <3>1
      <3> QED BY <3>2
    <2> QED BY <1>2, <2>1
  <1> QED BY <1>4, <1>5, <1>6 DEF vco

\* Near which multiples of the reference the fraction is moved, and how far.
LEMMA NormalizedFits ==
    ASSUME Ranges, NEW c, c = [order |-> c.order, n |-> c.n, frac |-> c.frac],
           c.n \in 30..61, c.frac \in Nat, c.frac < Denominator
    PROVE  LET x == Normalized(c)
               ref == CorrectedRef
           IN  /\ x.order = c.order /\ x.n \in 30..62 /\ x.frac \in Nat /\ x.frac < Denominator
               /\ \/ x.n = c.n /\ x.frac = c.frac
                  \/ x.n = c.n /\ x.frac = 0 /\ c.frac <= ref \div 64
                  \/ x.n = c.n + 1 /\ x.frac = 0 /\ 2 * ref - c.frac <= ref \div 64 + 1
                     /\ 2 * ref - c.frac - 8 <= ref \div 64
                  \/ x.n = c.n /\ Distance(c.frac, ref) <= ref \div 64
                     /\ Distance(x.frac, c.frac) + 8 <= ref \div 64
  <1> DEFINE ref == CorrectedRef
             below == (ref * 127) \div 128
             above == (ref * 129) \div 128
             frac == c.frac
  <1>1. ref \in Nat /\ 28771 <= ref /\ ref <= 28828 /\ Denominator = 2 * ref
    BY ReferenceFits DEF Denominator
  <1>2. /\ ref \div 64 \in {449, 450}
        /\ below \in Nat /\ below < ref /\ ref - below <= 226
        /\ above \in Nat /\ above > ref /\ above - ref <= 226
        /\ (ref * 127) \div 64 \in Nat /\ 2 * ref - (ref * 127) \div 64 <= 451
        /\ 2 * ref - (ref * 127) \div 64 <= ref \div 64 + 1
    BY <1>1
  <1> HIDE DEF ref, below, above
  <1>3. CASE frac < ref \div 64
    <2>1. Normalized(c) = [c EXCEPT !.frac = 0]
      BY <1>1, <1>2, <1>3 DEF Normalized, ref
    <2>2. Normalized(c).order = c.order /\ Normalized(c).n = c.n /\ Normalized(c).frac = 0
      BY <2>1
    <2> QED BY <1>1, <1>2, <1>3, <2>2 DEF ref
  <1>4. CASE frac > (ref * 127) \div 64
    <2>1. Normalized(c) = [c EXCEPT !.frac = 0, !.n = @ + 1]
      BY <1>1, <1>2, <1>4 DEF Normalized, ref
    <2>2. Normalized(c).order = c.order /\ Normalized(c).n = c.n + 1 /\ Normalized(c).frac = 0
      BY <2>1
    <2> QED BY <1>1, <1>2, <1>4, <2>2 DEF ref
  <1>5. CASE frac > below /\ frac < ref
    <2>1. Normalized(c) = [c EXCEPT !.frac = below]
      BY <1>1, <1>2, <1>5 DEF Normalized, ref, below
    <2>2. Normalized(c).order = c.order /\ Normalized(c).n = c.n /\ Normalized(c).frac = below
      BY <2>1
    <2> QED BY <1>1, <1>2, <1>5, <2>2 DEF ref, Distance
  <1>6. CASE frac > ref /\ frac < above
    <2>1. Normalized(c) = [c EXCEPT !.frac = above]
      BY <1>1, <1>2, <1>6 DEF Normalized, ref, above
    <2>2. Normalized(c).order = c.order /\ Normalized(c).n = c.n /\ Normalized(c).frac = above
      BY <2>1
    <2> QED BY <1>1, <1>2, <1>6, <2>2 DEF ref, Distance
  <1>7. CASE ~(frac < ref \div 64) /\ ~(frac > (ref * 127) \div 64)
             /\ ~(frac > below /\ frac < ref) /\ ~(frac > ref /\ frac < above)
    <2>1. Normalized(c) = c
      BY <1>7 DEF Normalized, ref, below, above
    <2> QED BY <2>1
  <1> QED BY <1>3, <1>4, <1>5, <1>6, <1>7

\* The choice is among one.
LEMMA BestFits ==
    ASSUME Ranges, NEW lo \in Nat, Candidates(lo) # {}
    PROVE  \E c \in Candidates(lo) : Best({Normalized(d) : d \in Candidates(lo)}) = Normalized(c)
  <1>1. PICK c \in Candidates(lo) : TRUE
    OBVIOUS
  <1> DEFINE x == Normalized(c)
             S == {Normalized(d) : d \in Candidates(lo)}
  <1>2. S = {x}
    BY CandidatesFit
  <1>3. x.order \in 1..6
    BY <1>1, CandidatesFit, NormalizedFits DEF Candidate
  <1> HIDE DEF x, S
  <1>4. Best({x}) = x
    BY <1>3 DEF Best
  <1> QED BY <1>2, <1>4 DEF x, S

\* The fields give divider, integer and fraction back.
LEMMA PackedFits ==
    ASSUME Ranges, NEW x, x.order \in 1..6, x.n \in 30..62, x.frac \in Nat, x.frac < Denominator
    PROVE  LET pll == Packed(x)
           IN  /\ pll.div_field = x.order - 1
               /\ 13 + 4 * (pll.ni_si % 64) + pll.ni_si \div 64 = x.n
               /\ Decoded(pll.sdm) \in Int
               /\ Decoded(pll.sdm) <= x.frac + 8 /\ Decoded(pll.sdm) >= x.frac - 2
               /\ x.frac = 0 => Decoded(pll.sdm) = 0
  <1> DEFINE ni == ((x.n - 13) \div 4) % 256
             si == (x.n - 4 * ni - 13) % 256
             pll == Packed(x)
  <1>1. /\ pll.div_field = x.order - 1
        /\ pll.ni_si = ni + ((64 * si) % 256)
        /\ pll.sdm = IF x.frac = 0 THEN 0 ELSE Sdm(x.frac)
    BY DEF Packed
  <1>2. 13 + 4 * (pll.ni_si % 64) + pll.ni_si \div 64 = x.n
    <2>1. ni \in 4..12 /\ si \in 0..3 /\ x.n = 13 + 4 * ni + si
      OBVIOUS
    <2> HIDE DEF ni, si
    <2>2. (64 * si) % 256 = 64 * si
      BY <2>1
    <2>3. (ni + 64 * si) % 64 = ni /\ (ni + 64 * si) \div 64 = si
      BY <2>1
    <2> QED BY <1>1, <2>1, <2>2, <2>3
  <1> HIDE DEF pll
  <1>3. CASE x.frac = 0
    <2>1. Decoded(0) = 0
      <3>1. 0 \div 256 = 0 /\ 0 % 256 = 0
        OBVIOUS
      <3>2. 0 * 2 * CorrectedRef = 0
        BY ReferenceFits
      <3> QED BY <3>1, <3>2 DEF Decoded
    <2> QED BY <1>1, <1>2, <1>3, <2>1 DEF pll
  <1>4. CASE x.frac # 0
    BY <1>1, <1>2, <1>4, WordDecoded DEF pll
  <1> QED BY <1>3, <1>4

\* What the detours make of n + frac / (2 * ref): k + f / (2 * ref)
Moved(ref, n, frac, k, f) ==
    \/ k = n /\ f = frac
    \/ k = n /\ f = 0 /\ frac <= ref \div 64
    \/ k = n + 1 /\ f = 0 /\ 2 * ref - frac <= ref \div 64 + 1
    \/ k = n /\ Distance(frac, ref) <= ref \div 64 /\ Distance(f, frac) + 8 <= ref \div 64

\* A ratio of which only the fraction was moved off a spur, or rounded at one, is off by
\* what the spur is wide.
LEMMA SpursMissed ==
    ASSUME NEW ref \in Nat, NEW n \in Nat, NEW frac \in Nat, frac < 2 * ref,
           NEW k \in Nat, NEW f \in Nat, Moved(ref, n, frac, k, f),
           NEW part \in Int, part <= f + 8, part >= f - 2, f = 0 => part = 0
    PROVE  Distance(2 * ref * k + part, 2 * ref * n + frac)
             <= IF \E spur \in {0, ref, 2 * ref} : Distance(frac, spur) <= ref \div 64 + 1
                THEN ref \div 64 + 8 ELSE 8
  <1> DEFINE whole == 2 * ref * n
             step == ref \div 64
             near_spur == \E spur \in {0, ref, 2 * ref} : Distance(frac, spur) <= step + 1
  <1>1. whole \in Nat /\ step \in Nat
    OBVIOUS
  <1>2. 2 * ref * (n + 1) = whole + 2 * ref
    OBVIOUS
  <1> HIDE DEF whole, step
  <1> DEFINE off == Distance(2 * ref * k + part, whole + frac)
  <1>3. CASE k = n /\ f = frac
    <2>1. 2 * ref * k = whole
      BY <1>3 DEF whole
    <2>2. off <= 8 /\ off \in Int
      BY <1>1, <1>3, <2>1 DEF Distance
    <2> HIDE DEF off
    <2>3. off <= IF near_spur THEN step + 8 ELSE 8
      BY <1>1, <2>2
    <2> QED BY <2>3 DEF off, whole, step
  <1>4. CASE k = n /\ f = 0 /\ frac <= step
    <2>1. 2 * ref * k = whole
      BY <1>4 DEF whole
    <2>2. off <= step + 8
      BY <1>1, <1>4, <2>1 DEF Distance
    <2>3. Distance(frac, 0) <= step + 1
      BY <1>1, <1>4 DEF Distance
    <2>4. near_spur
      BY <2>3
    <2> QED BY <2>2, <2>4 DEF whole, step
  <1>5. CASE k = n + 1 /\ f = 0 /\ 2 * ref - frac <= step + 1
    <2>1. 2 * ref * k = whole + 2 * ref
      BY <1>2, <1>5
    <2>2. off <= step + 8
      BY <1>1, <1>5, <2>1 DEF Distance
    <2>3. Distance(frac, 2 * ref) <= step + 1
      BY <1>1, <1>5 DEF Distance
    <2>4. near_spur
      BY <2>3
    <2> QED BY <2>2, <2>4 DEF whole, step
  <1>6. CASE k = n /\ Distance(frac, ref) <= step /\ Distance(f, frac) + 8 <= step
    <2>1. 2 * ref * k = whole
      BY <1>6 DEF whole
    <2>2. off <= step + 8
      BY <1>1, <1>6, <2>1 DEF Distance
    <2>3. Distance(frac, ref) <= step + 1
      BY <1>1, <1>6 DEF Distance
    <2>4. near_spur
      BY <2>3
    <2> QED BY <2>2, <2>4 DEF whole, step
  <1> QED BY <1>3, <1>4, <1>5, <1>6 DEF Moved, step

\* The answer of the R820T's PLL.
LEMMA PllHit ==
    ASSUME Ranges, NEW lo \in Nat, Candidates(lo) # {}
    PROVE  PllMakes(Packed(Best({Normalized(c) : c \in Candidates(lo)})), lo)
  <1> DEFINE pll == Packed(Best({Normalized(c) : c \in Candidates(lo)}))
             ref == CorrectedRef
             den == Denominator
             target == lo * 2^(pll.div_field + 1)
             n == 13 + 4 * (pll.ni_si % 64) + pll.ni_si \div 64
             part == Decoded(pll.sdm)
             near_spur == \E spur \in {0, ref, 2 * ref} : Distance(target % (2 * ref), spur) <= ref \div 64 + 1
  <1>1. PICK c \in Candidates(lo) : Best({Normalized(d) : d \in Candidates(lo)}) = Normalized(c)
    BY BestFits, Zenon
  <1> DEFINE x == Normalized(c)
             vco == lo * 2^c.order
  <1>2. /\ c = [order |-> c.order, n |-> c.n, frac |-> c.frac]
        /\ c.order \in 1..6 /\ vco \in Nat
        /\ c.n \in 30..61 /\ c.frac \in Nat /\ c.frac < den
        /\ vco = den * c.n + c.frac /\ vco % den = c.frac
    BY CandidatesFit DEF Candidate
  <1>3. /\ x.order = c.order /\ x.n \in 30..62 /\ x.frac \in Nat /\ x.frac < den
        /\ \/ x.n = c.n /\ x.frac = c.frac
           \/ x.n = c.n /\ x.frac = 0 /\ c.frac <= ref \div 64
           \/ x.n = c.n + 1 /\ x.frac = 0 /\ 2 * ref - c.frac <= ref \div 64 + 1
           \/ x.n = c.n /\ Distance(c.frac, ref) <= ref \div 64
              /\ Distance(x.frac, c.frac) + 8 <= ref \div 64
    BY <1>2, NormalizedFits
  <1>4. pll = Packed(x)
    BY <1>1
  <1> HIDE DEF x, pll
  <1>5. /\ pll.div_field = c.order - 1
        /\ n = x.n
        /\ part \in Int /\ part <= x.frac + 8 /\ part >= x.frac - 2
        /\ x.frac = 0 => part = 0
    BY <1>2, <1>3, <1>4, PackedFits
  <1>6. pll.div_field + 1 = c.order /\ pll.div_field \in 0..5
    BY <1>2, <1>5
  <1>7. target = vco
    BY <1>6, Zenon
  <1> HIDE DEF vco, target, n, part
  <1>8. ref \in Nat /\ den = 2 * ref
    BY ReferenceFits DEF Denominator
  <1> HIDE DEF ref, den
  <1>9. target % (2 * ref) = c.frac /\ target = 2 * ref * c.n + c.frac
    BY <1>2, <1>7, <1>8
  <1>10. Distance(2 * ref * x.n + part, 2 * ref * c.n + c.frac)
          <= IF \E spur \in {0, ref, 2 * ref} : Distance(c.frac, spur) <= ref \div 64 + 1
             THEN ref \div 64 + 8 ELSE 8
    <2>1. Moved(ref, c.n, c.frac, x.n, x.frac)
      BY <1>3 DEF Moved, ref
    <2>2. c.n \in Nat /\ x.n \in Nat /\ c.frac < 2 * ref
      BY <1>2, <1>3, <1>8
    <2> HIDE DEF ref
    <2> QED BY <1>2, <1>3, <1>5, <1>8, <2>1, <2>2, SpursMissed, Zenon
  <1>11. Distance(2 * ref * n + part, target) <= IF near_spur THEN ref \div 64 + 8 ELSE 8
    BY <1>5, <1>9, <1>10
  <1> QED BY <1>6, <1>11 DEF PllMakes, pll, ref, target, n, part, Decoded, near_spur

-----------------------------------------------------------------------------
(* The invariant, and the steps that answer.                               *)

\* An answer is only given where there is none.
LEMMA Answers ==
    ASSUME [Next]_vars
    PROVE  \/ UNCHANGED vars
           \/ answer' = Idle
           \/ \E rate \in Rates : SetSampleRate(rate)
           \/ \E freq \in R820tFreqs : TuneR820t(freq)
           \/ \E freq \in Fc0012Freqs : TuneFc0012(freq)
  <1>1. ASSUME NEW ppm \in Ppms, SetFreqCorrection(ppm)
        PROVE  answer' = Idle
    BY <1>1 DEF SetFreqCorrection
  <1>2. Return => answer' = Idle
    BY DEF Return
  <1> QED BY <1>1, <1>2 DEF Next

\* What a rate in the range gets: an IF, if any, that is one.
LEMMA RateRecorded ==
    ASSUME Ranges, NEW rate \in Nat, 225000 <= rate, rate <= 3200000,
           Effective(Ratio(rate)) # 0
    PROVE  LET recorded == Scaled(CorrectedXtal, Effective(Ratio(rate)))
           IN  recorded \in Nat /\ recorded \div 1000 \in Nat
  <1> DEFINE e == Effective(Ratio(rate))
             recorded == Scaled(CorrectedXtal, e)
  <1>1. CorrectedXtal \in Nat /\ e \in Nat /\ e > 0
    BY RatioTaken
  <1> HIDE DEF e
  <1>2. recorded \in Nat
    BY <1>1, ScaledDivides DEF ScaledBy
  <1> HIDE DEF recorded
  <1>3. recorded \div 1000 \in Nat
    BY <1>2
  <1> QED BY <1>2, <1>3 DEF recorded, e

\* The correction and the IF keep their ranges.
LEMMA RangesStep ==
    ASSUME Ranges, [Next]_vars
    PROVE  Ranges'
  <1>1. ASSUME NEW ppm \in Ppms, SetFreqCorrection(ppm)
        PROVE  Ranges'
    BY <1>1, TuningAssumption DEF TuningAssumption, SetFreqCorrection, Ranges
  <1>2. ASSUME NEW rate \in Rates, SetSampleRate(rate)
        PROVE  Ranges'
    <2> DEFINE bw == Scaled(CorrectedXtal, Effective(Ratio(rate))) \div 1000
    <2>1. rate \in Nat
      BY TuningAssumption DEF TuningAssumption
    <2>2. \/ if_khz' = if_khz
          \/ /\ rate >= 225000 /\ rate <= 3200000 /\ Effective(Ratio(rate)) # 0
             /\ if_khz' = Filter(bw).if
      BY <1>2, <2>1 DEF SetSampleRate
    <2>3. if_khz' \in Nat
      <3>1. CASE if_khz' = if_khz
        BY <3>1 DEF Ranges
      <3>2. CASE /\ rate >= 225000 /\ rate <= 3200000 /\ Effective(Ratio(rate)) # 0
                 /\ if_khz' = Filter(bw).if
        <4>1. bw \in Nat
          BY <2>1, <3>2, RateRecorded
        <4> HIDE DEF bw
        <4> QED BY <3>2, <4>1, FilterCovers
      <3> QED BY <2>2, <3>1, <3>2
    <2> QED BY <1>2, <2>3 DEF SetSampleRate, Ranges
  <1>3. ASSUME \/ UNCHANGED vars
               \/ Return
               \/ \E freq \in R820tFreqs : TuneR820t(freq)
               \/ \E freq \in Fc0012Freqs : TuneFc0012(freq)
        PROVE  Ranges'
    <2>1. /\ UNCHANGED vars => UNCHANGED <<freq_offset_ppm, if_khz>>
          /\ Return => UNCHANGED <<freq_offset_ppm, if_khz>>
      BY DEF vars, Return
    <2>2. ASSUME NEW freq, TuneR820t(freq)
          PROVE  UNCHANGED <<freq_offset_ppm, if_khz>>
      BY <2>2 DEF TuneR820t
    <2>3. ASSUME NEW freq, TuneFc0012(freq)
          PROVE  UNCHANGED <<freq_offset_ppm, if_khz>>
      BY <2>3 DEF TuneFc0012
    <2>4. UNCHANGED <<freq_offset_ppm, if_khz>>
      BY <1>3, <2>1, <2>2, <2>3
    <2> QED BY <2>4 DEF Ranges
  <1> QED BY <1>1, <1>2, <1>3 DEF Next

\* They start in them.
LEMMA RangesInit == Init => Ranges
  BY DEF Init, Ranges

-----------------------------------------------------------------------------
(* The properties.                                                         *)

\* While there is no answer nothing is claimed.
LEMMA NothingClaimed ==
    ASSUME answer = Idle
    PROVE  RateAsRequested /\ FilterCoversRate /\ PllHitsTarget /\ DividersHitTarget
  <1>1. answer.call = "none"
    BY DEF Idle
  <1> QED BY <1>1 DEF RateAsRequested, FilterCoversRate, PllHitsTarget, DividersHitTarget

\* What set_sample_rate answers.
LEMMA RateAnswer ==
    ASSUME Ranges, NEW rate \in Rates, SetSampleRate(rate)
    PROVE  (RateAsRequested /\ FilterCoversRate /\ PllHitsTarget /\ DividersHitTarget)'
  <1> DEFINE effective == Effective(Ratio(rate))
             recorded == Scaled(CorrectedXtal, effective)
             filter == Filter(recorded \div 1000)
             taken == rate >= 225000 /\ rate <= 3200000 /\ effective # 0
  <1>1. rate \in Nat
    BY TuningAssumption DEF TuningAssumption
  <1>2. \/ answer' = [call |-> "refused", rate |-> rate]
        \/ /\ rate >= 225000 /\ rate <= 3200000 /\ effective = 0
           /\ answer' = [call |-> "fault", rate |-> rate]
        \/ /\ taken /\ if_khz' = filter.if
           /\ answer' = [call |-> "wide", rate |-> rate, recorded |-> recorded, filter |-> filter]
        \/ taken /\ answer' = [call |-> "rate", rate |-> rate, recorded |-> recorded]
    BY <1>1 DEF SetSampleRate
  <1>3. CorrectedXtal' = CorrectedXtal /\ \A r : Expressible(r)' <=> Expressible(r)
    BY DEF SetSampleRate, CorrectedXtal, Expressible
  <1>4. (rate >= 225000 /\ rate <= 3200000 /\ Expressible(rate)) =>
          effective # 0 /\ recorded \in rate..rate+1
    BY <1>1, RateTaken
  <1>5. taken => recorded \div 1000 \in Nat
    BY <1>1, RateRecorded
  <1> HIDE DEF effective, recorded
  <1>6. RateAsRequested'
    BY <1>2, <1>3, <1>4 DEF RateAsRequested
  <1>7. FilterCoversRate'
    <2>1. CASE answer'.call # "wide"
      BY <2>1 DEF FilterCoversRate
    <2>2. CASE answer'.call = "wide"
      <3>1. /\ taken /\ if_khz' = filter.if
            /\ answer' = [call |-> "wide", rate |-> rate, recorded |-> recorded, filter |-> filter]
        BY <1>2, <2>2
      <3> DEFINE bw == recorded \div 1000
      <3>2. bw \in Nat
        BY <1>5, <3>1
      <3> HIDE DEF bw
      <3>3. filter.low_pass # 0 =>
              LET open == filter.width - LowPass[filter.low_pass]
              IN  /\ filter.width >= bw
                  /\ \A i \in 1..10 : LowPass[i] + open >= bw => LowPass[i] + open >= filter.width
                  /\ 2 * filter.if + filter.width \in 2 * (2300 + open)..2 * (2300 + open) + 1
        BY <3>2, FilterCovers DEF bw
      <3>4. answer'.filter = filter /\ answer'.recorded \div 1000 = bw
        BY <3>1 DEF bw
      <3> HIDE DEF filter
      <3> QED BY <3>1, <3>3, <3>4, Table DEF FilterCoversRate
    <2> QED BY <2>1, <2>2
  <1>8. PllHitsTarget' /\ DividersHitTarget'
    <2>1. answer'.call \in {"refused", "fault", "wide", "rate"}
      BY <1>2
    <2> QED BY <2>1 DEF PllHitsTarget, DividersHitTarget
  <1> QED BY <1>6, <1>7, <1>8

\* What tuning an R820T answers.
LEMMA R820tAnswer ==
    ASSUME Ranges, NEW freq \in R820tFreqs, TuneR820t(freq)
    PROVE  (RateAsRequested /\ FilterCoversRate /\ PllHitsTarget /\ DividersHitTarget)'
  <1> DEFINE lo == freq + if_khz
             pll == Packed(Best({Normalized(c) : c \in Candidates(lo)}))
  <1>1. lo \in Nat
    BY TuningAssumption DEF TuningAssumption, Ranges
  <1>2. \/ Candidates(lo) = {} /\ answer' = [call |-> "ERR_PLL", lo |-> lo]
        \/ Candidates(lo) # {} /\ answer' = [call |-> "r820t", lo |-> lo, pll |-> pll]
    BY DEF TuneR820t
  <1>3. CorrectedRef' = CorrectedRef
    BY DEF TuneR820t, CorrectedRef
  <1> HIDE DEF lo
  <1>4. Candidates(lo) = {} => lo * 64 < 1770000 \/ lo >= 1770000
    BY <1>1, CandidatesFit
  <1>5. PllHitsTarget'
    <2>1. CASE Candidates(lo) = {} /\ answer' = [call |-> "ERR_PLL", lo |-> lo]
      BY <1>4, <2>1 DEF PllHitsTarget
    <2>2. CASE Candidates(lo) # {} /\ answer' = [call |-> "r820t", lo |-> lo, pll |-> pll]
      <3>1. PllMakes(pll, lo)
        BY <1>1, <2>2, PllHit, Zenon
      <3> HIDE DEF pll
      <3>2. answer'.call = "r820t" /\ answer'.lo = lo /\ answer'.pll = pll
        BY <2>2
      <3>3. PllMakes(answer.pll, answer.lo)'
        BY <1>3, <3>1, <3>2 DEF PllMakes
      <3>4. answer'.call # "ERR_PLL"
        BY <3>2
      <3> QED BY <3>2, <3>3, <3>4 DEF PllHitsTarget
    <2> QED BY <1>2, <2>1, <2>2
  <1>6. RateAsRequested' /\ FilterCoversRate' /\ DividersHitTarget'
    <2>1. answer'.call \in {"ERR_PLL", "r820t"}
      BY <1>2
    <2> QED BY <2>1 DEF RateAsRequested, FilterCoversRate, DividersHitTarget
  <1> QED BY <1>5, <1>6

\* What tuning an FC0012 answers.
LEMMA Fc0012Answer ==
    ASSUME Ranges, NEW freq \in Fc0012Freqs, TuneFc0012(freq)
    PROVE  (RateAsRequested /\ FilterCoversRate /\ PllHitsTarget /\ DividersHitTarget)'
  <1> DEFINE vco == freq * Multiplier(freq)
             d == Decomposed(RawRatio(vco))
             frac == FracWord(vco)
  <1>1. freq \in Nat /\ freq <= 4290000
    BY TuningAssumption DEF TuningAssumption
  <1>2. \/ /\ Feasible(d)
           /\ answer' = [call |-> "fc0012", freq |-> freq, vco |-> vco, dividers |-> d, frac |-> frac]
        \/ ~Feasible(d) /\ answer' = [call |-> "ERR_PARAM", freq |-> freq]
    BY DEF TuneFc0012
  <1>3. /\ ~Feasible(d) => \/ freq * 4 * 2 >= HalfXtal * (2 * 263 + 1)
                           \/ freq * 96 * 2 < HalfXtal * (2 * 90 - 1)
        /\ (Feasible(d) /\ freq >= 225 /\ freq < 1812600) => DividersMake(d, frac, vco)
    BY <1>1, DividersHit
  <1> HIDE DEF vco, d, frac
  <1>4. DividersHitTarget'
    <2>1. CASE /\ Feasible(d)
               /\ answer' = [call |-> "fc0012", freq |-> freq, vco |-> vco, dividers |-> d, frac |-> frac]
      <3>1. /\ answer'.call = "fc0012" /\ answer'.freq = freq /\ answer'.vco = vco
            /\ answer'.dividers = d /\ answer'.frac = frac
        BY <2>1
      <3>2. answer'.call # "ERR_PARAM"
        BY <3>1
      <3>3. DividersMake(answer.dividers, answer.frac, answer.vco)' <=> DividersMake(d, frac, vco)
        BY <3>1 DEF DividersMake
      <3> QED BY <1>3, <2>1, <3>1, <3>2, <3>3 DEF DividersHitTarget
    <2>2. CASE ~Feasible(d) /\ answer' = [call |-> "ERR_PARAM", freq |-> freq]
      <3>1. answer'.call = "ERR_PARAM" /\ answer'.freq = freq /\ answer'.call # "fc0012"
        BY <2>2
      <3> QED BY <1>3, <2>2, <3>1 DEF DividersHitTarget
    <2> QED BY <1>2, <2>1, <2>2
  <1>5. RateAsRequested' /\ FilterCoversRate' /\ PllHitsTarget'
    <2>1. answer'.call \in {"fc0012", "ERR_PARAM"}
      BY <1>2
    <2> QED BY <2>1 DEF RateAsRequested, FilterCoversRate, PllHitsTarget
  <1> QED BY <1>4, <1>5

Properties == RateAsRequested /\ FilterCoversRate /\ PllHitsTarget /\ DividersHitTarget

\* An answer that was right stays so until it is taken back.
LEMMA AnswersStand ==
    ASSUME Ranges, Properties, [Next]_vars
    PROVE  Properties'
  <1>1. CASE UNCHANGED vars
    <2>1. answer' = answer /\ if_khz' = if_khz /\ CorrectedXtal' = CorrectedXtal /\ CorrectedRef' = CorrectedRef
      BY <1>1 DEF vars, CorrectedXtal, CorrectedRef
    <2>2. RateAsRequested'
      BY <2>1 DEF Properties, RateAsRequested, Expressible
    <2>3. FilterCoversRate'
      BY <2>1 DEF Properties, FilterCoversRate
    <2>4. PllMakes(answer.pll, answer.lo) => PllMakes(answer.pll, answer.lo)'
      BY <2>1 DEF PllMakes
    <2>5. DividersMake(answer.dividers, answer.frac, answer.vco)
          => DividersMake(answer.dividers, answer.frac, answer.vco)'
      BY <2>1 DEF DividersMake
    <2>6. PllHitsTarget'
      BY <2>1, <2>4 DEF Properties, PllHitsTarget
    <2>7. DividersHitTarget'
      BY <2>1, <2>5 DEF Properties, DividersHitTarget
    <2> QED BY <2>2, <2>3, <2>6, <2>7 DEF Properties
  <1>2. CASE answer' = Idle
    <2>1. answer'.call = "none"
      BY <1>2 DEF Idle
    <2> QED BY <2>1 DEF Properties, RateAsRequested, FilterCoversRate, PllHitsTarget, DividersHitTarget
  <1>3. CASE \E rate \in Rates : SetSampleRate(rate)
    BY <1>3, RateAnswer DEF Properties
  <1>4. CASE \E freq \in R820tFreqs : TuneR820t(freq)
    BY <1>4, R820tAnswer DEF Properties
  <1>5. CASE \E freq \in Fc0012Freqs : TuneFc0012(freq)
    BY <1>5, Fc0012Answer DEF Properties
  <1> QED BY <1>1, <1>2, <1>3, <1>4, <1>5, Answers

\* The invariant of the module.
LEMMA Answered == Spec => [](Ranges /\ Properties)
  <1>1. Init => Ranges /\ Properties
    <2>1. Init => answer = Idle
      BY DEF Init
    <2> QED BY <2>1, RangesInit, NothingClaimed DEF Properties
  <1>2. Ranges /\ Properties /\ [Next]_vars => (Ranges /\ Properties)'
    BY TuningAssumption, RangesStep, AnswersStand
  <1> QED BY <1>1, <1>2, PTL DEF Spec

\* What set_sample_rate records is the rate asked for or one more, at any rate the
\* register can express and under any correction.
THEOREM RatesAsRequested == Spec => []RateAsRequested
  <1>1. Ranges /\ Properties => RateAsRequested
    BY DEF Properties
  <1> QED BY <1>1, Answered, PTL

\* The filter of the R820T covers the recorded rate and is the narrowest that does.
THEOREM FiltersCoverRate == Spec => []FilterCoversRate
  <1>1. Ranges /\ Properties => FilterCoversRate
    BY DEF Properties
  <1> QED BY <1>1, Answered, PTL

\* The fields of the R820T's PLL give the LO asked for, or it is out of reach.
THEOREM PllsHitTarget == Spec => []PllHitsTarget
  <1>1. Ranges /\ Properties => PllHitsTarget
    BY DEF Properties
  <1> QED BY <1>1, Answered, PTL

\* So do those of the FC0012's.
THEOREM AllDividersHitTarget == Spec => []DividersHitTarget
  <1>1. Ranges /\ Properties => DividersHitTarget
    BY DEF Properties
  <1> QED BY <1>1, Answered, PTL
=============================================================================
