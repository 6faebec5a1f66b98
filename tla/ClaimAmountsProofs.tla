-------------------------- MODULE ClaimAmountsProofs --------------------------
(* The claims on free WEST, for any rates, amounts and numbers of claims.  *)
EXTENDS ClaimAmounts, TLAPS, SequenceTheorems

-----------------------------------------------------------------------------
(* Arithmetic.                                                             *)

(* The quotient and the remainder of a positive divisor.                   *)
LEMMA DivBounds ==
  ASSUME NEW a \in Int, NEW b \in Nat \ {0}
  PROVE  /\ a \div b \in Int
         /\ b * (a \div b) <= a
         /\ a < b * (a \div b) + b
  BY SMT

(* Math.round misses the quotient by at most a half.                       *)
LEMMA RoundedBounds ==
  ASSUME NEW n \in Int, NEW d \in Nat \ {0}
  PROVE  /\ Rounded(n, d) \in Int
         /\ 2 * (Rounded(n, d) * d) <= 2 * n + d
         /\ 2 * n <= 2 * (Rounded(n, d) * d) + d
  <1>1. /\ Rounded(n, d) \in Int
        /\ (2 * d) * Rounded(n, d) <= 2 * n + d
        /\ 2 * n + d < (2 * d) * Rounded(n, d) + 2 * d
    <2>1. 2 * d \in Nat \ {0} /\ 2 * n + d \in Int
      BY SMT
    <2> QED BY <2>1, DivBounds, Zenon DEF Rounded
  <1>2. (2 * d) * Rounded(n, d) = 2 * (Rounded(n, d) * d)
    BY <1>1, SMT
  <1> DEFINE p == Rounded(n, d) * d
  <1>3. p \in Int
    BY <1>1, SMT
  <1> HIDE DEF p
  <1>4. 2 * p <= 2 * n + d /\ 2 * n + d < 2 * p + 2 * d
    BY <1>1, <1>2, Zenon DEF p
  <1>5. 2 * p <= 2 * n + d /\ 2 * n <= 2 * p + d
    BY <1>3, <1>4, SMT
  <1> QED BY <1>1, <1>5, Zenon DEF p

(* A factor that both sides share may be dropped.                          *)
LEMMA Cancel ==
  ASSUME NEW a \in Int, NEW b \in Int, NEW k \in Nat \ {0}, k * a <= k * b
  PROVE  a <= b
  BY SMT

LEMMA FreeTypes ==
  ASSUME NEW v \in VaultState, NEW r \in RateState
  PROVE  FreeDen(r) \in Nat \ {0} /\ FreeNum(v, r) \in Int
  <1>1. /\ FactorDen \in Nat \ {0} /\ FactorNum \in Nat
        /\ RateOne \in Nat \ {0} /\ r.west \in Nat \ {0} /\ r.usdap \in Nat \ {0}
        /\ v.west \in Nat /\ v.east \in Nat
    <2>1. /\ FactorDen \in Nat \ {0} /\ FactorNum \in Nat
          /\ RateOne \in Nat \ {0} /\ Rates \subseteq Nat \ {0}
      BY ClaimAssumption
    <2>2. r.west \in Rates /\ r.usdap \in Rates /\ v.west \in Nat /\ v.east \in Nat
      BY Zenon DEF VaultState, RateState
    <2> QED BY <2>1, <2>2, Zenon
  <1>2. FactorDen * r.west \in Nat \ {0}
    BY <1>1, SMT
  <1>3. FreeDen(r) \in Nat \ {0}
    BY <1>2, Zenon DEF FreeDen
  <1> DEFINE u == IF PegsUsdap THEN r.usdap ELSE RateOne
  <1>4. u \in Nat
    BY <1>1, SMT
  <1>5. v.west * FreeDen(r) - v.east * FactorNum * u \in Int
    <2> HIDE DEF u
    <2> QED BY <1>1, <1>3, <1>4, SMT
  <1> QED BY <1>3, <1>5, Zenon DEF FreeNum

(* What is returned is within half a unit of the free WEST or below it,    *)
(* and within half a unit of the claim or of the free WEST.                *)
LEMMA ReturnedBounds ==
  ASSUME NEW v \in VaultState, NEW r \in RateState, NEW c \in Claims
  PROVE  /\ Returned(v, r, c) \in Int
         /\ 2 * (Returned(v, r, c) * FreeDen(r)) <= 2 * FreeNum(v, r) + FreeDen(r)
         /\ \/ 2 * (FreeNum(v, r) - Returned(v, r, c) * FreeDen(r)) <= FreeDen(r)
            \/ /\ c # All
               /\ 2 * (c - Returned(v, r, c) * AmountDen) <= AmountDen
  <1> DEFINE n == FreeNum(v, r)
             d == FreeDen(r)
             k == Returned(v, r, c)
  <1>1. n \in Int /\ d \in Nat \ {0}
    BY FreeTypes
  <1>2. AmountDen \in Nat \ {0}
    BY ClaimAssumption
  <1>3. CASE c # All /\ c * d < n * AmountDen
    <2>1. c \in Nat
      BY <1>3, ClaimAssumption, Zenon
    <2>2. k = Rounded(c, AmountDen)
      BY <1>3, Zenon DEF Returned
    <2>3. /\ k \in Int
          /\ 2 * (k * AmountDen) <= 2 * c + AmountDen
          /\ 2 * c <= 2 * (k * AmountDen) + AmountDen
      BY <1>2, <2>1, <2>2, RoundedBounds, SMT
    <2> HIDE DEF n, d, k
    <2>4. AmountDen * (2 * (k * d)) <= AmountDen * (2 * n + d)
      <3>1. d * (2 * (k * AmountDen)) <= d * (2 * c + AmountDen)
        BY <1>1, <1>2, <2>1, <2>3, SMT
      <3>2. d * (2 * c + AmountDen) = 2 * (c * d) + d * AmountDen
        BY <1>1, <1>2, <2>1, SMT
      <3>3. 2 * (c * d) + d * AmountDen <= 2 * (n * AmountDen) + d * AmountDen
        <4>1. c * d \in Int /\ n * AmountDen \in Int /\ d * AmountDen \in Int
          BY <1>1, <1>2, <2>1, SMT
        <4> QED BY <1>3, <4>1, SMT
      <3>4. 2 * (n * AmountDen) + d * AmountDen = AmountDen * (2 * n + d)
        BY <1>1, <1>2, SMT
      <3>5. d * (2 * (k * AmountDen)) = AmountDen * (2 * (k * d))
        BY <1>1, <1>2, <2>3, SMT
      <3> DEFINE x1 == d * (2 * (k * AmountDen))
                 x2 == d * (2 * c + AmountDen)
                 x3 == 2 * (c * d) + d * AmountDen
                 x4 == 2 * (n * AmountDen) + d * AmountDen
      <3>6. x1 \in Int /\ x2 \in Int /\ x3 \in Int /\ x4 \in Int
        BY <1>1, <1>2, <2>1, <2>3, SMT
      <3>7. x1 <= x2 /\ x2 = x3 /\ x3 <= x4
        BY <3>1, <3>2, <3>3
      <3>8. x1 <= x4
        <4> HIDE DEF x1, x2, x3, x4
        <4> QED BY <3>6, <3>7, SMT
      <3> QED BY <3>4, <3>5, <3>8, Zenon
    <2>5. 2 * (k * d) \in Int /\ 2 * n + d \in Int
      BY <1>1, <2>3, SMT
    <2>6. 2 * (k * d) <= 2 * n + d
      BY <1>2, <2>4, <2>5, Cancel
    <2>7. 2 * (c - k * AmountDen) <= AmountDen
      <3>1. k * AmountDen \in Int
        BY <1>2, <2>3, SMT
      <3> QED BY <1>2, <2>1, <2>3, <3>1, SMT
    <2> QED BY <1>3, <2>3, <2>6, <2>7, Zenon DEF n, d, k
  <1>4. CASE ~(c # All /\ c * d < n * AmountDen)
    <2>1. k = Rounded(n, d)
      BY <1>4, Zenon DEF Returned
    <2>2. /\ k \in Int
          /\ 2 * (k * d) <= 2 * n + d
          /\ 2 * n <= 2 * (k * d) + d
      <3> HIDE DEF n, d
      <3> QED BY <1>1, <2>1, RoundedBounds, Zenon
    <2> HIDE DEF n, d, k
    <2>3. 2 * (n - k * d) <= d
      <3>1. k * d \in Int
        BY <1>1, <2>2, SMT
      <3> QED BY <1>1, <2>2, <3>1, SMT
    <2> QED BY <2>2, <2>3, Zenon DEF n, d, k
  <1> QED BY <1>3, <1>4, Zenon

-----------------------------------------------------------------------------
(* The invariant: every payout is what its claim was worth when answered.  *)

Measured == \A i \in DOMAIN payouts :
              LET p == payouts[i] IN p.amount = Returned(p.vault, p.rates, p.claim)

CInv == TypeOK /\ Measured

Payout == [amount : Nat \ {0}, vault : VaultState, rates : RateState, claim : Claims]

(* The element at an index of a sequence.                                  *)
LEMMA ElementAt ==
  ASSUME NEW S, NEW s \in Seq(S), NEW i \in DOMAIN s
  PROVE  s[i] \in S
  BY ElementOfSeq, LenProperties

(* Dropping one payout leaves the others as they were.                     *)
LEMMA WithoutSome ==
  ASSUME NEW S, payouts \in Seq(S), NEW i \in DOMAIN payouts
  PROVE  /\ Without(i) \in Seq(S)
         /\ \A j \in DOMAIN Without(i) : \E k \in DOMAIN payouts :
              Without(i)[j] = payouts[k]
  <1> DEFINE R == {payouts[k] : k \in DOMAIN payouts}
             before == SubSeq(payouts, 1, i - 1)
             after == SubSeq(payouts, i + 1, Len(payouts))
  <1>1. Len(payouts) \in Nat /\ DOMAIN payouts = 1 .. Len(payouts)
    BY LenProperties
  <1>2. before \in Seq(R)
    <2>1. i - 1 \in Int /\ 1 .. (i - 1) \subseteq DOMAIN payouts
      BY <1>1, SMT
    <2>2. \A k \in 1 .. (i - 1) : payouts[k] \in R
      BY <2>1, Zenon
    <2> HIDE DEF R
    <2> QED BY <2>1, <2>2, SubSeqProperties
  <1>3. after \in Seq(R)
    <2>1. i + 1 \in Int /\ (i + 1) .. Len(payouts) \subseteq DOMAIN payouts
      BY <1>1, SMT
    <2>2. \A k \in (i + 1) .. Len(payouts) : payouts[k] \in R
      BY <2>1, Zenon
    <2> HIDE DEF R
    <2> QED BY <1>1, <2>1, <2>2, SubSeqProperties
  <1>4. Without(i) \in Seq(R)
    <2> HIDE DEF R, before, after
    <2>1. before \o after \in Seq(R)
      BY <1>2, <1>3, ConcatProperties
    <2> QED BY <2>1, Zenon DEF Without, before, after
  <1>5. R \subseteq S
    BY ElementAt, Zenon
  <1>6. \A j \in DOMAIN Without(i) : Without(i)[j] \in R
    <2> HIDE DEF R
    <2> QED BY <1>4, ElementAt, Zenon
  <1>7. Without(i) \in Seq(S)
    <2> HIDE DEF R
    <2> QED BY <1>4, <1>5, SeqMonotonic
  <1> QED BY <1>6, <1>7, Zenon

LEMMA CInvInit == Init => CInv
  <1> SUFFICES ASSUME Init PROVE CInv
    OBVIOUS
  <1>1. vault \in VaultState
    <2>1. vault \in [west : Supplies, east : Debts]
      BY Zenon DEF Init
    <2>2. Supplies \subseteq Nat /\ Debts \subseteq Nat
      BY ClaimAssumption, Zenon
    <2> QED BY <2>1, <2>2, Zenon DEF VaultState
  <1> QED BY <1>1, SMT DEF Init, CInv, TypeOK, Measured

LEMMA CInvNext == CInv /\ [Next]_vars => CInv'
  <1> SUFFICES ASSUME CInv, [Next]_vars PROVE CInv'
    OBVIOUS
  <1>0. /\ vault \in VaultState /\ rates \in RateState
        /\ claims \in Seq(Claims) /\ payouts \in Seq(Payout)
        /\ Measured
    BY Zenon DEF CInv, TypeOK, Payout
  <1>t. ASSUME vault' \in VaultState, rates' \in RateState,
               claims' \in Seq(Claims), payouts' \in Seq(Payout), Measured'
        PROVE  CInv'
    BY <1>t, Zenon DEF CInv, TypeOK, Payout
  <1>1. CASE SomeClaim
    <2>1. PICK amount \in Claims : Claim(amount)
      BY <1>1, Zenon DEF SomeClaim
    <2>2. claims' \in Seq(Claims) /\ UNCHANGED <<vault, rates, payouts>>
      BY <1>0, <2>1, SMT DEF Claim
    <2>3. Measured'
      BY <1>0, <2>2, Zenon DEF Measured
    <2> QED BY <1>0, <1>t, <2>2, <2>3, Zenon
  <1>2. CASE Answer
    <2> DEFINE c == Head(claims)
               amount == Returned(vault, rates, c)
               p == [amount |-> amount, vault |-> vault, rates |-> rates, claim |-> c]
    <2>1. c \in Claims /\ claims' \in Seq(Claims) /\ UNCHANGED <<vault, rates>>
      BY <1>0, <1>2, SMT DEF Answer
    <2>2. amount \in Int
      BY <1>0, <2>1, ReturnedBounds, Zenon
    <2>3. CASE amount <= 0
      <3>1. payouts' = payouts
        BY <1>2, <2>3, Zenon DEF Answer
      <3> QED BY <1>0, <1>t, <2>1, <3>1, Zenon DEF Measured
    <2>4. CASE ~(amount <= 0)
      <3>1. payouts' = Append(payouts, p)
        BY <1>2, <2>4, Zenon DEF Answer
      <3>2. amount \in Nat \ {0}
        <4> HIDE DEF amount
        <4> QED BY <2>2, <2>4, SMT
      <3>3. p \in Payout
        BY <1>0, <2>1, <3>2, Zenon DEF Payout
      <3>4. p.amount = Returned(p.vault, p.rates, p.claim)
        BY Zenon
      <3> HIDE DEF p
      <3>5. payouts' \in Seq(Payout)
        BY <1>0, <3>1, <3>3, SMT
      <3>6. \A j \in DOMAIN payouts' : payouts'[j] = p \/
              (j \in DOMAIN payouts /\ payouts'[j] = payouts[j])
        BY <1>0, <3>1, <3>3, SMT
      <3>7. Measured'
        BY <1>0, <3>4, <3>6, Zenon DEF Measured
      <3> QED BY <1>0, <1>t, <2>1, <3>5, <3>7, Zenon
    <2> QED BY <2>3, <2>4, Zenon
  <1>3. CASE SomePay
    <2>1. PICK i \in DOMAIN payouts : Pay(i)
      BY <1>3, Zenon DEF SomePay
    <2>2. payouts' = Without(i) /\ UNCHANGED <<rates, claims>>
      BY <2>1, Zenon DEF Pay
    <2>3. payouts' \in Seq(Payout)
      BY <1>0, <2>2, WithoutSome, Zenon
    <2>4. Measured'
      <3>1. \A j \in DOMAIN payouts' : \E k \in DOMAIN payouts : payouts'[j] = payouts[k]
        BY <1>0, <2>2, WithoutSome, Zenon
      <3> QED BY <1>0, <3>1, Zenon DEF Measured
    <2>5. vault' \in VaultState
      <3>1. payouts[i].amount \in Nat
        <4>1. payouts[i] \in Payout
          BY <1>0, ElementAt, Zenon
        <4> QED BY <4>1, Zenon DEF Payout
      <3>2. vault.west \in Nat /\ vault.east \in Nat
        BY <1>0, Zenon DEF VaultState
      <3>3. vault' = [vault EXCEPT !.west = IF vault.west >= payouts[i].amount
                         THEN vault.west - payouts[i].amount ELSE vault.west]
        BY <2>1, Zenon DEF Pay
      <3>4. (IF vault.west >= payouts[i].amount
               THEN vault.west - payouts[i].amount ELSE vault.west) \in Nat
        BY <3>1, <3>2, SMT
      <3> QED BY <1>0, <3>3, <3>4, Zenon DEF VaultState
    <2> QED BY <1>0, <1>t, <2>2, <2>3, <2>4, <2>5, Zenon
  <1>4. CASE SomeSupply
    <2>1. PICK n \in Supplies : Supply(n)
      BY <1>4, Zenon DEF SomeSupply
    <2>2. vault' \in VaultState /\ UNCHANGED <<rates, claims, payouts>>
      BY SMTT(30), <1>0, <2>1, ClaimAssumption, SMT DEF Supply, VaultState
    <2> QED BY <1>0, <1>t, <2>2, Zenon DEF Measured
  <1>5. CASE SomeRates
    <2>1. rates' \in RateState /\ UNCHANGED <<vault, claims, payouts>>
      BY <1>5, Zenon DEF SomeRates, SetRates
    <2> QED BY <1>0, <1>t, <2>1, Zenon DEF Measured
  <1>6. CASE UNCHANGED vars
    BY <1>0, <1>6, <1>t, Zenon DEF vars, Measured
  <1> QED BY <1>1, <1>2, <1>3, <1>4, <1>5, <1>6, Zenon DEF Next

LEMMA Invariant == Spec => []CInv
  BY CInvInit, CInvNext, PTL DEF Spec

(* Vault, rates and payouts keep their types: no atomic pays nothing or    *)
(* less, whatever is claimed.                                              *)
THEOREM TypeCorrect == Spec => []TypeOK
  <1>1. CInv => TypeOK
    BY Zenon DEF CInv
  <1> QED BY Invariant, <1>1, PTL

-----------------------------------------------------------------------------
(* The claims.                                                             *)

(* Each payout is within half a unit of the claim, or of the free WEST.    *)
THEOREM FullPayment == Spec => []ClaimsPaidInFull
  <1>1. CInv => ClaimsPaidInFull
    <2> SUFFICES ASSUME CInv, NEW i \in DOMAIN payouts
                 PROVE  LET p == payouts[i] IN
                        \/ 2 * (FreeNum(p.vault, p.rates) - p.amount * FreeDen(p.rates))
                             <= FreeDen(p.rates)
                        \/ /\ p.claim # All
                           /\ 2 * (p.claim - p.amount * AmountDen) <= AmountDen
      BY Zenon DEF ClaimsPaidInFull
    <2> DEFINE p == payouts[i]
    <2>1. p \in Payout
      BY ElementAt, Zenon DEF CInv, TypeOK, Payout
    <2>2. p.vault \in VaultState /\ p.rates \in RateState /\ p.claim \in Claims
      BY <2>1, Zenon DEF Payout
    <2>3. p.amount = Returned(p.vault, p.rates, p.claim)
      BY Zenon DEF CInv, Measured
    <2> QED BY <2>2, <2>3, ReturnedBounds, Zenon
  <1> QED BY Invariant, <1>1, PTL

(* A payment on the vault and at the rates it was measured by leaves the   *)
(* collateral in the vault, up to half a unit.                             *)
THEOREM KeptCollateral == Spec => CollateralKept
  <1> DEFINE Kept == \A i \in DOMAIN payouts : Meets(payouts[i]) /\ Pay(i) =>
                       2 * FreeNum(vault', rates) >= -FreeDen(rates)
  <1>1. CInv => Kept
    <2> SUFFICES ASSUME CInv, NEW i \in DOMAIN payouts, Meets(payouts[i]), Pay(i)
                 PROVE  2 * FreeNum(vault', rates) >= -FreeDen(rates)
      BY Zenon
    <2> DEFINE p == payouts[i]
               a == p.amount
               n == FreeNum(vault, rates)
               d == FreeDen(rates)
               m == FreeNum(vault', rates)
               debt == vault.east * FactorNum * (IF PegsUsdap THEN rates.usdap
                                                              ELSE RateOne)
    <2>1. p \in Payout /\ p.vault = vault /\ p.rates = rates
      BY ElementAt, Zenon DEF CInv, TypeOK, Payout, Meets
    <2>2. vault \in VaultState /\ rates \in RateState /\ p.claim \in Claims
          /\ a \in Nat \ {0}
      BY <2>1, Zenon DEF Payout
    <2>3. a = Returned(vault, rates, p.claim)
      BY <2>1, Zenon DEF CInv, Measured
    <2>4. 2 * (a * d) <= 2 * n + d
      BY <2>2, <2>3, ReturnedBounds, Zenon
    <2>5. n \in Int /\ d \in Nat \ {0}
      BY <2>2, FreeTypes, Zenon
    <2>6. n = vault.west * d - debt
      BY Zenon DEF FreeNum
    <2>7. vault.west \in Nat
      BY <2>2, Zenon DEF VaultState
    <2>8. debt \in Int
      <3>1. /\ vault.east \in Nat /\ FactorNum \in Nat /\ RateOne \in Nat
            /\ rates.usdap \in Nat
        <4>1. rates.usdap \in Rates /\ Rates \subseteq Nat \ {0}
          BY <2>2, ClaimAssumption, Zenon DEF RateState
        <4> QED BY <2>2, <4>1, ClaimAssumption, Zenon DEF VaultState
      <3> DEFINE u == IF PegsUsdap THEN rates.usdap ELSE RateOne
      <3>2. u \in Nat
        BY <3>1, Zenon
      <3>3. vault.east * FactorNum * u \in Int
        <4> HIDE DEF u
        <4> QED BY <3>1, <3>2, SMT
      <3> QED BY <3>3, Zenon
    <2>9. vault' = [vault EXCEPT !.west = IF vault.west >= a THEN vault.west - a
                                                             ELSE vault.west]
      BY Zenon DEF Pay
    <2>10. vault'.east = vault.east
           /\ vault'.west = IF vault.west >= a THEN vault.west - a ELSE vault.west
      BY <2>2, <2>9, Zenon DEF VaultState
    <2>11. m = vault'.west * d - debt
      BY <2>10, Zenon DEF FreeNum
    <2>12. CASE vault.west >= a
      <3>1. vault'.west = vault.west - a
        BY <2>10, <2>12, Zenon
      <3>2. m = (vault.west - a) * d - debt
        BY <2>11, <3>1, Zenon
      <3> HIDE DEF a, n, d, m, debt
      <3>3. m = n - a * d
        BY <2>2, <2>5, <2>6, <2>7, <2>8, <3>2, SMT
      <3>4. a * d \in Int
        BY <2>2, <2>5, SMT
      <3>5. 2 * m >= -d
        BY <2>4, <2>5, <3>3, <3>4, SMT
      <3> QED BY <3>5, Zenon DEF m, d
    <2>13. CASE ~(vault.west >= a)
      <3>1. m = n
        <4>1. vault'.west = vault.west
          BY <2>10, <2>13, Zenon
        <4> HIDE DEF n, d, m, debt
        <4> QED BY <2>6, <2>11, <4>1, Zenon
      <3> HIDE DEF a, n, d, m, debt
      <3>2. a * d >= d /\ a * d \in Int
        BY <2>2, <2>5, SMT
      <3>3. 2 * m >= -d
        BY <2>4, <2>5, <3>1, <3>2, SMT
      <3> QED BY <3>3, Zenon DEF m, d
    <2> QED BY <2>12, <2>13, Zenon
  <1>2. CInv => [Kept]_vars
    BY <1>1, Zenon
  <1> HIDE DEF Kept
  <1>3. Spec => [][Kept]_vars
    BY Invariant, <1>2, PTL DEF Spec
  <1> QED BY <1>3, Zenon DEF CollateralKept, Kept
=============================================================================
