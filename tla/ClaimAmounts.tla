---------------------------- MODULE ClaimAmounts ----------------------------
(***************************************************************************)
(* How much WEST a claim_overpay_init gets back: what the vault holds      *)
(* above the collateral of its debt, at the rates of the moment, rounded   *)
(* to the unit of 10^-8 WEST.  Quotients are kept exact, as a numerator    *)
(* and a denominator.  Between the answer and the payment on the chain the *)
(* vault, the rates and other claims move on.                              *)
(***************************************************************************)
EXTENDS Integers, Sequences

CONSTANTS FactorNum, FactorDen,  \* (1 - EAST_USDAP_PART) * EAST_WEST_COLLATERAL
          PegsUsdap,             \* EAST_USDAP_PART is not 0
          RateOne,               \* a rate of 1: rates are multiples of 1/RateOne
          Rates,                 \* the rates that occur
          AmountDen,             \* claims are given in units / AmountDen
          Claims, Supplies, Debts,  \* amounts that occur
          MaxWest,               \* bound: WEST in the vault
          MaxClaims              \* bound: claims, answered or not

\* The amount of a claim that gives none: NaN, below no number.
All == -1

ASSUME ClaimAssumption ==
    /\ FactorNum \in Nat /\ FactorDen \in Nat \ {0} /\ AmountDen \in Nat \ {0}
    /\ PegsUsdap \in BOOLEAN
    /\ RateOne \in Nat \ {0} /\ Rates \subseteq Nat \ {0}
    /\ Claims \subseteq Nat \cup {All} /\ Supplies \subseteq Nat
    /\ Debts \subseteq Nat \ {0}
    /\ MaxWest \in Nat /\ MaxClaims \in Nat

VARIABLES
    vault,    \* the vault on the node: WEST, and EAST owed
    rates,    \* the oracle's rates on the node
    claims,   \* calls of the blocks that are still to be handled
    payouts   \* atomics that are still to be mined

vars == <<vault, rates, claims, payouts>>

VaultState == [west : Nat, east : Nat]
RateState == [west : Rates, usdap : Rates]

TypeOK ==
    /\ vault \in VaultState /\ rates \in RateState
    /\ claims \in Seq(Claims)
    /\ payouts \in Seq([amount : Nat \ {0}, vault : VaultState, rates : RateState,
                        claim : Claims])

Init ==
    /\ vault \in [west : Supplies, east : Debts]
    /\ rates \in RateState
    /\ claims = <<>> /\ payouts = <<>>

-----------------------------------------------------------------------------
(* The amount.                                                             *)

\* The free WEST of a vault, FreeNum / FreeDen.
FreeDen(r) == FactorDen * r.west
FreeNum(v, r) ==
    v.west * FreeDen(r)
      - v.east * FactorNum * (IF PegsUsdap THEN r.usdap ELSE RateOne)

\* Mutated forms: every fraction is rounded up, or down.
RoundedUp(n, d) == (n + d - 1) \div d
RoundedDown(n, d) == n \div d

\* Math.round(n / d): halves go up.
Rounded(n, d) == (2 * n + d) \div (2 * d)

Returned(v, r, claim) ==
    IF claim # All /\ claim * FreeDen(r) < FreeNum(v, r) * AmountDen
      THEN Rounded(claim, AmountDen)
      ELSE Rounded(FreeNum(v, r), FreeDen(r))

-----------------------------------------------------------------------------
(* Claims, their answers and what happens around them.                     *)

Claim(amount) ==
    /\ Len(claims) + Len(payouts) < MaxClaims
    /\ claims' = Append(claims, amount)
    /\ UNCHANGED <<vault, rates, payouts>>

\* Mutated form: no claim is declined.
AnswerAlways ==
    /\ claims # <<>>
    /\ claims' = Tail(claims)
    /\ payouts' = Append(payouts, [amount |-> Returned(vault, rates, Head(claims)),
                     vault |-> vault, rates |-> rates, claim |-> Head(claims)])
    /\ UNCHANGED <<vault, rates>>

\* сlaimOverpayInit reads the vault and the rates of the node's last block;
\* without WEST to return the claim is declined.
Answer ==
    /\ claims # <<>>
    /\ claims' = Tail(claims)
    /\ LET amount == Returned(vault, rates, Head(claims))
       IN  payouts' = IF amount <= 0 THEN payouts
                      ELSE Append(payouts, [amount |-> amount, vault |-> vault,
                                            rates |-> rates, claim |-> Head(claims)])
    /\ UNCHANGED <<vault, rates>>

Without(i) == SubSeq(payouts, 1, i - 1) \o SubSeq(payouts, i + 1, Len(payouts))

\* The contract takes the payment from the vault, as far as it goes.
Pay(i) ==
    /\ payouts' = Without(i)
    /\ vault' = [vault EXCEPT !.west = IF @ >= payouts[i].amount
                                         THEN @ - payouts[i].amount ELSE @]
    /\ UNCHANGED <<rates, claims>>

Supply(n) ==
    /\ vault.west + n <= MaxWest
    /\ vault' = [vault EXCEPT !.west = @ + n]
    /\ UNCHANGED <<rates, claims, payouts>>

SetRates(r) == rates' = r /\ UNCHANGED <<vault, claims, payouts>>

SomeClaim == \E n \in Claims : Claim(n)
SomePay == \E i \in DOMAIN payouts : Pay(i)
SomeSupply == \E n \in Supplies : Supply(n)
SomeRates == \E r \in RateState : SetRates(r)

Next == SomeClaim \/ Answer \/ SomePay \/ SomeSupply \/ SomeRates

Spec == Init /\ [][Next]_vars

-----------------------------------------------------------------------------
(* A payment that meets the vault and the rates it was measured on leaves  *)
(* the collateral of the debt in the vault, but for less than one unit of  *)
(* rounding: so do claims that are answered one after the other, each      *)
(* after the payment of the one before.  (Two that wait in one block are   *)
(* both measured on the vault before the first payment: the second then    *)
(* meets another vault, and only the contract can refuse it.)              *)
Meets(p) == p.vault = vault /\ p.rates = rates

CollateralKept ==
    [][\A i \in DOMAIN payouts : Meets(payouts[i]) /\ Pay(i) =>
         2 * FreeNum(vault', rates) >= -FreeDen(rates)]_vars

(* No claim is short-changed: one for all of the free WEST leaves no more  *)
(* than half a unit of it, and any other is paid to within half a unit.    *)
ClaimsPaidInFull ==
    \A i \in DOMAIN payouts :
      LET p == payouts[i] IN
      \/ 2 * (FreeNum(p.vault, p.rates) - p.amount * FreeDen(p.rates))
           <= FreeDen(p.rates)
      \/ /\ p.claim # All
         /\ 2 * (p.claim - p.amount * AmountDen) <= AmountDen
=============================================================================
