------------------------------ MODULE VaultMath ------------------------------
(***************************************************************************)
(* The integer arithmetic the option program's handlers share.             *)
(*                                                                         *)
(* The Rust code multiplies in u128 and divides with truncation, and every *)
(* addition or subtraction is checked: an overflow reverts the whole       *)
(* transaction.  Quantities here are naturals; a checked subtraction is a  *)
(* guard of the action that performs it.                                   *)
(***************************************************************************)
EXTENDS Integers

\* checked_mul then checked_div, the pattern of every pro-rata computation.
MulDiv(a, b, c) == (a * b) \div c

\* u64::saturating_sub and checked_sub(..).unwrap_or(0).
SatSub(a, b) == IF a >= b THEN a - b ELSE 0

\* u64::min.
AtMost(a, b) == IF a <= b THEN a ELSE b

\* USDC a writer locks for one contract: the strike, for calls and puts alike.
CollateralPerContract(strike) == strike

\* Mutant: the payout is not capped.
UncappedIntrinsic(optionType, price, strike, cap) ==
    IF optionType = "Call" THEN SatSub(price, strike) ELSE SatSub(strike, price)

\* What one contract pays at a price, never more than its writer locked.
ExerciseCappedIntrinsic(optionType, price, strike, cap) ==
    AtMost(IF optionType = "Call" THEN SatSub(price, strike)
                                  ELSE SatSub(strike, price),
           cap)

\* Mutant: the basis of the fee is a thousandth.
FeePerMille(premium, feeBps) == MulDiv(premium, feeBps, 1000)

\* The protocol fee on a premium, in basis points, rounded down.
ProtocolFee(premium, feeBps) == MulDiv(premium, feeBps, 10000)
=============================================================================
