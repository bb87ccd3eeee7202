------------------------------- MODULE Fees --------------------------------
(***************************************************************************)
(* The arithmetic of a withdrawal (contract/mapping/unmapping.go): the     *)
(* protocol fee, the fee the input selection expects, the fee of the       *)
(* transaction that is built, and the split of the change.  Amounts are    *)
(* satoshis, sizes bytes, rates satoshis per vbyte.                        *)
(*                                                                         *)
(* The code computes in int64.  No amount here exceeds the 21 million      *)
(* bitcoins that exist, for which none of these sums and products comes    *)
(* near 2^63, so they are integers.                                        *)
(***************************************************************************)
EXTENDS Integers

DustThreshold == 546
SplitThreshold == 1000000
MaxChangeOutputs == 4
\* Mutant of MinFee: below the dust a withdrawal may leave to the miners.
MinFeeBelowDust == 500

MinFee == 1000
FeeRateBps == 100

\* Go's integer division rounds towards zero, TLA+'s downwards.
Quotient(a, b) == IF a >= 0 THEN a \div b ELSE -((-a) \div b)

----------------------------------------------------------------------------
\* The protocol fee: one percent, at least MinFee.

VscFee(amount) ==
    LET percentage == Quotient(amount * FeeRateBps, 10000)
    IN  IF percentage > MinFee THEN percentage ELSE MinFee

\* calcVscFee refuses an amount its own fee would consume.
CoversVscFee(amount) == VscFee(amount) < amount

----------------------------------------------------------------------------
\* Sizes.

\* The change outputs a transaction gets for what is left of its inputs.
NumChangeOutputs(totalChange) ==
    IF totalChange <= DustThreshold THEN 0
    ELSE IF totalChange \div SplitThreshold < 1 THEN 1
    ELSE IF totalChange \div SplitThreshold > MaxChangeOutputs
         THEN MaxChangeOutputs
    ELSE totalChange \div SplitThreshold

\* version, locktime and the two counts; outpoint, script length, sequence.
OverheadSize == 10
InputSize == 41
ChangeOutputSize == 43

\* The signature and the size markers that come with each witness script.
SignatureSize == 72 + 3

VirtualSize(baseSize, witnessSize) ==
    (baseSize * 3 + baseSize + witnessSize + 3) \div 4 + 2

----------------------------------------------------------------------------
\* The fee the input selection expects for numInputs inputs worth
\* inputAmount: every output and witness script is taken to be that of a
\* 43-byte output and a 68-byte script.

EstimatedScriptSize == 68

EstimateFee(numInputs, amount, inputAmount, rate) ==
    LET outputs == 1 + NumChangeOutputs(inputAmount - amount)
    IN  VirtualSize(
            OverheadSize + numInputs * InputSize + outputs * ChangeOutputSize,
            numInputs * (SignatureSize + EstimatedScriptSize)) * rate

----------------------------------------------------------------------------
\* The transaction that is built: numInputs inputs whose witness scripts take
\* scriptsSize bytes together, an output of destSize bytes for the receiver,
\* and the change.

SpendFee(numInputs, scriptsSize, destSize, totalChange, rate) ==
    VirtualSize(
        OverheadSize + numInputs * InputSize + destSize
            + NumChangeOutputs(totalChange) * ChangeOutputSize,
        numInputs * SignatureSize + scriptsSize) * rate

\* The amounts of the change outputs: equal parts of what the fee leaves,
\* the remainder of the division in the first.
ChangeAmounts(totalChange, fee) ==
    LET n == NumChangeOutputs(totalChange)
        each == Quotient(totalChange - fee, n)
    IN  [k \in 1..n |-> IF k = 1 THEN totalChange - fee - each * (n - 1)
                                 ELSE each]

=============================================================================
