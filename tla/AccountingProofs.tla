-------------------------- MODULE AccountingProofs --------------------------
(***************************************************************************)
(* Theorems about Accounting, for every value of its constants.            *)
(*                                                                         *)
(* The inductive invariant is the conjunction of TypeOK, the three safety  *)
(* invariants of the share ledger, and two facts the steps need: staking   *)
(* limits and the bad debt are dated in the past.  The first part of the   *)
(* module is about the helpers of Lido, the second has one lemma per step; *)
(* then come the limit on a report's rise of the rate, the withdrawal      *)
(* queue's shares, and the staking limit of StakeLimitWindow.              *)
(***************************************************************************)
EXTENDS StakeLimitWindow, SumTheorems, SequenceTheorems

\* The stake limit was stored in this block or an earlier one.
StakeLimitDated == stakeLimit.prevStakeBlockNumber <= block

\* The bad debt was last set aside in this frame or an earlier one.
BadDebtDated == badDebtToInternalize.refSlot <= refSlot

Inv ==
  /\ TypeOK
  /\ StakeLimitDated
  /\ BadDebtDated
  /\ SharesConserved
  /\ BurnerBacked
  /\ ExternalSharesOwned

-----------------------------------------------------------------------------
(* Lido's helpers.                                                         *)

LEMMA InternalAmounts ==
  ASSUME LidoTypeOK, externalShares < totalShares
  PROVE  InternalEther \in Nat /\ InternalShares \in Nat \ {0}
<1>1. /\ bufferedEther \in Nat /\ clBalance \in Nat /\ depositedValidators \in Nat
      /\ clValidators \in 0..depositedValidators /\ totalShares \in Nat
      /\ externalShares \in 0..totalShares
  BY DEF LidoTypeOK
<1>2. depositedValidators - clValidators \in Nat
  BY <1>1
<1>3. (depositedValidators - clValidators) * DepositSize \in Nat
  BY <1>2, LidoAssumption, ProductNat
<1>4. InternalEther \in Nat
  BY <1>1, <1>3 DEF InternalEther
<1>5. InternalShares \in Nat \ {0}
  BY <1>1 DEF InternalShares
<1> QED BY <1>4, <1>5

LEMMA Conversions ==
  ASSUME LidoTypeOK, externalShares < totalShares, NEW n \in Nat
  PROVE  /\ PooledEthByShares(n) \in Nat
         /\ InternalEther > 0 => SharesByPooledEth(n) \in Nat
<1>1. InternalEther \in Nat /\ InternalShares \in Nat \ {0}
  BY InternalAmounts
<1>2. n * InternalEther \in Nat /\ n * InternalShares \in Nat
  BY <1>1, ProductNat
<1>3. PooledEthByShares(n) \in Nat
  BY <1>1, <1>2, QuotientNat DEF PooledEthByShares
<1>4. InternalEther > 0 => SharesByPooledEth(n) \in Nat
  BY <1>1, <1>2, QuotientNat DEF SharesByPooledEth
<1> QED BY <1>3, <1>4

LEMMA CurrentLimitNat ==
  ASSUME LidoTypeOK, StakeLimitDated
  PROVE  CurrentStakeLimit \in Nat
<1> DEFINE prev  == stakeLimit.prevStakeLimit
           top   == stakeLimit.maxStakeLimit
           grows == stakeLimit.maxStakeLimitGrowthBlocks
           ago   == block - stakeLimit.prevStakeBlockNumber
           inc   == StakeLimitIncPerBlock
<1>1. prev \in Nat /\ top \in Nat /\ grows \in Nat /\ ago \in Nat
  BY DEF LidoTypeOK, StakeLimitData, StakeLimitDated
<1>2. inc \in Nat
  BY <1>1, QuotientNat DEF StakeLimitIncPerBlock
<1>3. CurrentStakeLimit = IF prev < top THEN Min({prev + ago * inc, top})
                                        ELSE Max({prev - ago * inc, top})
  BY DEF CurrentStakeLimit
<1> HIDE DEF prev, top, grows, ago, inc
<1> DEFINE change == ago * inc
<1>4. change \in Nat
  BY <1>1, <1>2, ProductNat
<1> HIDE DEF change
<1>5. Min({prev + change, top}) \in Nat
  <2> DEFINE most == prev + change
  <2>1. most \in Nat /\ most \in Int /\ top \in Int
    BY <1>1, <1>4
  <2> HIDE DEF most
  <2>2. Min({most, top}) \in {most, top}
    BY <2>1, MinOfTwo
  <2>3. Min({most, top}) \in Nat
    BY <1>1, <2>1, <2>2
  <2> QED BY <2>3 DEF most
<1>6. Max({prev - change, top}) \in Nat
  <2>1. prev - change \in Int
    BY <1>1, <1>4
  <2> DEFINE least == prev - change
  <2> HIDE DEF least
  <2>2. least \in Int /\ top \in Int
    BY <1>1, <2>1 DEF least
  <2>3. Max({least, top}) \in {least, top} /\ top <= Max({least, top})
    BY <2>2, MaxOfTwo
  <2>4. Max({least, top}) \in Nat
    BY <1>1, <2>2, <2>3
  <2> QED BY <2>4 DEF least
<1> QED BY <1>3, <1>5, <1>6 DEF change

\* A sum over the functions the ledger sums with.
LEMMA SharesSum ==
  MapThenSumSet(LAMBDA a : shares[a], Accounts) = SumOf(shares, Accounts)
BY DEF SumOf, MapThenSumSet, MapThenFoldSet

LEMMA TypeParts ==
  ASSUME Inv
  PROVE  /\ LidoTypeOK
         /\ shares \in [Accounts -> Nat]
         /\ totalShares \in Nat /\ externalShares \in Nat /\ externalShares < totalShares
         /\ bufferedEther \in Nat /\ clBalance \in Nat /\ depositedValidators \in Nat
         /\ clValidators \in Nat /\ clValidators <= depositedValidators
         /\ block \in Nat \ {0}
<1>1. LidoTypeOK
  BY DEF Inv, TypeOK
<1>2. externalShares < totalShares
  BY DEF Inv, SharesConserved
<1> QED BY <1>1, <1>2 DEF LidoTypeOK

LEMMA LedgerSum ==
  ASSUME Inv
  PROVE  SumOf(shares, Accounts) = totalShares
BY SharesSum DEF Inv, SharesConserved

-----------------------------------------------------------------------------
(* The share ledger through Lido's actions.                                *)

\* The part of the invariant that Lido's own actions concern.
LedgerOK == LidoTypeOK /\ StakeLimitDated /\ SharesConserved

LEMMA LedgerFrom ==
  ASSUME LidoTypeOK', StakeLimitDated', externalShares' < totalShares',
         SumOf(shares', Accounts) = totalShares'
  PROVE  LedgerOK'
<1>1. (MapThenSumSet(LAMBDA a : shares[a], Accounts) = totalShares)'
  BY SharesSum DEF SumOf, MapThenSumSet, MapThenFoldSet
<1> QED BY <1>1 DEF LedgerOK, SharesConserved

LEMMA OneChanges ==
  ASSUME NEW f, NEW g, NEW a \in Accounts, NEW d \in Int,
         \A x \in Accounts : f[x] \in Int /\ g[x] \in Int,
         g[a] = f[a] + d, \A x \in Accounts : x # a => g[x] = f[x]
  PROVE  SumOf(g, Accounts) = SumOf(f, Accounts) + d
<1>1. IsFiniteSet(Accounts)
  BY LidoAssumption
<1>2. SumOf(g, Accounts) = SumOf(f, Accounts) + g[a] - f[a]
  BY <1>1, SumChanges
<1>3. SumOf(f, Accounts) \in Int
  BY <1>1, SumIsInt
<1>4. f[a] \in Int
  OBVIOUS
<1> QED BY <1>2, <1>3, <1>4

\* A transfer, to oneself too, leaves the sum.
LEMMA LedgerTransfer ==
  ASSUME Inv, NEW from \in Accounts, NEW to \in Accounts, NEW n \in Nat,
         TransferShares(from, to, n)
  PROVE  /\ LedgerOK'
         /\ shares \in [Accounts -> Nat] /\ n <= shares[from]
         /\ \A a \in Accounts :
              shares'[a] = shares[a] - (IF a = from THEN n ELSE 0) + (IF a = to THEN n ELSE 0)
<1>1. shares \in [Accounts -> Nat] /\ n <= shares[from]
  BY TypeParts DEF TransferShares
<1>2. PICK f : f = [shares EXCEPT ![from] = @ - n]
  OBVIOUS
<1>3. /\ f \in [Accounts -> Nat] /\ f[from] = shares[from] - n
      /\ \A x \in Accounts : x # from => f[x] = shares[x]
  BY <1>1, <1>2
<1>4. SumOf(f, Accounts) = SumOf(shares, Accounts) - n
  <2>1. PICK d \in Int : d = -n /\ f[from] = shares[from] + d
    BY <1>1, <1>3
  <2>2. \A x \in Accounts : f[x] \in Int /\ shares[x] \in Int
    BY <1>1, <1>3
  <2>3. SumOf(f, Accounts) = SumOf(shares, Accounts) + d
    BY <1>3, <2>1, <2>2, OneChanges
  <2>4. SumOf(shares, Accounts) \in Nat
    BY LedgerSum, TypeParts
  <2> QED BY <2>1, <2>3, <2>4
<1>5. /\ shares' \in [Accounts -> Nat] /\ shares'[to] = f[to] + n
      /\ \A x \in Accounts : x # to => shares'[x] = f[x]
  <2>1. shares' = [f EXCEPT ![to] = @ + n]
    BY <1>2 DEF TransferShares
  <2> QED BY <1>3, <2>1
<1>20. SumOf(shares', Accounts) = SumOf(f, Accounts) + n
  <2>1. \A x \in Accounts : f[x] \in Int /\ shares'[x] \in Int
    BY <1>3, <1>5
  <2>2. n \in Int
    OBVIOUS
  <2> QED BY <1>5, <2>1, <2>2, OneChanges
<1>6. SumOf(shares', Accounts) = totalShares
  BY <1>4, <1>20, LedgerSum, TypeParts
<1>7. \A a \in Accounts :
        shares'[a] = shares[a] - (IF a = from THEN n ELSE 0) + (IF a = to THEN n ELSE 0)
  BY <1>1, <1>3, <1>5
<1>8. shares' \in [Accounts -> Nat]
  BY <1>5
<1>9. UNCHANGED <<totalShares, externalShares, etherVars, adminVars, stakeLimit, block>>
  BY DEF TransferShares
<1>10. LidoTypeOK' /\ StakeLimitDated' /\ externalShares' < totalShares'
  <2>1. LidoTypeOK /\ StakeLimitDated /\ externalShares < totalShares
    BY TypeParts DEF Inv
  <2> QED BY <1>8, <1>9, <2>1 DEF LidoTypeOK, StakeLimitDated, etherVars, adminVars
<1>11. SumOf(shares', Accounts) = totalShares'
  BY <1>6, <1>9
<1> QED BY <1>1, <1>7, <1>10, <1>11, LedgerFrom

LEMMA LedgerMint ==
  ASSUME Inv, NEW to \in Accounts, NEW n \in Nat, MintTo(to, n)
  PROVE  /\ shares' \in [Accounts -> Nat]
         /\ totalShares' = totalShares + n
         /\ SumOf(shares', Accounts) = totalShares'
         /\ \A a \in Accounts : shares'[a] = shares[a] + (IF a = to THEN n ELSE 0)
<1>1. shares \in [Accounts -> Nat] /\ totalShares \in Nat
  BY TypeParts
<1>2. /\ shares' \in [Accounts -> Nat] /\ shares'[to] = shares[to] + n
      /\ \A x \in Accounts : x # to => shares'[x] = shares[x]
      /\ totalShares' = totalShares + n
  BY <1>1 DEF MintTo
<1>3. SumOf(shares', Accounts) = SumOf(shares, Accounts) + n
  <2>1. n \in Int /\ \A x \in Accounts : shares[x] \in Int /\ shares'[x] \in Int
    BY <1>1, <1>2
  <2> QED BY <1>2, <2>1, OneChanges
<1>4. \A a \in Accounts : shares'[a] = shares[a] + (IF a = to THEN n ELSE 0)
  BY <1>1, <1>2
<1> QED BY <1>2, <1>3, <1>4, LedgerSum

LEMMA LimitStored ==
  ASSUME LidoTypeOK, NEW limit \in Nat, NEW s,
         s = UpdatePrevStakeLimit(limit) \/ s = stakeLimit,
         StakeLimitDated
  PROVE  s \in StakeLimitData /\ s.prevStakeBlockNumber <= block
<1>1. stakeLimit \in StakeLimitData /\ block \in Nat /\ stakeLimit.prevStakeBlockNumber <= block
  BY DEF LidoTypeOK, StakeLimitDated
<1>2. CASE s = UpdatePrevStakeLimit(limit)
  <2>1. s = [stakeLimit EXCEPT !.prevStakeLimit = limit, !.prevStakeBlockNumber = block]
    BY <1>2 DEF UpdatePrevStakeLimit
  <2>2. s \in StakeLimitData
    BY <1>1, <2>1 DEF StakeLimitData
  <2>3. s.prevStakeBlockNumber = block
    BY <1>1, <2>1 DEF StakeLimitData
  <2> QED BY <1>1, <2>2, <2>3
<1>3. CASE s = stakeLimit
  BY <1>1, <1>3
<1> QED BY <1>2, <1>3

LEMMA LimitDecreased ==
  ASSUME LidoTypeOK, StakeLimitDated, NEW amount \in Nat, DecreaseStakingLimit(amount)
  PROVE  stakeLimit' \in StakeLimitData /\ stakeLimit'.prevStakeBlockNumber <= block
<1>1. CurrentStakeLimit \in Nat
  BY CurrentLimitNat
<1>2. CASE IsStakingLimitSet
  <2>1. amount <= CurrentStakeLimit /\ stakeLimit' = UpdatePrevStakeLimit(CurrentStakeLimit - amount)
    BY <1>2 DEF DecreaseStakingLimit
  <2>2. CurrentStakeLimit - amount \in Nat
    BY <1>1, <2>1
  <2> QED BY <2>1, <2>2, LimitStored
<1>3. CASE ~IsStakingLimitSet
  BY <1>1, <1>3, LimitStored DEF DecreaseStakingLimit
<1> QED BY <1>2, <1>3

LEMMA LedgerSubmit ==
  ASSUME Inv, NEW sender \in Accounts, NEW value \in Nat, Submit(sender, value)
  PROVE  /\ LedgerOK'
         /\ \A a \in Accounts : shares[a] <= shares'[a]
<1> DEFINE n == SharesByPooledEth(value)
<1>1. n \in Nat
  BY TypeParts, Conversions DEF Submit
<1>2. MintTo(sender, n)
  BY DEF Submit
<1> HIDE DEF n
<1>3. /\ shares' \in [Accounts -> Nat] /\ totalShares' = totalShares + n
      /\ SumOf(shares', Accounts) = totalShares'
      /\ \A a \in Accounts : shares'[a] = shares[a] + (IF a = sender THEN n ELSE 0)
  BY <1>1, <1>2, LedgerMint
<1>4. stakeLimit' \in StakeLimitData /\ stakeLimit'.prevStakeBlockNumber <= block
  BY LimitDecreased DEF Submit, Inv, TypeOK
<1>5. /\ bufferedEther' = bufferedEther + value
      /\ UNCHANGED <<externalShares, depositedValidators, clBalance, clValidators,
                     adminVars, block>>
  BY DEF Submit
<1>6. LidoTypeOK' /\ StakeLimitDated' /\ externalShares' < totalShares'
  <2>1. LidoTypeOK /\ externalShares < totalShares
    BY TypeParts
  <2>2. totalShares' \in Nat /\ externalShares' \in 0..totalShares' /\ externalShares' < totalShares'
    BY <1>1, <1>3, <1>5, TypeParts
  <2>3. bufferedEther' \in Nat
    BY <1>5, TypeParts
  <2> QED BY <1>3, <1>4, <1>5, <2>1, <2>2, <2>3 DEF LidoTypeOK, StakeLimitDated, adminVars
<1>7. \A a \in Accounts : shares[a] <= shares'[a]
  BY <1>1, <1>3, TypeParts
<1> QED BY <1>3, <1>6, <1>7, LedgerFrom

LEMMA LedgerDeposit ==
  ASSUME Inv, NEW count \in Nat, NEW reserve \in Nat, Deposit(count, reserve)
  PROVE  LedgerOK' /\ shares' = shares
<1>1. /\ count * DepositSize <= bufferedEther - reserve
      /\ bufferedEther' = bufferedEther - count * DepositSize
      /\ depositedValidators' = depositedValidators + count
      /\ UNCHANGED <<shares, totalShares, externalShares, clBalance, clValidators,
                     maxExternalRatioBP, stopped, stakeLimit, block>>
  BY DEF Deposit, shareVars, adminVars
<1>2. count * DepositSize \in Nat
  BY LidoAssumption, ProductNat
<1>3. bufferedEther' \in Nat
  BY <1>1, <1>2, TypeParts
<1>4. depositedValidators' \in Nat /\ clValidators' \in 0..depositedValidators'
  BY <1>1, TypeParts
<1>5. LidoTypeOK' /\ StakeLimitDated' /\ externalShares' < totalShares'
  <2>1. LidoTypeOK /\ StakeLimitDated /\ externalShares < totalShares
    BY TypeParts DEF Inv
  <2> QED BY <1>1, <1>3, <1>4, <2>1 DEF LidoTypeOK, StakeLimitDated
<1>6. SumOf(shares', Accounts) = totalShares'
  BY <1>1, LedgerSum
<1> QED BY <1>1, <1>5, <1>6, LedgerFrom

LEMMA LedgerMintExternal ==
  ASSUME Inv, NEW to \in Accounts, NEW n \in Nat, MintExternalShares(to, n)
  PROVE  /\ LedgerOK'
         /\ externalShares' = externalShares + n
         /\ \A a \in Accounts : shares[a] <= shares'[a]
<1>1. /\ MintTo(to, n) /\ externalShares' = externalShares + n
      /\ UNCHANGED <<bufferedEther, depositedValidators, clBalance, clValidators,
                     maxExternalRatioBP, stopped, block>>
  BY DEF MintExternalShares, etherVars, adminVars
<1>2. /\ shares' \in [Accounts -> Nat] /\ totalShares' = totalShares + n
      /\ SumOf(shares', Accounts) = totalShares'
      /\ \A a \in Accounts : shares'[a] = shares[a] + (IF a = to THEN n ELSE 0)
  BY <1>1, LedgerMint
<1>3. stakeLimit' \in StakeLimitData /\ stakeLimit'.prevStakeBlockNumber <= block
  <2>1. PooledEthByShares(n) \in Nat
    BY TypeParts, Conversions
  <2> QED BY <2>1, LimitDecreased DEF MintExternalShares, Inv, TypeOK
<1>4. LidoTypeOK' /\ StakeLimitDated' /\ externalShares' < totalShares'
  <2>1. LidoTypeOK
    BY TypeParts
  <2>2. totalShares' \in Nat /\ externalShares' \in 0..totalShares' /\ externalShares' < totalShares'
    BY <1>1, <1>2, TypeParts
  <2> QED BY <1>1, <1>2, <1>3, <2>1, <2>2 DEF LidoTypeOK, StakeLimitDated
<1>5. \A a \in Accounts : shares[a] <= shares'[a]
  BY <1>2, TypeParts
<1> QED BY <1>1, <1>2, <1>4, <1>5, LedgerFrom

LEMMA LedgerBurnExternal ==
  ASSUME Inv, NEW from \in Accounts, NEW n \in Nat, BurnExternalShares(from, n)
  PROVE  /\ LedgerOK'
         /\ n <= externalShares /\ externalShares' = externalShares - n
         /\ \A a \in Accounts : a # from => shares'[a] = shares[a]
<1>1. /\ n <= externalShares /\ n <= shares[from] /\ externalShares' = externalShares - n
      /\ totalShares' = totalShares - n
      /\ UNCHANGED <<bufferedEther, depositedValidators, clBalance, clValidators,
                     maxExternalRatioBP, stopped, block>>
  BY DEF BurnExternalShares, etherVars, adminVars
<1>2. /\ shares' \in [Accounts -> Nat] /\ shares'[from] = shares[from] - n
      /\ \A a \in Accounts : a # from => shares'[a] = shares[a]
  <2>1. shares' = [shares EXCEPT ![from] = @ - n] /\ shares \in [Accounts -> Nat]
    BY TypeParts DEF BurnExternalShares
  <2> QED BY <1>1, <2>1
<1>3. SumOf(shares', Accounts) = totalShares'
  <2>1. PICK d \in Int : d = -n /\ shares'[from] = shares[from] + d
    BY <1>2, TypeParts
  <2>2. \A x \in Accounts : shares[x] \in Int /\ shares'[x] \in Int
    BY <1>2, TypeParts
  <2>3. SumOf(shares', Accounts) = SumOf(shares, Accounts) + d
    BY <1>2, <2>1, <2>2, OneChanges
  <2> QED BY <1>1, <2>1, <2>3, LedgerSum, TypeParts
<1>4. stakeLimit' \in StakeLimitData /\ stakeLimit'.prevStakeBlockNumber <= block
  <2>1. PooledEthByShares(n) \in Nat /\ CurrentStakeLimit \in Nat
    BY TypeParts, Conversions, CurrentLimitNat DEF Inv
  <2>2. CurrentStakeLimit + PooledEthByShares(n) \in Nat
    BY <2>1
  <2>3. \/ stakeLimit' = UpdatePrevStakeLimit(CurrentStakeLimit + PooledEthByShares(n))
        \/ stakeLimit' = stakeLimit
    BY DEF BurnExternalShares
  <2> QED BY <2>2, <2>3, LimitStored DEF Inv, TypeOK
<1>5. LidoTypeOK' /\ StakeLimitDated' /\ externalShares' < totalShares'
  <2>1. LidoTypeOK
    BY TypeParts
  <2>2. totalShares' \in Nat /\ externalShares' \in 0..totalShares' /\ externalShares' < totalShares'
    BY <1>1, TypeParts
  <2> QED BY <1>1, <1>2, <1>4, <2>1, <2>2 DEF LidoTypeOK, StakeLimitDated
<1> QED BY <1>1, <1>2, <1>3, <1>5, LedgerFrom

LEMMA LedgerRebalance ==
  ASSUME Inv, NEW n \in Nat,
         RebalanceExternalEtherToInternal(PooledEthBySharesRoundUp(n), n)
  PROVE  /\ LedgerOK' /\ shares' = shares
         /\ n <= externalShares /\ externalShares' = externalShares - n
<1> DEFINE value == PooledEthBySharesRoundUp(n)
<1>1. /\ n <= externalShares /\ externalShares' = externalShares - n
      /\ bufferedEther' = bufferedEther + value
      /\ UNCHANGED <<shares, totalShares, depositedValidators, clBalance, clValidators,
                     maxExternalRatioBP, stopped, stakeLimit, block>>
  BY DEF RebalanceExternalEtherToInternal, adminVars
<1>2. value \in Nat
  <2>1. InternalEther \in Nat /\ InternalShares \in Nat \ {0}
    BY TypeParts, InternalAmounts
  <2>2. n * InternalEther \in Nat
    BY <2>1, ProductNat
  <2>3. n * InternalEther + InternalShares - 1 \in Nat
    BY <2>1, <2>2
  <2> QED BY <2>1, <2>3, QuotientNat DEF PooledEthBySharesRoundUp
<1> HIDE DEF value
<1>3. LidoTypeOK' /\ StakeLimitDated' /\ externalShares' < totalShares'
  <2>1. LidoTypeOK /\ StakeLimitDated
    BY TypeParts DEF Inv
  <2>2. totalShares' \in Nat /\ externalShares' \in 0..totalShares' /\ externalShares' < totalShares'
    BY <1>1, TypeParts
  <2>3. bufferedEther' \in Nat
    BY <1>1, <1>2, TypeParts
  <2> QED BY <1>1, <2>1, <2>2, <2>3 DEF LidoTypeOK, StakeLimitDated
<1>4. SumOf(shares', Accounts) = totalShares'
  BY <1>1, LedgerSum
<1> QED BY <1>1, <1>3, <1>4, LedgerFrom

LEMMA LedgerAdminister ==
  ASSUME Inv, Administer
  PROVE  LedgerOK' /\ shares' = shares /\ externalShares' = externalShares
<1> USE DEF shareVars, etherVars, adminVars
<1>0. /\ stakeLimit \in StakeLimitData /\ block \in Nat \ {0}
      /\ stakeLimit.prevStakeBlockNumber <= block
  BY TypeParts DEF LidoTypeOK, StakeLimitDated, Inv
<1>1. ASSUME UNCHANGED <<shareVars, bufferedEther, depositedValidators, clBalance, clValidators>>,
             maxExternalRatioBP' \in 0..TotalBasisPoints, stopped' \in BOOLEAN,
             stakeLimit' \in StakeLimitData, block' \in Nat \ {0},
             stakeLimit'.prevStakeBlockNumber <= block'
      PROVE  LedgerOK' /\ shares' = shares /\ externalShares' = externalShares
  <2>1. LidoTypeOK' /\ StakeLimitDated' /\ externalShares' < totalShares'
    <3>1. LidoTypeOK /\ externalShares < totalShares
      BY TypeParts
    <3> QED BY <1>1, <3>1 DEF LidoTypeOK, StakeLimitDated
  <2>2. SumOf(shares', Accounts) = totalShares'
    BY <1>1, LedgerSum
  <2> QED BY <1>1, <2>1, <2>2, LedgerFrom
<1>2. maxExternalRatioBP \in 0..TotalBasisPoints /\ stopped \in BOOLEAN
  BY TypeParts DEF LidoTypeOK
<1>3. ASSUME NEW b \in {0, block}, NEW s, s = [stakeLimit EXCEPT !.prevStakeBlockNumber = b]
      PROVE  s \in StakeLimitData /\ s.prevStakeBlockNumber <= block
  <2>1. s \in StakeLimitData
    BY <1>0, <1>3 DEF StakeLimitData
  <2>2. s.prevStakeBlockNumber = b
    BY <1>0, <1>3 DEF StakeLimitData
  <2> QED BY <1>0, <2>1, <2>2
<1>4. ASSUME NEW b \in BOOLEAN, SetPause(b)
      PROVE  stakeLimit' \in StakeLimitData /\ stakeLimit'.prevStakeBlockNumber <= block
  BY <1>3, <1>4 DEF SetPause
<1>5. CASE Stop \/ PauseStaking \/ Resume \/ ResumeStaking
  <2>1. \E b \in BOOLEAN : SetPause(b)
    BY <1>5 DEF Stop, PauseStaking, Resume, ResumeStaking
  <2>2. stakeLimit' \in StakeLimitData /\ stakeLimit'.prevStakeBlockNumber <= block
    BY <1>4, <2>1
  <2> QED BY <1>0, <1>1, <1>2, <1>5, <2>2 DEF Stop, PauseStaking, Resume, ResumeStaking
<1>6. ASSUME NEW l \in StakeLimits, SetStakingLimit(l.max, l.increase)
      PROVE  LedgerOK' /\ shares' = shares /\ externalShares' = externalShares
  <2>1. l.max \in Nat /\ l.increase \in Nat
    BY LidoAssumption
  <2>2. PICK grows : grows = IF l.increase = 0 THEN 0 ELSE l.max \div l.increase
    OBVIOUS
  <2>3. grows \in Nat
    BY <2>1, <2>2, QuotientNat
  <2>4. PICK s : s = [prevStakeBlockNumber |-> IF IsStakingPaused THEN 0 ELSE block,
                      prevStakeLimit |-> IF IsStakingPaused \/ ~IsStakingLimitSet
                                            \/ l.max < stakeLimit.prevStakeLimit
                                         THEN l.max ELSE stakeLimit.prevStakeLimit,
                      maxStakeLimitGrowthBlocks |-> grows,
                      maxStakeLimit |-> l.max]
    OBVIOUS
  <2>5. stakeLimit' = s
    BY <1>6, <2>2, <2>4 DEF SetStakingLimit
  <2>6. s \in StakeLimitData /\ s.prevStakeBlockNumber <= block
    BY <1>0, <2>1, <2>3, <2>4 DEF StakeLimitData
  <2>7. UNCHANGED <<shareVars, etherVars, adminVars, block>>
    BY <1>6 DEF SetStakingLimit
  <2> QED BY <1>0, <1>1, <1>2, <2>5, <2>6, <2>7
<1>7. CASE RemoveStakingLimit
  <2>1. stakeLimit' \in StakeLimitData
        /\ stakeLimit'.prevStakeBlockNumber = stakeLimit.prevStakeBlockNumber
    BY <1>0, <1>7 DEF RemoveStakingLimit, StakeLimitData
  <2> QED BY <1>0, <1>1, <1>2, <1>7, <2>1 DEF RemoveStakingLimit
<1>8. ASSUME NEW b \in Ratios, SetMaxExternalRatioBP(b)
      PROVE  LedgerOK' /\ shares' = shares /\ externalShares' = externalShares
  <2>1. b \in 0..TotalBasisPoints
    BY LidoAssumption
  <2> QED BY <1>0, <1>1, <1>2, <1>8, <2>1 DEF SetMaxExternalRatioBP
<1>9. CASE NextBlock
  <2>1. block' \in Nat \ {0} /\ stakeLimit.prevStakeBlockNumber <= block'
        /\ stakeLimit' = stakeLimit
    BY <1>0, <1>9 DEF NextBlock, StakeLimitData
  <2> QED BY <1>0, <1>1, <1>2, <1>9, <2>1 DEF NextBlock
<1> QED BY <1>5, <1>6, <1>7, <1>8, <1>9 DEF Administer

-----------------------------------------------------------------------------
(* The queue's sums.                                                       *)

QueuedStETH  == [i \in 1..Len(unfinalized) |-> unfinalized[i].stETH]
QueuedShares == [i \in 1..Len(unfinalized) |-> unfinalized[i].shares]

LEMMA QueuedTyped ==
  ASSUME TypeOK
  PROVE  /\ Len(unfinalized) \in Nat
         /\ QueuedStETH \in [1..Len(unfinalized) -> Nat]
         /\ QueuedShares \in [1..Len(unfinalized) -> Nat]
<1>1. unfinalized \in Seq([stETH : Nat, shares : Nat])
  BY DEF TypeOK
<1>2. Len(unfinalized) \in Nat
  BY <1>1
<1>3. \A i \in 1..Len(unfinalized) : unfinalized[i] \in [stETH : Nat, shares : Nat]
  BY <1>1, ElementOfSeq
<1>4. \A i \in 1..Len(unfinalized) : unfinalized[i].stETH \in Nat /\ unfinalized[i].shares \in Nat
  BY <1>3
<1> QED BY <1>2, <1>4 DEF QueuedStETH, QueuedShares

LEMMA SumStETHIsSum ==
  ASSUME TypeOK, NEW first \in Nat \ {0}, NEW last \in 0..Len(unfinalized)
  PROVE  SumStETH(first, last) = SumOf(QueuedStETH, first..last)
<1> DEFINE S       == first..last
           V(i)    == unfinalized[i].stETH
           Step(h) == [s \in SUBSET S |->
                         IF s = {} THEN 0 ELSE V(Taken(s)) + h[s \ {Taken(s)}]]
           iter    == CHOOSE h : h = Step(h)
<1>1. SumStETH(first, last) = iter[S]
  BY DEF SumStETH, MapThenSumSet, MapThenFoldSet, Taken
<1>2. Len(unfinalized) \in Nat
  BY QueuedTyped
<1>3. IsFiniteSet(S)
  BY <1>2, FS_Interval
<1>4. \A i \in S : QueuedStETH[i] = V(i)
  BY <1>2 DEF QueuedStETH
<1> HIDE DEF S, V
<1>5. ASSUME NEW h PROVE h = Step(h) <=> Sums(h, QueuedStETH, S)
  <2>1. \A s \in SUBSET S : s # {} => Taken(s) \in S
    BY DEF Taken
  <2>2. Step(h) = [s \in SUBSET S |->
                     IF s = {} THEN 0 ELSE QueuedStETH[Taken(s)] + h[s \ {Taken(s)}]]
    BY <1>4, <2>1
  <2> QED BY <2>2 DEF Sums
<1> HIDE DEF Step
<1>6. (\E h : Sums(h, QueuedStETH, S)) => Sums(iter, QueuedStETH, S)
  <2>1. (\E h : h = Step(h)) => iter = Step(iter)
    OBVIOUS
  <2> HIDE DEF iter
  <2> QED BY <1>5, <2>1
<1> HIDE DEF iter
<1>7. iter[S] = SumOf(QueuedStETH, S)
  BY <1>3, <1>6, SumIterated
<1> QED BY <1>1, <1>7 DEF S

LEMMA SumSharesIsSum ==
  ASSUME TypeOK, NEW first \in Nat \ {0}, NEW last \in 0..Len(unfinalized)
  PROVE  SumShares(first, last) = SumOf(QueuedShares, first..last)
<1> DEFINE S       == first..last
           V(i)    == unfinalized[i].shares
           Step(h) == [s \in SUBSET S |->
                         IF s = {} THEN 0 ELSE V(Taken(s)) + h[s \ {Taken(s)}]]
           iter    == CHOOSE h : h = Step(h)
<1>1. SumShares(first, last) = iter[S]
  BY DEF SumShares, MapThenSumSet, MapThenFoldSet, Taken
<1>2. Len(unfinalized) \in Nat
  BY QueuedTyped
<1>3. IsFiniteSet(S)
  BY <1>2, FS_Interval
<1>4. \A i \in S : QueuedShares[i] = V(i)
  BY <1>2 DEF QueuedShares
<1> HIDE DEF S, V
<1>5. ASSUME NEW h PROVE h = Step(h) <=> Sums(h, QueuedShares, S)
  <2>1. \A s \in SUBSET S : s # {} => Taken(s) \in S
    BY DEF Taken
  <2>2. Step(h) = [s \in SUBSET S |->
                     IF s = {} THEN 0 ELSE QueuedShares[Taken(s)] + h[s \ {Taken(s)}]]
    BY <1>4, <2>1
  <2> QED BY <2>2 DEF Sums
<1> HIDE DEF Step
<1>6. (\E h : Sums(h, QueuedShares, S)) => Sums(iter, QueuedShares, S)
  <2>1. (\E h : h = Step(h)) => iter = Step(iter)
    OBVIOUS
  <2> HIDE DEF iter
  <2> QED BY <1>5, <2>1
<1> HIDE DEF iter
<1>7. iter[S] = SumOf(QueuedShares, S)
  BY <1>3, <1>6, SumIterated
<1> QED BY <1>1, <1>7 DEF S

\* deposit's reserve, the unfinalized stETH, is not negative.
LEMMA ReserveNat ==
  ASSUME TypeOK
  PROVE  SumStETH(1, Len(unfinalized)) \in Nat
<1>1. Len(unfinalized) \in Nat /\ Len(unfinalized) \in 0..Len(unfinalized)
  BY QueuedTyped
<1>2. SumStETH(1, Len(unfinalized)) = SumOf(QueuedStETH, 1..Len(unfinalized))
  BY <1>1, SumStETHIsSum
<1>3. IsFiniteSet(1..Len(unfinalized))
  BY <1>1, FS_Interval
<1>4. \A i \in 1..Len(unfinalized) : QueuedStETH[i] \in Nat
  BY QueuedTyped
<1> QED BY <1>2, <1>3, <1>4, SumCovers

\* A report that finalizes nothing locks nothing.
LEMMA NothingToLock ==
  ASSUME NEW rate
  PROVE  EtherToLock({}, rate) = 0
<1> DEFINE ether(b) ==
             LET stETH == SumStETH(BatchStart({}, b), b)
                 n     == SumShares(BatchStart({}, b), b)
             IN  IF (stETH * SharePrecision) \div n > rate
                 THEN (n * rate) \div SharePrecision
                 ELSE stETH
           Step(h) == [s \in SUBSET {} |->
                         IF s = {} THEN 0 ELSE ether(Taken(s)) + h[s \ {Taken(s)}]]
           iter    == CHOOSE h : h = Step(h)
<1>1. EtherToLock({}, rate) = iter[{}]
  BY DEF EtherToLock, MapThenSumSet, MapThenFoldSet, Taken
<1> HIDE DEF ether
<1>2. \A h : Step(h) = [s \in SUBSET {} |-> 0]
  OBVIOUS
<1> HIDE DEF Step
<1>3. iter = [s \in SUBSET {} |-> 0]
  BY <1>2
<1> HIDE DEF iter
<1> QED BY <1>1, <1>3

-----------------------------------------------------------------------------
(* The steps between reports.                                              *)

LEMMA BurnerApart ==
  /\ Burner # Queue /\ Burner # Hub /\ Burner # Treasury
  /\ Queue # Hub /\ Queue # Treasury /\ Hub # Treasury
  /\ {Burner, Queue, Hub, Treasury, FeeRecipient} \subseteq Accounts
  /\ FeeRecipient \notin {Burner, Queue, Hub, Treasury}
  /\ \A user \in Users : user \in Accounts /\ user \notin {Burner, Queue, Hub, Treasury}
  /\ \A a \in Recipients : a \in Accounts
<1>1. ASSUME NEW x, NEW y, NEW z PROVE Cardinality({x, y, z}) \in Nat /\ Cardinality({x, y, z}) < 4
  <2>1. IsFiniteSet({x}) /\ Cardinality({x}) = 1
    BY FS_Singleton
  <2>2. IsFiniteSet({x} \cup {y}) /\ Cardinality({x} \cup {y}) \in {1, 2}
    BY <2>1, FS_AddElement
  <2>3. Cardinality(({x} \cup {y}) \cup {z}) \in {1, 2, 3}
    BY <2>2, FS_AddElement
  <2>4. ({x} \cup {y}) \cup {z} = {x, y, z}
    OBVIOUS
  <2>5. Cardinality({x, y, z}) \in {1, 2, 3}
    BY <2>3, <2>4
  <2> QED BY <2>5
<1>2. ASSUME \/ Burner = Queue \/ Burner = Hub \/ Burner = Treasury
             \/ Queue = Hub \/ Queue = Treasury \/ Hub = Treasury
      PROVE FALSE
  <2>1. \/ {Burner, Queue, Hub, Treasury} = {Queue, Hub, Treasury}
        \/ {Burner, Queue, Hub, Treasury} = {Burner, Hub, Treasury}
        \/ {Burner, Queue, Hub, Treasury} = {Burner, Queue, Treasury}
    BY <1>2
  <2>2. /\ Cardinality({Queue, Hub, Treasury}) < 4
        /\ Cardinality({Burner, Hub, Treasury}) < 4
        /\ Cardinality({Burner, Queue, Treasury}) < 4
    BY <1>1
  <2>3. Cardinality({Burner, Queue, Hub, Treasury}) = 4
    BY AccountsAssumption
  <2>4. ~ (4 < 4)
    OBVIOUS
  <2> QED BY ONLY <2>1, <2>2, <2>3, <2>4
<1> QED BY <1>2, AccountsAssumption

\* What the invariant says outside the ledger.
RestOK ==
  /\ coverSharesBurnRequested \in Nat /\ nonCoverSharesBurnRequested \in Nat
  /\ unfinalized \in Seq([stETH : Nat, shares : Nat])
  /\ liabilityShares \in Nat
  /\ badDebtToInternalize \in [value : Nat, valueOnRefSlot : Nat, refSlot : Nat]
  /\ withdrawalVault \in Nat /\ elRewardsVault \in Nat
  /\ refSlot \in Nat /\ lastProcessingRefSlot \in 0..refSlot
  /\ BadDebtDated /\ BurnerBacked /\ ExternalSharesOwned

LEMMA InvParts == Inv <=> LedgerOK /\ RestOK
BY DEF Inv, LedgerOK, RestOK, TypeOK

LEMMA InvPartsNext == Inv' <=> LedgerOK' /\ RestOK'
BY InvParts, PTL

\* Burner's account does not shrink and nothing but it changes.
LEMMA RestKept ==
  ASSUME Inv, shares[Burner] <= shares'[Burner], shares'[Burner] \in Nat,
         UNCHANGED <<burnerVars, unfinalized, hubVars, vaultVars, slotVars, externalShares>>
  PROVE  RestOK'
<1>1. RestOK /\ shares[Burner] \in Nat
  BY InvParts, TypeParts, BurnerApart
<1>2. RestOK => shares[Burner] >= SharesBurnRequested /\ SharesBurnRequested \in Nat
  BY DEF RestOK, BurnerBacked, SharesBurnRequested
<1>3. BurnerBacked'
  <2>1. SharesBurnRequested' = SharesBurnRequested
    BY DEF SharesBurnRequested, burnerVars
  <2> QED BY <1>1, <1>2, <2>1 DEF BurnerBacked
<1>4. ExternalSharesOwned' /\ BadDebtDated'
  <2>1. ExternalSharesOwned /\ BadDebtDated
    BY <1>1 DEF RestOK
  <2> QED BY <2>1 DEF ExternalSharesOwned, BadDebtDated, ValueForLastRefSlot, hubVars, slotVars
<1> QED BY <1>1, <1>3, <1>4 DEF RestOK, burnerVars, hubVars, vaultVars, slotVars

LEMMA InvTransfers ==
  ASSUME Inv, NEW from \in Users, NEW to \in Recipients, NEW n \in ShareAmounts,
         UserTransfers(from, to, n)
  PROVE  Inv'
<1>1. n \in Nat /\ from \in Accounts /\ to \in Accounts /\ from # Burner /\ Burner \in Accounts
  BY BurnerApart, InputAssumption
<1>2. /\ LedgerOK' /\ shares \in [Accounts -> Nat]
      /\ \A a \in Accounts :
           shares'[a] = shares[a] - (IF a = from THEN n ELSE 0) + (IF a = to THEN n ELSE 0)
  BY <1>1, LedgerTransfer DEF UserTransfers
<1>3. shares[Burner] <= shares'[Burner] /\ shares'[Burner] \in Nat
  BY <1>1, <1>2
<1>4. RestOK'
  BY <1>3, RestKept DEF UserTransfers, TransferShares
<1> QED BY <1>2, <1>4, InvPartsNext

LEMMA InvSubmits ==
  ASSUME Inv, NEW sender \in Users, NEW value \in Deposits, UserSubmits(sender, value)
  PROVE  Inv'
<1>1. value \in Nat /\ sender \in Accounts /\ Burner \in Accounts
  BY BurnerApart, InputAssumption
<1>2. LedgerOK' /\ \A a \in Accounts : shares[a] <= shares'[a]
  BY <1>1, LedgerSubmit DEF UserSubmits
<1>3. shares[Burner] <= shares'[Burner] /\ shares'[Burner] \in Nat
  BY <1>1, <1>2 DEF LedgerOK, LidoTypeOK
<1>4. RestOK'
  BY <1>3, RestKept DEF UserSubmits, Submit
<1> QED BY <1>2, <1>4, InvPartsNext

LEMMA InvDeposits ==
  ASSUME Inv, NEW count \in Nat, DepositBufferedEther(count)
  PROVE  Inv'
<1>1. LedgerOK' /\ shares' = shares
  BY ReserveNat, LedgerDeposit DEF DepositBufferedEther, Inv
<1>2. shares[Burner] <= shares'[Burner] /\ shares'[Burner] \in Nat
  BY <1>1, TypeParts, BurnerApart
<1>3. RestOK'
  BY <1>2, RestKept DEF DepositBufferedEther, Deposit, shareVars
<1> QED BY <1>1, <1>3, InvPartsNext

LEMMA InvAdminister ==
  ASSUME Inv, Administer
  PROVE  Inv'
<1>1. LedgerOK' /\ shares' = shares /\ externalShares' = externalShares
  BY LedgerAdminister
<1>2. shares[Burner] <= shares'[Burner] /\ shares'[Burner] \in Nat
  BY <1>1, TypeParts, BurnerApart
<1>3. RestOK'
  BY <1>1, <1>2, RestKept DEF Administer
<1> QED BY <1>1, <1>3, InvPartsNext

LEMMA InvRequests ==
  ASSUME Inv, NEW sender \in Users, NEW amount \in Withdrawals, RequestWithdrawal(sender, amount)
  PROVE  Inv'
<1> DEFINE n == SharesByPooledEth(amount)
<1>1. amount \in Nat /\ sender \in Accounts /\ Queue \in Accounts /\ sender # Burner
      /\ Burner \in Accounts /\ Burner # Queue
  BY BurnerApart, InputAssumption
<1>2. n \in Nat
  BY <1>1, TypeParts, Conversions DEF RequestWithdrawal
<1>3. /\ TransferShares(sender, Queue, n)
      /\ unfinalized' = Append(unfinalized, [stETH |-> amount, shares |-> n])
      /\ UNCHANGED <<burnerVars, hubVars, vaultVars, slotVars>>
  BY DEF RequestWithdrawal
<1> HIDE DEF n
<1>4. /\ LedgerOK' /\ shares \in [Accounts -> Nat]
      /\ \A a \in Accounts :
           shares'[a] = shares[a] - (IF a = sender THEN n ELSE 0) + (IF a = Queue THEN n ELSE 0)
  BY <1>1, <1>2, <1>3, LedgerTransfer
<1>5. shares'[Burner] = shares[Burner] /\ shares[Burner] \in Nat
  BY <1>1, <1>4
<1>6. RestOK /\ externalShares' = externalShares
  BY <1>3, InvParts DEF TransferShares
<1>7. BurnerBacked' /\ ExternalSharesOwned' /\ BadDebtDated'
  BY <1>3, <1>5, <1>6 DEF RestOK, BurnerBacked, ExternalSharesOwned, BadDebtDated,
     SharesBurnRequested, ValueForLastRefSlot, burnerVars, hubVars, slotVars
<1>8. unfinalized' \in Seq([stETH : Nat, shares : Nat])
  <2>1. [stETH |-> amount, shares |-> n] \in [stETH : Nat, shares : Nat]
    BY <1>1, <1>2
  <2>2. unfinalized \in Seq([stETH : Nat, shares : Nat])
    BY <1>6 DEF RestOK
  <2> QED BY <1>3, <2>1, <2>2, AppendProperties
<1>9. RestOK'
  BY <1>3, <1>6, <1>7, <1>8 DEF RestOK, burnerVars, hubVars, vaultVars, slotVars
<1> QED BY <1>4, <1>9, InvPartsNext

LEMMA QuotientAtMost ==
  ASSUME NEW a \in Nat, NEW c \in Nat \ {0}, NEW q \in Nat, a <= q * c
  PROVE  a \div c <= q
OBVIOUS

\* Rounding down twice, an amount of shares does not grow on its way to ether
\* and back.
LEMMA RoundTrip ==
  ASSUME LidoTypeOK, externalShares < totalShares, NEW n \in Nat,
         PooledEthByShares(n) > 0
  PROVE  /\ SharesByPooledEth(PooledEthByShares(n)) \in Nat
         /\ SharesByPooledEth(PooledEthByShares(n)) <= n
<1> DEFINE e == InternalEther
           s == InternalShares
           p == (n * e) \div s
<1>1. e \in Nat /\ s \in Nat \ {0}
  BY InternalAmounts
<1>2. PooledEthByShares(n) = p /\ SharesByPooledEth(p) = (p * s) \div e
  BY DEF PooledEthByShares, SharesByPooledEth
<1> HIDE DEF e, s
<1>3. n * e \in Nat
  BY <1>1, ProductNat
<1>4. p \in Nat /\ s * p <= n * e /\ p > 0
  BY <1>1, <1>2, <1>3, QuotientNat
<1>5. e # 0
  <2>1. e = 0 => n * e = 0
    BY <1>1
  <2>2. e = 0 => p = 0
    BY <1>1, <2>1
  <2> QED BY <1>4, <2>2
<1> HIDE DEF p
<1>6. p * s \in Nat /\ p * s <= n * e
  BY <1>1, <1>4
<1>7. (p * s) \div e \in Nat /\ (p * s) \div e <= n
  <2> DEFINE a == p * s
  <2>1. a \in Nat /\ a <= n * e /\ e \in Nat \ {0}
    BY <1>1, <1>5, <1>6
  <2> HIDE DEF a
  <2>2. a \div e \in Nat /\ a \div e <= n
    BY <2>1, QuotientNat, QuotientAtMost
  <2> QED BY <2>2 DEF a
<1> QED BY <1>2, <1>7

\* Burn requests: the account and the counters grow by the same amount.
LEMMA RestOfBurnRequest ==
  ASSUME Inv, NEW from \in Users, NEW n \in Nat, NEW isCover \in BOOLEAN,
         TransferShares(from, Burner, n), RequestBurn(n, isCover),
         UNCHANGED <<unfinalized, hubVars, vaultVars, slotVars>>
  PROVE  Inv'
<1>1. from \in Accounts /\ from # Burner /\ Burner \in Accounts
  BY BurnerApart
<1>2. /\ LedgerOK' /\ shares \in [Accounts -> Nat]
      /\ \A a \in Accounts :
           shares'[a] = shares[a] - (IF a = from THEN n ELSE 0) + (IF a = Burner THEN n ELSE 0)
  BY <1>1, LedgerTransfer
<1>3. shares'[Burner] = shares[Burner] + n /\ shares[Burner] \in Nat
  BY <1>1, <1>2
<1>4. RestOK /\ externalShares' = externalShares
  BY InvParts DEF TransferShares
<1>5. /\ coverSharesBurnRequested' \in Nat /\ nonCoverSharesBurnRequested' \in Nat
      /\ SharesBurnRequested' = SharesBurnRequested + n
      /\ shares[Burner] >= SharesBurnRequested
  BY <1>4 DEF RequestBurn, SharesBurnRequested, RestOK, BurnerBacked
<1>6. BurnerBacked'
  BY <1>3, <1>4, <1>5 DEF BurnerBacked, SharesBurnRequested, RestOK
<1>7. ExternalSharesOwned' /\ BadDebtDated'
  BY <1>4 DEF RestOK, ExternalSharesOwned, BadDebtDated, ValueForLastRefSlot,
              hubVars, slotVars
<1>8. RestOK'
  BY <1>4, <1>5, <1>6, <1>7 DEF RestOK, hubVars, vaultVars, slotVars
<1> QED BY <1>2, <1>8, InvPartsNext

LEMMA InvBurnShares ==
  ASSUME Inv, NEW from \in Users, NEW n \in BurnAmounts, NEW isCover \in BOOLEAN,
         RequestBurnShares(from, n, isCover)
  PROVE  Inv'
<1>1. n \in Nat
  BY InputAssumption
<1> QED BY <1>1, RestOfBurnRequest DEF RequestBurnShares

LEMMA InvBurnStETH ==
  ASSUME Inv, NEW from \in Users, NEW amount \in StETHAmounts, NEW isCover \in BOOLEAN,
         RequestBurnMyStETH(from, amount, isCover)
  PROVE  Inv'
<1>1. amount \in Nat
  BY InputAssumption
<1>2. SharesByPooledEth(amount) \in Nat
  BY <1>1, TypeParts, Conversions DEF RequestBurnMyStETH
<1> QED BY <1>2, RestOfBurnRequest DEF RequestBurnMyStETH

\* Recovery takes from Burner's account no more than the excess.
LEMMA InvRecover ==
  ASSUME Inv, RecoverExcessStETH
  PROVE  Inv'
<1> DEFINE excess == ExcessStETHShares
           n      == SharesByPooledEth(PooledEthByShares(excess))
<1>1. Burner \in Accounts /\ Treasury \in Accounts /\ Burner # Treasury
  BY BurnerApart
<1>2. RestOK /\ shares[Burner] \in Nat /\ SharesBurnRequested \in Nat
      /\ SharesBurnRequested <= shares[Burner]
  <2>1. RestOK /\ shares[Burner] \in Nat
    BY <1>1, InvParts, TypeParts
  <2>2. SharesBurnRequested \in Nat /\ shares[Burner] >= SharesBurnRequested
    BY <2>1 DEF RestOK, SharesBurnRequested, BurnerBacked
  <2> QED BY <2>1, <2>2
<1>3. excess \in Nat /\ excess = shares[Burner] - SharesBurnRequested
  BY <1>2 DEF ExcessStETHShares
<1>4. n \in Nat /\ n <= excess
  <2> HIDE DEF excess
  <2>1. PooledEthByShares(excess) > 0
    BY DEF RecoverExcessStETH, excess
  <2> QED BY <1>3, <2>1, TypeParts, RoundTrip
<1>5. TransferShares(Burner, Treasury, n)
      /\ UNCHANGED <<burnerVars, unfinalized, hubVars, vaultVars, slotVars>>
  BY DEF RecoverExcessStETH
<1> HIDE DEF n, excess
<1>6. /\ LedgerOK' /\ shares \in [Accounts -> Nat]
      /\ \A a \in Accounts :
           shares'[a] = shares[a] - (IF a = Burner THEN n ELSE 0) + (IF a = Treasury THEN n ELSE 0)
  BY <1>1, <1>4, <1>5, LedgerTransfer
<1>7. shares'[Burner] >= SharesBurnRequested
  BY <1>1, <1>2, <1>3, <1>4, <1>6
<1>8. externalShares' = externalShares
  BY <1>5 DEF TransferShares
<1>9. BurnerBacked' /\ ExternalSharesOwned' /\ BadDebtDated'
  BY <1>2, <1>5, <1>7, <1>8 DEF RestOK, BurnerBacked, ExternalSharesOwned, BadDebtDated,
     SharesBurnRequested, ValueForLastRefSlot, burnerVars, hubVars, slotVars
<1>10. RestOK'
  BY <1>2, <1>5, <1>9 DEF RestOK, burnerVars, hubVars, vaultVars, slotVars
<1> QED BY <1>6, <1>10, InvPartsNext

\* A step of VaultHub moves external shares, liabilities and bad debt together.
LEMMA RestOfHub ==
  ASSUME Inv, LedgerOK', shares[Burner] <= shares'[Burner],
         liabilityShares' \in Nat,
         externalShares' - externalShares = liabilityShares' - liabilityShares,
         UNCHANGED <<burnerVars, unfinalized, badDebtToInternalize, vaultVars, slotVars>>
  PROVE  Inv'
<1>1. RestOK /\ externalShares \in Nat /\ externalShares' \in Nat /\ shares[Burner] \in Nat
      /\ shares'[Burner] \in Nat
  <2>1. shares' \in [Accounts -> Nat] /\ externalShares' \in Nat
    BY DEF LedgerOK, LidoTypeOK
  <2>2. shares \in [Accounts -> Nat] /\ externalShares \in Nat
    BY TypeParts
  <2>3. RestOK
    BY InvParts
  <2>4. Burner \in Accounts
    BY BurnerApart
  <2> QED BY <2>1, <2>2, <2>3, <2>4
<1>2. BurnerBacked'
  <2>1. SharesBurnRequested' = SharesBurnRequested /\ SharesBurnRequested \in Nat
        /\ SharesBurnRequested <= shares[Burner]
    BY <1>1 DEF RestOK, BurnerBacked, SharesBurnRequested, burnerVars
  <2> QED BY <1>1, <2>1 DEF BurnerBacked
<1>3. ExternalSharesOwned'
  <2>1. externalShares' = liabilityShares' + badDebtToInternalize.value
    <3>1. externalShares = liabilityShares + badDebtToInternalize.value
          /\ liabilityShares \in Nat /\ badDebtToInternalize.value \in Nat
      BY <1>1 DEF RestOK, ExternalSharesOwned
    <3> QED BY <1>1, <3>1
  <2> QED BY <1>1, <2>1 DEF RestOK, ExternalSharesOwned, ValueForLastRefSlot, slotVars
<1>4. RestOK'
  BY <1>1, <1>2, <1>3 DEF RestOK, BadDebtDated, burnerVars, vaultVars, slotVars
<1> QED BY <1>4, InvPartsNext

LEMMA InvHubMint ==
  ASSUME Inv, NEW to \in Users, NEW n \in ShareAmounts, HubMintShares(to, n)
  PROVE  Inv'
<1>1. n \in Nat /\ to \in Accounts /\ Burner \in Accounts /\ liabilityShares \in Nat
      /\ externalShares \in Nat
  BY InputAssumption, BurnerApart, TypeParts DEF Inv, TypeOK
<1>2. /\ LedgerOK' /\ externalShares' = externalShares + n
      /\ \A a \in Accounts : shares[a] <= shares'[a]
  BY <1>1, LedgerMintExternal DEF HubMintShares
<1>3. /\ liabilityShares' = liabilityShares + n
      /\ UNCHANGED <<burnerVars, unfinalized, badDebtToInternalize, vaultVars, slotVars>>
  BY DEF HubMintShares
<1>4. liabilityShares' \in Nat
      /\ externalShares' - externalShares = liabilityShares' - liabilityShares
  BY <1>1, <1>2, <1>3
<1> QED BY <1>1, <1>2, <1>3, <1>4, RestOfHub

LEMMA InvHubBurn ==
  ASSUME Inv, NEW n \in ShareAmounts, HubBurnShares(n)
  PROVE  Inv'
<1>1. n \in Nat /\ Hub \in Accounts /\ Burner \in Accounts /\ Hub # Burner
      /\ liabilityShares \in Nat /\ externalShares \in Nat /\ shares[Burner] \in Nat
  BY InputAssumption, BurnerApart, TypeParts DEF Inv, TypeOK
<1>2. /\ LedgerOK' /\ externalShares' = externalShares - n
      /\ \A a \in Accounts : a # Hub => shares'[a] = shares[a]
  BY <1>1, LedgerBurnExternal DEF HubBurnShares
<1>3. /\ n <= liabilityShares /\ liabilityShares' = liabilityShares - n
      /\ UNCHANGED <<burnerVars, unfinalized, badDebtToInternalize, vaultVars, slotVars>>
  BY DEF HubBurnShares
<1>4. liabilityShares' \in Nat
      /\ externalShares' - externalShares = liabilityShares' - liabilityShares
  BY <1>1, <1>2, <1>3
<1>5. shares[Burner] <= shares'[Burner]
  BY <1>1, <1>2
<1> QED BY <1>2, <1>3, <1>4, <1>5, RestOfHub

LEMMA InvHubRebalance ==
  ASSUME Inv, NEW n \in ShareAmounts, HubRebalance(n)
  PROVE  Inv'
<1>1. n \in Nat /\ Burner \in Accounts
      /\ liabilityShares \in Nat /\ externalShares \in Nat /\ shares[Burner] \in Nat
  BY InputAssumption, BurnerApart, TypeParts DEF Inv, TypeOK
<1>2. LedgerOK' /\ externalShares' = externalShares - n /\ shares' = shares
  BY <1>1, LedgerRebalance DEF HubRebalance
<1>3. /\ n <= liabilityShares /\ liabilityShares' = liabilityShares - n
      /\ UNCHANGED <<burnerVars, unfinalized, badDebtToInternalize, vaultVars, slotVars>>
  BY DEF HubRebalance
<1>4. liabilityShares' \in Nat
      /\ externalShares' - externalShares = liabilityShares' - liabilityShares
  BY <1>1, <1>2, <1>3
<1>5. shares[Burner] <= shares'[Burner]
  BY <1>1, <1>2
<1> QED BY <1>2, <1>3, <1>4, <1>5, RestOfHub

\* The ledger is not touched.
LEMMA LedgerUntouched ==
  ASSUME Inv, UNCHANGED lidoVars
  PROVE  LedgerOK' /\ shares' = shares /\ externalShares' = externalShares
<1>1. UNCHANGED <<shares, totalShares, externalShares, bufferedEther, depositedValidators,
                  clBalance, clValidators, maxExternalRatioBP, stopped, stakeLimit, block>>
  BY DEF lidoVars, shareVars, etherVars, adminVars
<1>2. LidoTypeOK' /\ StakeLimitDated' /\ externalShares' < totalShares'
  <2>1. LidoTypeOK /\ StakeLimitDated /\ externalShares < totalShares
    BY TypeParts DEF Inv
  <2> QED BY <1>1, <2>1 DEF LidoTypeOK, StakeLimitDated
<1>3. SumOf(shares', Accounts) = totalShares'
  BY <1>1, LedgerSum
<1> QED BY <1>1, <1>2, <1>3, LedgerFrom

\* Bad debt set aside in a frame with a report to come keeps the value it had at
\* the frame's reference slot.
LEMMA InvBadDebt ==
  ASSUME Inv, NEW n \in ShareAmounts, InternalizeBadDebt(n)
  PROVE  Inv'
<1> DEFINE cache == badDebtToInternalize
<1>1. n \in Nat
  BY InputAssumption
<1>2. LedgerOK' /\ shares' = shares /\ externalShares' = externalShares
  BY LedgerUntouched DEF InternalizeBadDebt
<1>3. /\ n <= liabilityShares /\ liabilityShares' = liabilityShares - n
      /\ cache' = WithValueIncrease(cache, refSlot, n)
      /\ UNCHANGED <<burnerVars, unfinalized, vaultVars, slotVars>>
  BY DEF InternalizeBadDebt
<1>4. /\ RestOK /\ cache \in [value : Nat, valueOnRefSlot : Nat, refSlot : Nat]
      /\ refSlot \in Nat /\ lastProcessingRefSlot \in Nat /\ liabilityShares \in Nat
      /\ cache.value \in Nat /\ cache.valueOnRefSlot \in Nat
  BY InvParts DEF RestOK
<1>5. /\ cache' \in [value : Nat, valueOnRefSlot : Nat, refSlot : Nat]
      /\ cache'.value = cache.value + n
      /\ cache'.refSlot = refSlot
      /\ cache'.valueOnRefSlot = ValueForLastRefSlot(cache, refSlot)
  <2>1. CASE cache.refSlot # refSlot
    BY <1>1, <1>3, <1>4, <2>1 DEF WithValueIncrease, ValueForLastRefSlot
  <2>2. CASE cache.refSlot = refSlot
    BY <1>1, <1>3, <1>4, <2>2 DEF WithValueIncrease, ValueForLastRefSlot
  <2> QED BY <2>1, <2>2
<1>6. ExternalSharesOwned'
  <2>1. /\ externalShares = liabilityShares + cache.value
        /\ lastProcessingRefSlot < refSlot => ValueForLastRefSlot(cache, refSlot) <= cache.value
    BY <1>4 DEF RestOK, ExternalSharesOwned
  <2>2. externalShares' = liabilityShares' + cache'.value
    BY <1>1, <1>2, <1>3, <1>4, <1>5, <2>1
  <2>3. refSlot' = refSlot /\ lastProcessingRefSlot' = lastProcessingRefSlot
    BY <1>3 DEF slotVars
  <2>4. ValueForLastRefSlot(cache', refSlot) = ValueForLastRefSlot(cache, refSlot)
    BY <1>5 DEF ValueForLastRefSlot
  <2>5. ValueForLastRefSlot(cache, refSlot) \in Nat
    BY <1>4 DEF ValueForLastRefSlot
  <2>6. lastProcessingRefSlot < refSlot =>
          ValueForLastRefSlot(cache', refSlot) <= cache'.value
    BY <1>1, <1>4, <1>5, <2>1, <2>4, <2>5
  <2> QED BY <2>2, <2>3, <2>6 DEF ExternalSharesOwned
<1>7. BadDebtDated' /\ BurnerBacked'
  BY <1>2, <1>3, <1>4, <1>5 DEF RestOK, BadDebtDated, BurnerBacked, SharesBurnRequested,
     burnerVars, slotVars
<1>8. liabilityShares' \in Nat
  BY <1>1, <1>3, <1>4
<1>9. RestOK'
  BY <1>3, <1>4, <1>5, <1>6, <1>7, <1>8 DEF RestOK, burnerVars, vaultVars, slotVars
<1> QED BY <1>2, <1>9, InvPartsNext

LEMMA InvRewards ==
  ASSUME Inv, ReceiveRewards
  PROVE  Inv'
<1>1. LedgerOK' /\ shares' = shares /\ externalShares' = externalShares
  BY LedgerUntouched DEF ReceiveRewards
<1>2. RestOK
  BY InvParts
<1>3. UNCHANGED <<burnerVars, unfinalized, hubVars, slotVars>>
  BY DEF ReceiveRewards
<1>4. withdrawalVault' \in Nat /\ elRewardsVault' \in Nat
  BY <1>2 DEF ReceiveRewards, RestOK
<1>5. BurnerBacked' /\ ExternalSharesOwned' /\ BadDebtDated'
  BY <1>1, <1>2, <1>3 DEF RestOK, BurnerBacked, ExternalSharesOwned, BadDebtDated,
     SharesBurnRequested, ValueForLastRefSlot, burnerVars, hubVars, slotVars
<1>6. RestOK'
  BY <1>2, <1>3, <1>4, <1>5 DEF RestOK, burnerVars, hubVars, slotVars
<1> QED BY <1>1, <1>6, InvPartsNext

\* In a new frame no bad debt has been set aside yet.
LEMMA InvNextRefSlot ==
  ASSUME Inv, NextRefSlot
  PROVE  Inv'
<1>1. LedgerOK' /\ shares' = shares /\ externalShares' = externalShares
  BY LedgerUntouched DEF NextRefSlot
<1>2. RestOK
  BY InvParts
<1>3. /\ refSlot' = refSlot + 1
      /\ UNCHANGED <<burnerVars, unfinalized, hubVars, vaultVars, lastProcessingRefSlot>>
  BY DEF NextRefSlot
<1>4. refSlot' \in Nat /\ lastProcessingRefSlot' \in 0..refSlot'
  BY <1>2, <1>3 DEF RestOK
<1>5. BadDebtDated' /\ badDebtToInternalize.refSlot # refSlot'
  BY <1>2, <1>3 DEF RestOK, BadDebtDated, hubVars
<1>6. ExternalSharesOwned'
  <2>1. /\ externalShares' = liabilityShares' + badDebtToInternalize'.value
        /\ badDebtToInternalize.value \in Nat
    BY <1>1, <1>2, <1>3 DEF RestOK, ExternalSharesOwned, hubVars
  <2>2. ValueForLastRefSlot(badDebtToInternalize', refSlot') = badDebtToInternalize.value
    BY <1>3, <1>5 DEF ValueForLastRefSlot, hubVars
  <2> QED BY <1>3, <2>1, <2>2 DEF ExternalSharesOwned, hubVars
<1>7. BurnerBacked'
  BY <1>1, <1>2, <1>3 DEF RestOK, BurnerBacked, SharesBurnRequested, burnerVars
<1>8. RestOK'
  BY <1>2, <1>3, <1>4, <1>5, <1>6, <1>7 DEF RestOK, burnerVars, hubVars, vaultVars
<1> QED BY <1>1, <1>8, InvPartsNext

-----------------------------------------------------------------------------
(* The report.                                                             *)

\* How the simulated values are made from one another.
LEMMA SimulationParts ==
  ASSUME NEW r, NEW u, u = Simulate(r)
  PROVE  /\ u.etherToFinalizeWQ = EtherToLock(r.batches, r.shareRate)
         /\ u.sharesToFinalizeWQ = IF r.batches = {} THEN 0 ELSE SumShares(1, Max(r.batches))
         /\ u.badDebt = ValueForLastRefSlot(badDebtToInternalize, refSlot)
         /\ u.sharesBeforeFees = InternalShares - u.totalSharesToBurn
         /\ u.postInternalShares = u.sharesBeforeFees + u.sharesToMintAsFees + u.badDebt
         /\ u.postExternalShares = externalShares - u.badDebt
         /\ u.postTotalShares = u.postInternalShares + u.postExternalShares
         /\ u.postInternalEther = InternalEther + r.clChange + u.withdrawals
                                    + u.elRewards - u.etherToFinalizeWQ
         /\ u.postTotalPooledEther =
              IF u.postInternalShares <= 0 THEN 0
              ELSE u.postInternalEther
                     + (u.postExternalShares * u.postInternalEther) \div u.postInternalShares
<1>1. PICK eth, shs, sm :
        /\ eth = EtherToLock(r.batches, r.shareRate)
        /\ shs = IF r.batches = {} THEN 0 ELSE SumShares(1, Max(r.batches))
        /\ sm = Smoothened(r, eth, shs)
  OBVIOUS
<1>2. u = CalculatedUpdate(r, eth, shs, sm)
  BY <1>1 DEF Simulate, SimulateWith
<1>3. u.etherToFinalizeWQ = eth /\ u.sharesToFinalizeWQ = shs
  BY ONLY <1>2 DEF CalculatedUpdate
<1>4. /\ u.badDebt = ValueForLastRefSlot(badDebtToInternalize, refSlot)
      /\ u.sharesBeforeFees = InternalShares - u.totalSharesToBurn
      /\ u.postInternalShares = u.sharesBeforeFees + u.sharesToMintAsFees + u.badDebt
      /\ u.postExternalShares = externalShares - u.badDebt
      /\ u.postTotalShares = u.postInternalShares + u.postExternalShares
  BY ONLY <1>2 DEF CalculatedUpdate
<1>5. u.postInternalEther = InternalEther + r.clChange + u.withdrawals
                              + u.elRewards - u.etherToFinalizeWQ
  BY ONLY <1>2 DEF CalculatedUpdate
<1>6. u.postTotalPooledEther =
        IF u.postInternalShares <= 0 THEN 0
        ELSE u.postInternalEther
               + (u.postExternalShares * u.postInternalEther) \div u.postInternalShares
  BY ONLY <1>2 DEF CalculatedUpdate
<1> QED BY <1>1, <1>3, <1>4, <1>5, <1>6

\* What a report that is applied was checked for.
LEMMA ReportParts ==
  ASSUME Inv, NEW r \in Reports, NEW u, u = Simulate(r), HandleSimulated(r, u)
  PROVE  /\ u.etherToFinalizeWQ \in Nat /\ u.sharesToFinalizeWQ \in Nat
         /\ u.withdrawals \in Nat /\ u.elRewards \in Nat /\ u.totalSharesToBurn \in Nat
         /\ u.sharesToMintAsFees \in Nat /\ u.badDebt \in Nat
         /\ u.postInternalShares \in Nat \ {0}
         /\ u.sharesToFinalizeWQ <= shares[Queue]
         /\ u.badDebt <= badDebtToInternalize.value /\ u.badDebt <= externalShares
         /\ u.totalSharesToBurn <= SharesBurnRequested + u.sharesToFinalizeWQ
         /\ u.totalSharesToBurn <= shares[Burner] + u.sharesToFinalizeWQ
         /\ u.withdrawals <= withdrawalVault /\ u.elRewards <= elRewardsVault
         /\ u.etherToFinalizeWQ <= bufferedEther + u.elRewards + u.withdrawals
         /\ ClBalance(r) >= 0
         /\ ApplyOracleReport(r, u)
<1>1. u \in CalculatedValues
  BY DEF HandleSimulated, Admissible
<1>2. /\ u.etherToFinalizeWQ \in Nat /\ u.sharesToFinalizeWQ \in Nat
      /\ u.withdrawals \in Nat /\ u.elRewards \in Nat /\ u.totalSharesToBurn \in Nat
      /\ u.sharesToMintAsFees \in Nat /\ u.badDebt \in Nat
      /\ u.postInternalShares \in Nat \ {0}
  BY ONLY <1>1 DEF CalculatedValues
<1>3. AppliesCleanly(u) /\ ApplyOracleReport(r, u)
  BY DEF HandleSimulated, ApplyOracleReport
<1>4. ClBalance(r) >= 0 /\ u.etherToFinalizeWQ <= bufferedEther + u.elRewards + u.withdrawals
  BY DEF HandleSimulated, Admissible
<1> QED BY <1>2, <1>3, <1>4 DEF AppliesCleanly

LEMMA ReportTyped ==
  ASSUME NEW r \in Reports
  PROVE  /\ r.clValidators \in clValidators..depositedValidators
         /\ r.clChange \in ClChanges /\ r.batches \in BatchSets /\ r.shareRate \in ShareRates
         /\ r.withdrawalVaultBalance \in 0..withdrawalVault
         /\ r.elRewardsVaultBalance \in 0..elRewardsVault
         /\ r.sharesRequestedToBurn \in {0, SharesBurnRequested}
BY DEF Reports

\* The module's part of the fee is no more than the fee.
LEMMA ModulePart ==
  ASSUME NEW fee \in Nat
  PROVE  (fee * ModuleFee) \div TotalFee \in 0..fee
<1>1. ModuleFee \in Nat /\ TotalFee \in Nat \ {0} /\ ModuleFee <= TotalFee
  BY FeeAssumption
<1>2. fee * ModuleFee \in Nat /\ fee * ModuleFee <= fee * TotalFee
  BY <1>1
<1> DEFINE p == fee * ModuleFee
<1> HIDE DEF p
<1>3. p \in Nat /\ p <= fee * TotalFee
  BY <1>2 DEF p
<1>4. p \div TotalFee \in Nat /\ p \div TotalFee <= fee
  BY <1>1, <1>3, QuotientNat, QuotientAtMost
<1> QED BY <1>4 DEF p

\* The accounts after a report, one after the other.
LEMMA LedgerReport ==
  ASSUME Inv, NEW r \in Reports, NEW u, u = Simulate(r), HandleSimulated(r, u)
  PROVE  /\ shares' \in [Accounts -> Nat]
         /\ SumOf(shares', Accounts) = totalShares'
         /\ totalShares' = totalShares - u.totalSharesToBurn + u.sharesToMintAsFees
         /\ shares'[Burner] = shares[Burner] + u.sharesToFinalizeWQ - u.totalSharesToBurn
         /\ shares'[Queue] = shares[Queue] - u.sharesToFinalizeWQ
<1> DEFINE w    == u.sharesToFinalizeWQ
           burn == u.totalSharesToBurn
           fee  == u.sharesToMintAsFees
           part == (fee * ModuleFee) \div TotalFee
<1>1. /\ w \in Nat /\ burn \in Nat /\ fee \in Nat
      /\ w <= shares[Queue] /\ burn <= shares[Burner] + w
      /\ shares' = SharesAfterReport(u)
      /\ totalShares' = totalShares - burn + fee
  BY ReportParts DEF ApplyOracleReport
<1>2. part \in Nat /\ part <= fee
  BY <1>1, ModulePart
<1>3. /\ {Burner, Queue, Treasury, FeeRecipient} \subseteq Accounts
      /\ Burner # Queue /\ Burner # Treasury /\ Queue # Treasury
      /\ FeeRecipient \notin {Burner, Queue, Treasury}
  BY BurnerApart
<1>4. shares \in [Accounts -> Nat]
  BY TypeParts
<1>5. shares' = [a \in Accounts |-> shares[a] +
                   (CASE a = Queue        -> - w
                      [] a = Burner       -> w - burn
                      [] a = FeeRecipient -> part
                      [] a = Treasury     -> fee - part
                      [] OTHER            -> 0)]
  BY <1>1 DEF SharesAfterReport
<1> HIDE DEF w, burn, fee, part
<1>6. /\ shares'[Queue] = shares[Queue] - w
      /\ shares'[Burner] = shares[Burner] + w - burn
      /\ shares'[FeeRecipient] = shares[FeeRecipient] + part
      /\ shares'[Treasury] = shares[Treasury] + fee - part
      /\ \A a \in Accounts \ {Queue, Burner, FeeRecipient, Treasury} : shares'[a] = shares[a]
  BY <1>1, <1>2, <1>3, <1>4, <1>5
<1>7. shares' \in [Accounts -> Nat]
  <2>1. /\ shares'[Queue] \in Nat /\ shares'[Burner] \in Nat
        /\ shares'[FeeRecipient] \in Nat /\ shares'[Treasury] \in Nat
    BY <1>1, <1>2, <1>3, <1>4, <1>6
  <2>2. \A a \in Accounts : shares'[a] \in Nat
    BY <1>4, <1>6, <2>1
  <2> QED BY <1>5, <2>2
<1>8. PICK f, g, h :
        /\ f = [shares EXCEPT ![Queue] = shares'[Queue]]
        /\ g = [f EXCEPT ![Burner] = shares'[Burner]]
        /\ h = [g EXCEPT ![FeeRecipient] = shares'[FeeRecipient]]
  OBVIOUS
<1>9. /\ f \in [Accounts -> Nat] /\ f[Queue] = shares[Queue] - w
      /\ \A a \in Accounts : a # Queue => f[a] = shares[a]
  BY <1>3, <1>4, <1>6, <1>7, <1>8
<1>10. /\ g \in [Accounts -> Nat] /\ g[Burner] = f[Burner] + (w - burn)
       /\ \A a \in Accounts : a # Burner => g[a] = f[a]
  BY <1>1, <1>3, <1>4, <1>6, <1>7, <1>8, <1>9
<1>11. /\ h \in [Accounts -> Nat] /\ h[FeeRecipient] = g[FeeRecipient] + part
       /\ \A a \in Accounts : a # FeeRecipient => h[a] = g[a]
  BY <1>2, <1>3, <1>4, <1>6, <1>7, <1>8, <1>9, <1>10
<1>12. /\ shares'[Treasury] = h[Treasury] + (fee - part)
       /\ \A a \in Accounts : a # Treasury => shares'[a] = h[a]
  BY <1>1, <1>2, <1>3, <1>4, <1>6, <1>9, <1>10, <1>11
<1>13. SumOf(shares', Accounts) = totalShares'
  <2>0. PICK d1 \in Int, d2 \in Int, d3 \in Int, d4 \in Int :
          d1 = -w /\ d2 = w - burn /\ d3 = part /\ d4 = fee - part
    BY <1>1, <1>2
  <2>1. SumOf(f, Accounts) = SumOf(shares, Accounts) + d1
    <3>1. \A x \in Accounts : f[x] \in Int /\ shares[x] \in Int
      BY <1>4, <1>9
    <3>2. f[Queue] = shares[Queue] + d1 /\ Queue \in Accounts
      BY <1>1, <1>3, <1>4, <1>9, <2>0
    <3>3. \A x \in Accounts : x # Queue => f[x] = shares[x]
      BY <1>9
    <3> QED BY ONLY <3>1, <3>2, <3>3, d1 \in Int, OneChanges
  <2>2. SumOf(g, Accounts) = SumOf(f, Accounts) + d2
    <3>1. \A x \in Accounts : g[x] \in Int /\ f[x] \in Int
      BY <1>9, <1>10
    <3>2. g[Burner] = f[Burner] + d2 /\ Burner \in Accounts
      BY <1>3, <1>10, <2>0
    <3>3. \A x \in Accounts : x # Burner => g[x] = f[x]
      BY <1>10
    <3> QED BY ONLY <3>1, <3>2, <3>3, d2 \in Int, OneChanges
  <2>3. SumOf(h, Accounts) = SumOf(g, Accounts) + d3
    <3>1. \A x \in Accounts : h[x] \in Int /\ g[x] \in Int
      BY <1>10, <1>11
    <3>2. h[FeeRecipient] = g[FeeRecipient] + d3 /\ FeeRecipient \in Accounts
      BY <1>3, <1>11, <2>0
    <3>3. \A x \in Accounts : x # FeeRecipient => h[x] = g[x]
      BY <1>11
    <3> QED BY ONLY <3>1, <3>2, <3>3, d3 \in Int, OneChanges
  <2>4. SumOf(shares', Accounts) = SumOf(h, Accounts) + d4
    <3>1. \A x \in Accounts : shares'[x] \in Int /\ h[x] \in Int
      BY <1>7, <1>11
    <3>2. shares'[Treasury] = h[Treasury] + d4 /\ Treasury \in Accounts
      BY <1>3, <1>12, <2>0
    <3>3. \A x \in Accounts : x # Treasury => shares'[x] = h[x]
      BY <1>12
    <3> QED BY ONLY <3>1, <3>2, <3>3, d4 \in Int, OneChanges
  <2>5. SumOf(shares, Accounts) = totalShares /\ totalShares \in Nat
    BY LedgerSum, TypeParts
  <2> QED BY <1>1, <1>2, <2>0, <2>1, <2>2, <2>3, <2>4, <2>5
<1> QED BY <1>1, <1>6, <1>7, <1>13 DEF w, burn, fee

LEMMA ReportRest ==
  ASSUME Inv, NEW r \in Reports, NEW u, u = Simulate(r), HandleSimulated(r, u)
  PROVE  /\ coverSharesBurnRequested' \in Nat /\ nonCoverSharesBurnRequested' \in Nat
         /\ SharesBurnRequested' =
              SharesBurnRequested + u.sharesToFinalizeWQ - u.totalSharesToBurn
<1> DEFINE w     == u.sharesToFinalizeWQ
           burn  == u.totalSharesToBurn
           cover == coverSharesBurnRequested
           other == nonCoverSharesBurnRequested
           burnt == Min({burn, cover})
<1>1. /\ w \in Nat /\ burn \in Nat /\ burn <= SharesBurnRequested + w
      /\ CommitSharesToBurn(u)
  BY ReportParts DEF ApplyOracleReport
<1>2. cover \in Nat /\ other \in Nat
  BY DEF Inv, TypeOK
<1>3. /\ coverSharesBurnRequested' = cover - burnt
      /\ nonCoverSharesBurnRequested' = other + w - (burn - burnt)
  BY <1>1 DEF CommitSharesToBurn
<1>4. SharesBurnRequested = cover + other
  BY DEF SharesBurnRequested
<1>5. SharesBurnRequested' = coverSharesBurnRequested' + nonCoverSharesBurnRequested'
  BY DEF SharesBurnRequested
<1> HIDE DEF w, burn, cover, other
<1>6. burnt \in {burn, cover} /\ burnt <= burn /\ burnt <= cover
  BY <1>1, <1>2, MinOfTwo
<1> HIDE DEF burnt
<1>7. burnt \in Nat
  BY <1>1, <1>2, <1>6
<1>8. cover - burnt \in Nat /\ other + w - (burn - burnt) \in Nat
  BY <1>1, <1>2, <1>4, <1>6, <1>7
<1>9. (cover - burnt) + (other + w - (burn - burnt)) = (cover + other) + w - burn
  BY <1>1, <1>2, <1>7
<1> QED BY <1>3, <1>4, <1>5, <1>8, <1>9 DEF w, burn

LEMMA ReportQueue ==
  ASSUME Inv, NEW r \in Reports, NEW u, u = Simulate(r), HandleSimulated(r, u)
  PROVE  unfinalized' \in Seq([stETH : Nat, shares : Nat])
<1>1. unfinalized \in Seq([stETH : Nat, shares : Nat]) /\ Len(unfinalized) \in Nat
  BY QueuedTyped DEF Inv, TypeOK
<1>2. unfinalized' = AfterFinalize(r, u)
  BY ReportParts DEF ApplyOracleReport
<1>3. CASE u.etherToFinalizeWQ = 0
  BY <1>1, <1>2, <1>3 DEF AfterFinalize
<1>4. CASE u.etherToFinalizeWQ # 0
  <2>1. r.batches # {}
    BY <1>4, SimulationParts, NothingToLock
  <2>2. r.batches \in SUBSET (1..Len(unfinalized))
    BY ReportTyped DEF BatchSets
  <2>3. Max(r.batches) \in r.batches
    <3>1. r.batches \in SUBSET (0..Len(unfinalized))
      BY <2>2
    <3> QED BY <1>1, <2>1, <3>1, MaxOfBounded
  <2>4. PICK last \in 1..Len(unfinalized) : last = Max(r.batches)
    BY <2>2, <2>3
  <2>5. unfinalized' = SubSeq(unfinalized, last + 1, Len(unfinalized))
    BY <1>2, <1>4, <2>4 DEF AfterFinalize
  <2>6. \A i \in last + 1 .. Len(unfinalized) :
          unfinalized[i] \in [stETH : Nat, shares : Nat]
    <3>1. \A i \in last + 1 .. Len(unfinalized) : i \in 1..Len(unfinalized)
      BY <1>1, <2>4
    <3>2. \A i \in 1..Len(unfinalized) : unfinalized[i] \in [stETH : Nat, shares : Nat]
      BY ONLY <1>1, ElementOfSeq
    <3> QED BY <3>1, <3>2
  <2> QED BY <1>1, <2>4, <2>5, <2>6, SubSeqProperties
<1> QED BY <1>3, <1>4

LEMMA InvReport ==
  ASSUME Inv, NEW r \in Reports, HandleOracleReport(r)
  PROVE  Inv'
<1>1. PICK u : u = Simulate(r) /\ HandleSimulated(r, u)
  BY DEF HandleOracleReport
<1>2. /\ u.withdrawals \in Nat /\ u.elRewards \in Nat /\ u.etherToFinalizeWQ \in Nat
      /\ u.totalSharesToBurn \in Nat /\ u.sharesToMintAsFees \in Nat
      /\ u.badDebt \in Nat /\ u.sharesToFinalizeWQ \in Nat
      /\ u.badDebt <= badDebtToInternalize.value /\ u.badDebt <= externalShares
      /\ u.withdrawals <= withdrawalVault /\ u.elRewards <= elRewardsVault
      /\ u.etherToFinalizeWQ <= bufferedEther + u.elRewards + u.withdrawals
      /\ ClBalance(r) >= 0
      /\ u.postInternalShares \in Nat \ {0}
      /\ ApplyOracleReport(r, u)
  BY <1>1, ReportParts
<1>3. /\ shares' \in [Accounts -> Nat]
      /\ SumOf(shares', Accounts) = totalShares'
      /\ totalShares' = totalShares - u.totalSharesToBurn + u.sharesToMintAsFees
      /\ shares'[Burner] = shares[Burner] + u.sharesToFinalizeWQ - u.totalSharesToBurn
  BY <1>1, LedgerReport
<1>4. /\ coverSharesBurnRequested' \in Nat /\ nonCoverSharesBurnRequested' \in Nat
      /\ SharesBurnRequested' =
           SharesBurnRequested + u.sharesToFinalizeWQ - u.totalSharesToBurn
  BY <1>1, ReportRest
<1>5. unfinalized' \in Seq([stETH : Nat, shares : Nat])
  BY <1>1, ReportQueue
<1>6. /\ clBalance' = ClBalance(r) /\ clValidators' = r.clValidators
      /\ badDebtToInternalize' = DecreasedBadDebt(u.badDebt)
      /\ externalShares' = externalShares - u.badDebt
      /\ withdrawalVault' = withdrawalVault - u.withdrawals
      /\ elRewardsVault' = elRewardsVault - u.elRewards
      /\ bufferedEther' = bufferedEther + u.elRewards + u.withdrawals - u.etherToFinalizeWQ
      /\ lastProcessingRefSlot' = refSlot
      /\ UNCHANGED <<depositedValidators, maxExternalRatioBP, stopped, stakeLimit, block,
                     liabilityShares, refSlot>>
  BY <1>2 DEF ApplyOracleReport, adminVars
<1>7. RestOK
  BY InvParts
<1>8. LedgerOK'
  <2>1. clBalance' \in Nat
    <3>1. r.clValidators \in Int /\ r.clChange \in Int /\ clValidators \in Int /\ clBalance \in Int
      <4>1. clValidators \in Int /\ clBalance \in Int /\ depositedValidators \in Int
        BY TypeParts
      <4>2. r.clValidators \in clValidators..depositedValidators /\ r.clChange \in ClChanges
        BY ReportTyped
      <4>3. ClChanges \subseteq Int
        BY InputAssumption
      <4>4. r.clValidators \in Int
        BY ONLY <4>1, <4>2
      <4>5. r.clChange \in Int
        BY ONLY <4>2, <4>3
      <4> QED BY ONLY <4>1, <4>4, <4>5
    <3>2. (r.clValidators - clValidators) * DepositSize \in Int
      BY <3>1, LidoAssumption
    <3>3. ClBalance(r) \in Int
      BY <3>1, <3>2 DEF ClBalance, PrincipalClBalance
    <3> QED BY <1>2, <1>6, <3>3
  <2>2. clValidators' \in 0..depositedValidators'
    BY <1>6, ReportTyped, TypeParts
  <2>3. bufferedEther' \in Nat
    BY <1>2, <1>6, TypeParts
  <2>4. /\ totalShares' \in Nat /\ externalShares' \in 0..totalShares'
        /\ externalShares' < totalShares'
    <3>1. /\ u.sharesBeforeFees = InternalShares - u.totalSharesToBurn
          /\ u.postInternalShares = u.sharesBeforeFees + u.sharesToMintAsFees + u.badDebt
      BY <1>1, SimulationParts
    <3>2. u.postInternalShares = totalShares' - externalShares'
      BY <1>2, <1>3, <1>6, <3>1, TypeParts DEF InternalShares
    <3> QED BY <1>2, <1>3, <1>6, <3>2, TypeParts
  <2>5. LidoTypeOK /\ StakeLimitDated
    BY TypeParts DEF Inv
  <2>6. LidoTypeOK'
    <3>1. /\ maxExternalRatioBP' \in 0..TotalBasisPoints /\ stopped' \in BOOLEAN
          /\ stakeLimit' \in StakeLimitData /\ block' \in Nat \ {0}
          /\ depositedValidators' \in Nat
      BY <1>6, <2>5 DEF LidoTypeOK
    <3> QED BY <1>3, <2>1, <2>2, <2>3, <2>4, <3>1 DEF LidoTypeOK
  <2>7. StakeLimitDated'
    BY <1>6, <2>5 DEF StakeLimitDated
  <2> QED BY <1>3, <2>4, <2>6, <2>7, LedgerFrom
<1>9. /\ badDebtToInternalize' \in [value : Nat, valueOnRefSlot : Nat, refSlot : Nat]
      /\ badDebtToInternalize'.value = badDebtToInternalize.value - u.badDebt
      /\ badDebtToInternalize'.refSlot = badDebtToInternalize.refSlot
  <2>1. badDebtToInternalize \in [value : Nat, valueOnRefSlot : Nat, refSlot : Nat]
    BY <1>7 DEF RestOK
  <2>2. badDebtToInternalize.value - u.badDebt \in Nat
    BY <1>2, <2>1
  <2>3. badDebtToInternalize' =
          [badDebtToInternalize EXCEPT !.value = badDebtToInternalize.value - u.badDebt]
    BY <1>6 DEF DecreasedBadDebt
  <2> QED BY <2>1, <2>2, <2>3
<1>10. BurnerBacked'
  <2>1. shares[Burner] >= SharesBurnRequested /\ SharesBurnRequested \in Nat
    BY <1>7 DEF RestOK, BurnerBacked, SharesBurnRequested
  <2>2. shares[Burner] \in Nat
    BY TypeParts, BurnerApart
  <2>3. shares'[Burner] >= SharesBurnRequested'
    BY <1>2, <1>3, <1>4, <2>1, <2>2
  <2> QED BY <2>3 DEF BurnerBacked
<1>11. ExternalSharesOwned' /\ BadDebtDated'
  <2>1. externalShares = liabilityShares + badDebtToInternalize.value
        /\ badDebtToInternalize.value \in Nat /\ liabilityShares \in Nat /\ refSlot \in Nat
        /\ badDebtToInternalize.refSlot <= refSlot
    BY <1>7 DEF RestOK, ExternalSharesOwned, BadDebtDated
  <2>2. externalShares' = liabilityShares' + badDebtToInternalize'.value
    BY <1>2, <1>6, <1>9, <2>1
  <2>3. ~ (lastProcessingRefSlot' < refSlot')
    BY <1>6, <2>1
  <2> QED BY <1>6, <1>9, <2>1, <2>2, <2>3 DEF ExternalSharesOwned, BadDebtDated
<1>12. withdrawalVault' \in Nat /\ elRewardsVault' \in Nat
       /\ refSlot' \in Nat /\ lastProcessingRefSlot' \in 0..refSlot' /\ liabilityShares' \in Nat
  <2>1. /\ withdrawalVault \in Nat /\ elRewardsVault \in Nat /\ refSlot \in Nat
        /\ liabilityShares \in Nat
    BY <1>7 DEF RestOK
  <2>2. withdrawalVault' \in Nat /\ elRewardsVault' \in Nat
    BY <1>2, <1>6, <2>1
  <2> QED BY <1>6, <2>1, <2>2
<1>13. RestOK'
  BY <1>4, <1>5, <1>9, <1>10, <1>11, <1>12 DEF RestOK
<1> QED BY <1>8, <1>13, InvPartsNext

-----------------------------------------------------------------------------
(* The share rate.                                                         *)

LEMMA RateGrows ==
  ASSUME NEW e \in Nat, NEW s \in Nat, NEW v \in Nat, NEW n \in Nat, e * n <= v * s
  PROVE  (e + v) * s >= e * (s + n)
<1>1. (e + v) * s = e * s + v * s /\ e * (s + n) = e * s + e * n
  OBVIOUS
<1>2. e * s \in Int /\ v * s \in Int /\ e * n \in Int
  OBVIOUS
<1> QED BY <1>1, <1>2

LEMMA RateStays ==
  ASSUME Inv, InternalEther' = InternalEther, InternalShares' = InternalShares
  PROVE  InternalEther' * InternalShares >= InternalEther * InternalShares'
<1>1. InternalEther \in Nat /\ InternalShares \in Nat
  BY TypeParts, InternalAmounts
<1> DEFINE e == InternalEther
           s == InternalShares
<1>2. e * s \in Int /\ e * s >= e * s
  BY <1>1
<1> QED BY <1>2

\* The internal amounts depend on six variables.
LEMMA SameAmounts ==
  ASSUME UNCHANGED <<bufferedEther, clBalance, depositedValidators, clValidators>>,
         totalShares' - externalShares' = totalShares - externalShares
  PROVE  InternalEther' = InternalEther /\ InternalShares' = InternalShares
BY DEF InternalEther, InternalShares

LEMMA RateThroughSubmit ==
  ASSUME Inv, NEW sender \in Accounts, NEW value \in Nat, Submit(sender, value)
  PROVE  InternalEther' * InternalShares >= InternalEther * InternalShares'
<1> DEFINE e == InternalEther
           s == InternalShares
           n == (value * s) \div e
<1>1. e \in Nat \ {0} /\ s \in Nat
  BY TypeParts, InternalAmounts DEF Submit
<1>2. totalShares' = totalShares + n /\ externalShares' = externalShares
  BY DEF Submit, MintTo, SharesByPooledEth
<1>3. /\ bufferedEther' = bufferedEther + value
      /\ UNCHANGED <<clBalance, depositedValidators, clValidators>>
  BY DEF Submit
<1>4. e' = e + value
  <2>1. (depositedValidators - clValidators) * DepositSize \in Int
    BY TypeParts, LidoAssumption
  <2> QED BY <1>3, <2>1, TypeParts DEF InternalEther
<1> HIDE DEF e
<1>5. value * s \in Nat
  BY <1>1, ProductNat
<1>6. n \in Nat /\ e * n <= value * s
  BY <1>1, <1>5, QuotientNat
<1> HIDE DEF n
<1>7. s' = s + n
  BY <1>2, <1>6, TypeParts DEF InternalShares
<1> HIDE DEF s
<1>8. (e + value) * s >= e * (s + n)
  BY <1>1, <1>6, RateGrows
<1>9. e' * s >= e * s'
  BY <1>4, <1>7, <1>8
<1> QED BY <1>9 DEF e, s

LEMMA RateThroughRebalance ==
  ASSUME Inv, NEW n \in Nat,
         RebalanceExternalEtherToInternal(PooledEthBySharesRoundUp(n), n)
  PROVE  InternalEther' * InternalShares >= InternalEther * InternalShares'
<1> DEFINE e == InternalEther
           s == InternalShares
           v == (n * e + s - 1) \div s
<1>1. e \in Nat /\ s \in Nat \ {0}
  BY TypeParts, InternalAmounts
<1>2. totalShares' = totalShares /\ externalShares' = externalShares - n
  BY DEF RebalanceExternalEtherToInternal
<1>3. /\ bufferedEther' = bufferedEther + v
      /\ UNCHANGED <<clBalance, depositedValidators, clValidators>>
  BY DEF RebalanceExternalEtherToInternal, PooledEthBySharesRoundUp
<1>4. s' = s + n
  BY <1>2, TypeParts DEF InternalShares
<1> HIDE DEF s
<1>5. v \in Nat /\ e * n <= v * s
  <2> DEFINE a == n * e + s - 1
  <2>1. n * e \in Nat /\ e * n = n * e
    BY <1>1, ProductNat
  <2>2. a \in Nat /\ n * e = a - s + 1
    BY <1>1, <2>1
  <2> HIDE DEF a
  <2>3. a \div s \in Nat /\ a < s * (a \div s) + s
    BY <1>1, <2>2, QuotientNat
  <2> DEFINE q == a \div s
  <2> HIDE DEF q
  <2>4. q \in Nat /\ a < s * q + s /\ s * q = q * s /\ q * s \in Int
    BY <1>1, <2>3 DEF q
  <2>5. e * n <= q * s
    BY <1>1, <2>1, <2>2, <2>4
  <2> QED BY <2>4, <2>5 DEF q, a
<1>6. e' = e + v
  <2>1. (depositedValidators - clValidators) * DepositSize \in Int
    BY TypeParts, LidoAssumption
  <2> HIDE DEF v
  <2> QED BY <1>3, <1>5, <2>1, TypeParts DEF InternalEther
<1> HIDE DEF e, v
<1>7. (e + v) * s >= e * (s + n)
  BY <1>1, <1>5, RateGrows
<1>8. e' * s >= e * s'
  BY <1>4, <1>6, <1>7
<1> QED BY <1>8 DEF e, s

LEMMA RateThroughDeposit ==
  ASSUME Inv, NEW count \in Nat, NEW reserve, Deposit(count, reserve)
  PROVE  InternalEther' = InternalEther /\ InternalShares' = InternalShares
<1>1. /\ bufferedEther' = bufferedEther - count * DepositSize
      /\ depositedValidators' = depositedValidators + count
      /\ UNCHANGED <<totalShares, externalShares, clBalance, clValidators>>
  BY DEF Deposit, shareVars
<1>2. ASSUME NEW d \in Int, NEW v \in Int, NEW c \in Int, NEW z \in Int
      PROVE  (d + c - v) * z = (d - v) * z + c * z
  OBVIOUS
<1>3. (depositedValidators + count - clValidators) * DepositSize
        = (depositedValidators - clValidators) * DepositSize + count * DepositSize
  BY <1>2, TypeParts, LidoAssumption
<1>4. (depositedValidators - clValidators) * DepositSize \in Int /\ count * DepositSize \in Int
  BY TypeParts, LidoAssumption
<1> QED BY <1>1, <1>3, <1>4, TypeParts DEF InternalEther, InternalShares

\* Every step between reports.
LEMMA RateNext ==
  ASSUME Inv, Next
  PROVE  RateNotDilutedStep
<1> DEFINE Kept == InternalEther' * InternalShares >= InternalEther * InternalShares'
<1>1. InternalEther' = InternalEther /\ InternalShares' = InternalShares => Kept
  BY RateStays DEF Kept
<1>15. Kept => RateNotDilutedStep
  BY DEF RateNotDilutedStep, Kept
<1> HIDE DEF Kept
<1>2. ASSUME NEW from, NEW to, NEW n, TransferShares(from, to, n)
      PROVE  Kept
  BY <1>1, <1>2, SameAmounts DEF TransferShares, etherVars
<1>3. CASE \E u \in Users, a \in Recipients, n \in ShareAmounts : UserTransfers(u, a, n)
  BY <1>2, <1>3, <1>15 DEF UserTransfers
<1>4. CASE \E u \in Users, v \in Deposits : UserSubmits(u, v)
  <2>1. \A u \in Users : u \in Accounts
    BY BurnerApart
  <2>2. \A v \in Deposits : v \in Nat
    BY InputAssumption
  <2> QED BY <1>4, <1>15, <2>1, <2>2, RateThroughSubmit DEF UserSubmits, Kept
<1>5. CASE \E u \in Users, v \in Withdrawals : RequestWithdrawal(u, v)
  BY <1>2, <1>5, <1>15 DEF RequestWithdrawal
<1>6. CASE \E c \in 1..MaxShares : DepositBufferedEther(c)
  BY <1>1, <1>6, <1>15, RateThroughDeposit, LidoAssumption DEF DepositBufferedEther
<1>7. CASE \/ \E u \in Users, n \in BurnAmounts, b \in BOOLEAN : RequestBurnShares(u, n, b)
           \/ \E u \in Users, v \in StETHAmounts, b \in BOOLEAN : RequestBurnMyStETH(u, v, b)
           \/ RecoverExcessStETH
  BY <1>2, <1>7, <1>15 DEF RequestBurnShares, RequestBurnMyStETH, RecoverExcessStETH
<1>8. \A n \in ShareAmounts : n \in Nat
  BY InputAssumption
<1>9. CASE \E u \in Users, n \in ShareAmounts : HubMintShares(u, n)
  <2>1. PICK n \in ShareAmounts :
          /\ externalShares' = externalShares + n /\ totalShares' = totalShares + n
          /\ UNCHANGED <<bufferedEther, clBalance, depositedValidators, clValidators>>
    BY <1>9 DEF HubMintShares, MintExternalShares, MintTo, etherVars
  <2> QED BY <1>1, <1>8, <1>15, <2>1, SameAmounts, TypeParts
<1>10. CASE \E n \in ShareAmounts : HubBurnShares(n)
  <2>1. PICK n \in ShareAmounts :
          /\ externalShares' = externalShares - n /\ totalShares' = totalShares - n
          /\ UNCHANGED <<bufferedEther, clBalance, depositedValidators, clValidators>>
    BY <1>10 DEF HubBurnShares, BurnExternalShares, etherVars
  <2> QED BY <1>1, <1>8, <1>15, <2>1, SameAmounts, TypeParts
<1>11. CASE \E n \in ShareAmounts : HubRebalance(n)
  BY <1>8, <1>11, <1>15, RateThroughRebalance DEF HubRebalance, Kept
<1>12. CASE (\E n \in ShareAmounts : InternalizeBadDebt(n)) \/ ReceiveRewards \/ NextRefSlot
  <2>1. UNCHANGED lidoVars
    BY <1>12 DEF InternalizeBadDebt, ReceiveRewards, NextRefSlot
  <2> QED BY <1>1, <1>15, <2>1, SameAmounts DEF lidoVars, shareVars, etherVars
<1>13. CASE Administer
  <2>1. UNCHANGED <<shareVars, etherVars>>
    BY <1>13 DEF Administer, Stop, PauseStaking, Resume, ResumeStaking, SetStakingLimit,
                 RemoveStakingLimit, SetMaxExternalRatioBP, NextBlock
  <2> QED BY <1>1, <1>15, <2>1, SameAmounts DEF shareVars, etherVars
<1>14. CASE \E r \in Reports : HandleOracleReport(r)
  <2>1. lastProcessingRefSlot < refSlot /\ lastProcessingRefSlot' = refSlot
    BY <1>14 DEF HandleOracleReport, HandleSimulated, Admissible, ApplyOracleReport
  <2>2. IsReport
    BY <2>1 DEF IsReport, Inv, TypeOK
  <2> QED BY <2>2 DEF RateNotDilutedStep
<1> QED BY <1>3, <1>4, <1>5, <1>6, <1>7, <1>9, <1>10, <1>11, <1>12, <1>13, <1>14
        DEF Next

\* What a report leaves behind is what was simulated.
LEMMA ReportAsSimulated ==
  ASSUME Inv, NEW r \in Reports, NEW u, u = Simulate(r), HandleSimulated(r, u)
  PROVE  /\ InternalEther' = u.postInternalEther
         /\ InternalShares' = u.postInternalShares
         /\ totalShares' = u.postTotalShares
         /\ TotalPooledEther' = u.postTotalPooledEther
<1>1. /\ u.etherToFinalizeWQ \in Nat /\ u.withdrawals \in Nat /\ u.elRewards \in Nat
      /\ u.totalSharesToBurn \in Nat /\ u.sharesToMintAsFees \in Nat /\ u.badDebt \in Nat
      /\ u.postInternalShares \in Nat \ {0}
      /\ ApplyOracleReport(r, u)
  BY ReportParts
<1>2. /\ clBalance' = ClBalance(r) /\ clValidators' = r.clValidators
      /\ externalShares' = externalShares - u.badDebt
      /\ bufferedEther' = bufferedEther + u.elRewards + u.withdrawals - u.etherToFinalizeWQ
      /\ totalShares' = totalShares - u.totalSharesToBurn + u.sharesToMintAsFees
      /\ depositedValidators' = depositedValidators
  BY <1>1 DEF ApplyOracleReport
<1>3. /\ u.sharesBeforeFees = InternalShares - u.totalSharesToBurn
      /\ u.postInternalShares = u.sharesBeforeFees + u.sharesToMintAsFees + u.badDebt
      /\ u.postExternalShares = externalShares - u.badDebt
      /\ u.postTotalShares = u.postInternalShares + u.postExternalShares
      /\ u.postInternalEther = InternalEther + r.clChange + u.withdrawals
                                 + u.elRewards - u.etherToFinalizeWQ
      /\ u.postTotalPooledEther =
           IF u.postInternalShares <= 0 THEN 0
           ELSE u.postInternalEther
                  + (u.postExternalShares * u.postInternalEther) \div u.postInternalShares
  BY SimulationParts
<1>4. InternalShares' = u.postInternalShares
  BY <1>1, <1>2, <1>3, TypeParts DEF InternalShares
<1>5. totalShares' = u.postTotalShares
  BY <1>1, <1>2, <1>3, TypeParts DEF InternalShares
<1>6. InternalEther' = u.postInternalEther
  <2>1. r.clValidators \in Int /\ r.clChange \in Int
    <3>1. r.clValidators \in clValidators..depositedValidators /\ r.clChange \in ClChanges
      BY ReportTyped
    <3>2. r.clChange \in Int
      BY <3>1, InputAssumption
    <3>3. clValidators \in Int /\ depositedValidators \in Int
      BY TypeParts
    <3>4. r.clValidators \in Int
      BY ONLY <3>1, <3>3
    <3> QED BY <3>2, <3>4
  <2>2. PICK d \in Int, v \in Int, w \in Int :
          d = depositedValidators /\ v = clValidators /\ w = r.clValidators
    BY <2>1, TypeParts
  <2>3. ASSUME NEW z \in Int
        PROVE  (w - v) * z + (d - w) * z = (d - v) * z
    OBVIOUS
  <2>4. PICK a \in Int, b \in Int, c \in Int :
          a = (w - v) * DepositSize /\ b = (d - w) * DepositSize /\ c = (d - v) * DepositSize
    BY <2>2, LidoAssumption
  <2>5. a + b = c
    BY <2>2, <2>3, <2>4, LidoAssumption
  <2>6. clBalance' = clBalance + a + r.clChange
    BY <1>2, <2>2, <2>4 DEF ClBalance, PrincipalClBalance
  <2>7. InternalEther = bufferedEther + clBalance + c
    BY <2>2, <2>4 DEF InternalEther
  <2>8. InternalEther' = bufferedEther' + clBalance' + b
    BY <1>2, <2>2, <2>4 DEF InternalEther
  <2>9. bufferedEther \in Int /\ clBalance \in Int
    BY TypeParts
  <2>10. bufferedEther' = bufferedEther + u.elRewards + u.withdrawals - u.etherToFinalizeWQ
    BY <1>2
  <2>11. u.postInternalEther = InternalEther + r.clChange + u.withdrawals
                                 + u.elRewards - u.etherToFinalizeWQ
    BY <1>3
  <2>12. u.etherToFinalizeWQ \in Int /\ u.withdrawals \in Int /\ u.elRewards \in Int
    BY <1>1
  <2>13. r.clChange \in Int
    BY <2>1
  <2> QED BY ONLY <2>5, <2>6, <2>7, <2>8, <2>9, <2>10, <2>11, <2>12, <2>13
<1>7. TotalPooledEther' = u.postTotalPooledEther
  <2>1. TotalPooledEther' = InternalEther' + (externalShares' * InternalEther') \div InternalShares'
    BY DEF TotalPooledEther
  <2>2. externalShares' = u.postExternalShares
    BY <1>2, <1>3
  <2>3. ~ (u.postInternalShares <= 0)
    BY <1>1
  <2> QED BY <1>3, <1>4, <1>6, <2>1, <2>2, <2>3
<1> QED BY <1>4, <1>5, <1>6, <1>7

-----------------------------------------------------------------------------
(* The limiter of the rebase.                                              *)

LimiterData ==
  [preTotalPooledEther : Nat, preTotalShares : Int, currentTotalPooledEther : Int,
   positiveRebaseLimit : Nat, maxTotalPooledEther : Int]
Limiters == {l \in LimiterData : IsUnlimited(l) \/ l.preTotalPooledEther # 0}

LEMMA LimiterChanged ==
  ASSUME NEW l \in Limiters, NEW n \in Int
  PROVE  /\ [l EXCEPT !.currentTotalPooledEther = n] \in Limiters
         /\ [l EXCEPT !.currentTotalPooledEther = n].currentTotalPooledEther = n
BY DEF Limiters, LimiterData, IsUnlimited

LEMMA LimiterIncreased ==
  ASSUME NEW l \in Limiters, NEW amount \in Nat
  PROVE  IncreaseEther(l, amount) \in Limiters /\ ConsumedEther(l, amount) <= amount
<1>1. PICK cur \in Int, most \in Int :
        cur = l.currentTotalPooledEther /\ most = l.maxTotalPooledEther
  BY DEF Limiters, LimiterData
<1>2. PICK sum \in Int : sum = cur + amount
  OBVIOUS
<1>3. PICK next : next = Min({sum, most})
  OBVIOUS
<1>4. next \in Int /\ next <= sum
  BY <1>3, MinOfTwo
<1>5. CASE IsUnlimited(l)
  BY <1>5 DEF IncreaseEther, ConsumedEther
<1>6. CASE ~IsUnlimited(l)
  <2>1. IncreaseEther(l, amount) = [l EXCEPT !.currentTotalPooledEther = next]
    BY <1>1, <1>2, <1>3, <1>6 DEF IncreaseEther
  <2>2. /\ IncreaseEther(l, amount) \in Limiters
        /\ IncreaseEther(l, amount).currentTotalPooledEther = next
    BY <1>4, <2>1, LimiterChanged
  <2>3. ConsumedEther(l, amount) = next - cur
    BY <1>1, <1>6, <2>2 DEF ConsumedEther
  <2> QED BY <1>2, <1>4, <2>2, <2>3
<1> QED BY <1>5, <1>6

LEMMA LimiterDecreased ==
  ASSUME NEW l \in Limiters, NEW amount \in Int
  PROVE  DecreaseEther(l, amount) \in Limiters
<1>1. l.currentTotalPooledEther - amount \in Int
  BY DEF Limiters, LimiterData
<1> QED BY <1>1, LimiterChanged DEF DecreaseEther

LEMMA BurnLimitTyped ==
  ASSUME NEW l \in Limiters
  PROVE  SharesToBurnLimit(l) \in Int
<1>1. PICK ether \in Nat, pre \in Int, cur \in Int, limit \in Nat :
        /\ ether = l.preTotalPooledEther /\ pre = l.preTotalShares
        /\ cur = l.currentTotalPooledEther /\ limit = l.positiveRebaseLimit
  BY DEF Limiters, LimiterData
<1>2. IsUnlimited(l) \/ ether # 0
  BY <1>1 DEF Limiters
<1>3. PICK p \in Nat \ {0} : p = LimiterPrecision
  BY LimiterAssumption
<1>4. CASE IsUnlimited(l)
  BY <1>1, <1>4 DEF SharesToBurnLimit
<1>5. CASE ~IsUnlimited(l) /\ IsLimitReached(l)
  BY <1>5 DEF SharesToBurnLimit
<1>6. CASE ~IsUnlimited(l) /\ ~IsLimitReached(l)
  <2>1. PICK scaled \in Int : scaled = cur * p
    OBVIOUS
  <2>2. PICK rate \in Int : rate = scaled \div ether
    BY <1>2, <1>6
  <2>3. PICK part \in Int : part = pre * (limit + p - rate)
    OBVIOUS
  <2>4. part \div (limit + p) \in Int
    OBVIOUS
  <2>5. SharesToBurnLimit(l) = part \div (limit + p)
    BY <1>1, <1>3, <1>6, <2>1, <2>2, <2>3 DEF SharesToBurnLimit, PooledEtherRate
  <2> QED BY <2>4, <2>5
<1> QED BY <1>4, <1>5, <1>6

\* A report takes no more than is in the vaults, and burns no more than it may.
LEMMA SmoothenedAtMost ==
  ASSUME NEW l \in Limiters, NEW preCL \in Int, NEW postCL \in Int, NEW w \in Nat, NEW e \in Nat,
         NEW asked \in Nat, NEW lock \in Nat, NEW new \in Nat,
         NEW sm, sm = SmoothenTokenRebase(l, preCL, postCL, w, e, asked, lock, new)
  PROVE  sm.withdrawals <= w /\ sm.elRewards <= e /\ sm.sharesToBurn <= new + asked
<1>1. PICK cl, wl, el, ll :
        /\ cl = AfterClUpdate(l, preCL, postCL) /\ wl = IncreaseEther(cl, w)
        /\ el = IncreaseEther(wl, e) /\ ll = DecreaseEther(el, lock)
  OBVIOUS
<1>2. /\ sm.withdrawals = ConsumedEther(cl, w) /\ sm.elRewards = ConsumedEther(wl, e)
      /\ sm.sharesToBurn = Min({SharesToBurnLimit(ll), new + asked})
  BY <1>1 DEF SmoothenTokenRebase
<1>3. cl \in Limiters
  <2>1. CASE postCL < preCL
    BY <1>1, <2>1, LimiterDecreased DEF AfterClUpdate
  <2>2. CASE ~(postCL < preCL)
    BY <1>1, <2>2, LimiterIncreased DEF AfterClUpdate
  <2> QED BY <2>1, <2>2
<1>4. wl \in Limiters /\ sm.withdrawals <= w
  BY <1>1, <1>2, <1>3, LimiterIncreased
<1>5. el \in Limiters /\ sm.elRewards <= e
  BY <1>1, <1>2, <1>4, LimiterIncreased
<1>6. SharesToBurnLimit(ll) \in Int
  BY <1>1, <1>5, LimiterDecreased, BurnLimitTyped
<1>7. PICK a \in Int, b \in Int : a = SharesToBurnLimit(ll) /\ b = new + asked
  BY <1>6
<1>8. Min({a, b}) <= b
  BY MinOfTwo
<1> QED BY <1>2, <1>4, <1>5, <1>7, <1>8

\* c is the ether after the report, excess rewards aside, and the shares that
\* are not burned leave the rate within the limit.
WithinLimit(c, E, S, gain, lock, sm) ==
  /\ c = E + gain + sm.withdrawals + sm.elRewards - lock
           - Max({0, gain - (RebaseLimit * E) \div LimiterPrecision})
  /\ ((c * LimiterPrecision) \div E) * S
       <= (LimiterPrecision + RebaseLimit) * (S - sm.sharesToBurn)

\* What is taken in and burned keeps the rate within the limit, rewards of the
\* consensus layer above it aside.
LEMMA SmoothenedWithinLimit ==
  ASSUME NEW E \in Nat \ {0}, NEW S \in Nat, NEW preCL \in Int, NEW postCL \in Int,
         NEW w \in Nat, NEW e \in Nat, NEW asked \in Nat, NEW lock \in Nat, NEW new \in Nat,
         NEW sm,
         sm = SmoothenTokenRebase(InitLimiterState(RebaseLimit, E, S), preCL, postCL, w, e,
                                  asked, lock, new),
         ~sm.reverts, RebaseLimit # UnlimitedRebase
  PROVE  \E c \in Nat : WithinLimit(c, E, S, postCL - preCL, lock, sm)
<1>1. PICK p \in Nat \ {0}, limit \in Nat \ {0} : p = LimiterPrecision /\ limit = RebaseLimit
  BY LimiterAssumption, InputAssumption
<1>2. PICK le \in Nat : le = limit * E
  OBVIOUS
<1>3. PICK gain \in Nat : gain = le \div p /\ p * gain <= le
  BY QuotientNat
<1>21. PICK most \in Int, x \in Int, g \in Int :
         most = E + gain /\ x = postCL - preCL /\ g = x - gain
  OBVIOUS
<1>22. E \in Int /\ w \in Int /\ e \in Int /\ lock \in Int /\ 0 \in Int
  OBVIOUS
<1> DEFINE Lim(n) == [preTotalPooledEther |-> E, preTotalShares |-> S,
                      currentTotalPooledEther |-> n, positiveRebaseLimit |-> limit,
                      maxTotalPooledEther |-> most]
<1>4. InitLimiterState(RebaseLimit, E, S) = Lim(E)
  BY <1>1, <1>2, <1>3, <1>21 DEF InitLimiterState
<1>5. ASSUME NEW n \in Int PROVE ~IsUnlimited(Lim(n))
  BY <1>1 DEF IsUnlimited
<1>6. ASSUME NEW n \in Int, NEW amount \in Int
      PROVE  /\ IncreaseEther(Lim(n), amount) = Lim(Min({n + amount, most}))
             /\ DecreaseEther(Lim(n), amount) = Lim(n - amount)
             /\ ConsumedEther(Lim(n), amount) = Min({n + amount, most}) - n
             /\ CanDecreaseEther(Lim(n), amount) <=> amount <= n
  BY <1>5 DEF IncreaseEther, DecreaseEther, ConsumedEther, CanDecreaseEther
<1>7. ASSUME NEW n \in Int
      PROVE  SharesToBurnLimit(Lim(n)) =
               IF n >= most THEN 0
               ELSE (S * (limit + p - (n * p) \div E)) \div (limit + p)
  BY <1>1, <1>5 DEF SharesToBurnLimit, IsLimitReached, PooledEtherRate
<1>9. ASSUME NEW n \in Int, NEW m \in Int
      PROVE  \E k \in Int : k = Min({n + m, most}) /\ k <= most /\ k <= n + m
                            /\ (k = n + m \/ k = most)
  <2>1. PICK sum \in Int : sum = n + m
    OBVIOUS
  <2>2. Min({sum, most}) \in {sum, most} /\ Min({sum, most}) <= sum /\ Min({sum, most}) <= most
    BY MinOfTwo
  <2> QED BY <2>1, <2>2
<1> HIDE DEF Lim
<1>10. PICK a \in Int : /\ AfterClUpdate(Lim(E), preCL, postCL) = Lim(a)
                        /\ \/ x < 0 /\ a = E + x
                           \/ x >= 0 /\ a <= E + x /\ a <= most /\ (a = E + x \/ a = most)
  <2>1. CASE postCL < preCL
    <3>1. PICK y \in Int : y = preCL - postCL
      OBVIOUS
    <3>2. AfterClUpdate(Lim(E), preCL, postCL) = Lim(E - y)
      BY ONLY <1>6, <1>22, <2>1, <3>1 DEF AfterClUpdate
    <3>3. E - y = E + x /\ E + x \in Int /\ x < 0
      BY <1>21, <2>1, <3>1
    <3> QED BY <3>2, <3>3
  <2>2. CASE ~(postCL < preCL)
    <3>1. PICK k \in Int : k = Min({E + x, most}) /\ k <= most /\ k <= E + x
                            /\ (k = E + x \/ k = most)
      BY ONLY <1>9, <1>21, <1>22
    <3>2. AfterClUpdate(Lim(E), preCL, postCL) = Lim(k)
      BY ONLY <1>6, <1>21, <1>22, <2>2, <3>1 DEF AfterClUpdate
    <3> QED BY <1>21, <2>2, <3>1, <3>2
  <2> QED BY <2>1, <2>2
<1>11. PICK b \in Int : b = Min({a + w, most}) /\ b <= most
  BY ONLY <1>9, <1>10, <1>22
<1>12. PICK d \in Int : d = Min({b + e, most}) /\ d <= most
  BY ONLY <1>9, <1>11, <1>22
<1>13. /\ sm.withdrawals = b - a /\ sm.elRewards = d - b
       /\ sm.sharesToBurn = Min({SharesToBurnLimit(Lim(d - lock)), new + asked})
       /\ lock <= d
  <2>1. /\ IncreaseEther(Lim(a), w) = Lim(b) /\ ConsumedEther(Lim(a), w) = b - a
        /\ IncreaseEther(Lim(b), e) = Lim(d) /\ ConsumedEther(Lim(b), e) = d - b
        /\ DecreaseEther(Lim(d), lock) = Lim(d - lock)
        /\ CanDecreaseEther(Lim(d), lock) => lock <= d
    BY ONLY <1>6, <1>10, <1>11, <1>12, <1>22
  <2>2. /\ sm.withdrawals = b - a /\ sm.elRewards = d - b
        /\ sm.sharesToBurn = Min({SharesToBurnLimit(Lim(d - lock)), new + asked})
    BY <1>4, <1>10, <2>1 DEF SmoothenTokenRebase
  <2>3. CanDecreaseEther(Lim(d), lock)
    BY <1>4, <1>10, <2>1 DEF SmoothenTokenRebase
  <2> QED BY <2>1, <2>2, <2>3
<1>14. PICK c \in Nat : c = d - lock /\ c <= most
  <2>1. d - lock \in Nat /\ d - lock <= most
    BY <1>12, <1>13
  <2> QED BY <2>1
<1>15. PICK z \in Int : z = Max({0, g}) /\ a = E + x - z
  <2>1. g \in Int
    OBVIOUS
  <2>2. Max({0, g}) \in {0, g} /\ 0 <= Max({0, g}) /\ g <= Max({0, g})
    BY ONLY <1>22, <2>1, MaxOfTwo
  <2>3. PICK z \in Int : z = Max({0, g}) /\ z \in {0, g} /\ 0 <= z /\ g <= z
    BY <2>2
  <2>4. a = E + x - z
    BY <1>10, <1>21, <2>3
  <2> QED BY <2>3, <2>4
<1>16. c = E + (postCL - preCL) + sm.withdrawals + sm.elRewards - lock
             - Max({0, (postCL - preCL) - (RebaseLimit * E) \div LimiterPrecision})
  <2>1. Max({0, (postCL - preCL) - (RebaseLimit * E) \div LimiterPrecision}) = z
    BY <1>1, <1>2, <1>3, <1>15, <1>21
  <2>2. c = E + x + (b - a) + (d - b) - lock - z
    BY <1>14, <1>15
  <2> QED BY <1>13, <1>21, <2>1, <2>2
<1>17. PICK cp \in Nat : cp = c * p
  OBVIOUS
<1>18. PICK rate \in Nat : rate = cp \div E /\ E * rate <= cp
  BY QuotientNat
<1>19. PICK q \in Int, burn \in Int :
         /\ q = SharesToBurnLimit(Lim(c)) /\ burn = sm.sharesToBurn /\ burn <= q
         /\ q = IF c >= most THEN 0 ELSE (S * (limit + p - rate)) \div (limit + p)
  <2>1. PICK q \in Int : q = SharesToBurnLimit(Lim(c))
           /\ q = IF c >= most THEN 0 ELSE (S * (limit + p - rate)) \div (limit + p)
    <3>1. PICK t \in Int : t = S * (limit + p - rate)
      OBVIOUS
    <3>2. t \div (limit + p) \in Int
      OBVIOUS
    <3> QED BY <1>7, <1>17, <1>18, <3>1, <3>2
  <2>2. PICK allowed \in Int : allowed = new + asked
    OBVIOUS
  <2>3. Min({q, allowed}) \in Int /\ Min({q, allowed}) <= q
    BY MinOfTwo
  <2> QED BY <1>13, <1>14, <2>1, <2>2, <2>3
<1>20. rate <= limit + p
  <2>1. cp <= (E + gain) * p
    BY <1>14, <1>17, <1>21
  <2>2. (E + gain) * p = E * p + p * gain
    OBVIOUS
  <2>3. E * p + limit * E = E * (limit + p)
    OBVIOUS
  <2>4. E * rate <= E * (limit + p)
    <3>1. PICK t \in Int, y \in Int, v \in Int, o \in Int, m \in Int :
            /\ t = (E + gain) * p /\ y = E * p /\ v = p * gain /\ o = E * (limit + p)
            /\ m = E * rate
      OBVIOUS
    <3> QED BY <1>2, <1>3, <1>18, <2>1, <2>2, <2>3, <3>1
  <2>5. ASSUME rate > limit + p PROVE FALSE
    <3>1. PICK over \in Nat \ {0} : rate = (limit + p) + over
      <4>1. rate - (limit + p) \in Nat \ {0}
        BY <2>5
      <4>2. rate = (limit + p) + (rate - (limit + p))
        OBVIOUS
      <4> QED BY <4>1, <4>2
    <3>2. E * rate = E * (limit + p) + E * over
      BY <3>1
    <3>3. E * over > 0
      OBVIOUS
    <3> QED BY <2>4, <3>2, <3>3
  <2> QED BY <2>5
<1>23. rate * S <= (p + limit) * (S - burn)
  <2>1. PICK k \in Nat \ {0} : k = limit + p
    OBVIOUS
  <2>2. PICK left \in Nat : left = k - rate
    BY <1>20, <2>1
  <2>3. k * burn <= S * left
    <3>1. CASE c >= most
      <4>1. burn <= 0 /\ k * burn <= 0
        BY <1>19, <3>1
      <4>2. 0 <= S * left
        OBVIOUS
      <4>3. PICK t \in Int, y \in Int : t = k * burn /\ y = S * left
        OBVIOUS
      <4> QED BY <4>1, <4>2, <4>3
    <3>2. CASE ~(c >= most)
      <4>1. PICK t \in Nat : t = S * left
        BY ProductNat
      <4>2. limit + p - rate = left
        BY <2>1, <2>2
      <4>3. q = t \div k
        BY <1>19, <2>1, <3>2, <4>1, <4>2
      <4>4. k * q <= t
        BY <4>1, <4>3, QuotientNat
      <4>5. k * burn <= k * q
        BY <1>19
      <4>6. PICK y \in Int, v \in Int : y = k * burn /\ v = k * q
        OBVIOUS
      <4> QED BY <4>1, <4>4, <4>5, <4>6
    <3> QED BY <3>1, <3>2
  <2>4. S * left = k * S - rate * S
    BY <2>2
  <2>5. k * (S - burn) = k * S - k * burn
    OBVIOUS
  <2>6. PICK t \in Int, y \in Int, o \in Int, v \in Int :
          t = k * S /\ y = rate * S /\ o = k * burn /\ v = S * left
    OBVIOUS
  <2>7. y <= k * (S - burn)
    BY <2>3, <2>4, <2>5, <2>6
  <2> QED BY <2>1, <2>6, <2>7
<1> QED BY <1>1, <1>14, <1>16, <1>17, <1>18, <1>19, <1>23 DEF WithinLimit

\* What the simulation takes from smoothenTokenRebase.
TakenFrom(sm, r, u) ==
  /\ sm = Smoothened(r, u.etherToFinalizeWQ, u.sharesToFinalizeWQ)
  /\ u.withdrawals = sm.withdrawals /\ u.elRewards = sm.elRewards
  /\ u.totalSharesToBurn = sm.sharesToBurn
  /\ u.reverts = FALSE => ~sm.reverts

LEMMA SimulationSmoothed ==
  ASSUME NEW r, NEW u, u = Simulate(r)
  PROVE  \E sm : TakenFrom(sm, r, u)
<1>1. PICK eth, shs, sm :
        /\ eth = EtherToLock(r.batches, r.shareRate)
        /\ shs = IF r.batches = {} THEN 0 ELSE SumShares(1, Max(r.batches))
        /\ sm = Smoothened(r, eth, shs)
  OBVIOUS
<1>2. u = CalculatedUpdate(r, eth, shs, sm)
  BY <1>1 DEF Simulate, SimulateWith
<1>3. /\ u.etherToFinalizeWQ = eth /\ u.sharesToFinalizeWQ = shs
      /\ u.withdrawals = sm.withdrawals /\ u.elRewards = sm.elRewards
      /\ u.totalSharesToBurn = sm.sharesToBurn
  BY ONLY <1>2 DEF CalculatedUpdate
<1>4. u.reverts = FALSE => ~sm.reverts
  BY ONLY <1>2 DEF CalculatedUpdate
<1> QED BY <1>1, <1>3, <1>4 DEF TakenFrom

\* The numbers that the limiter is given.
LEMMA ReportNumbers ==
  ASSUME Inv, NEW r \in Reports
  PROVE  /\ r.withdrawalVaultBalance \in Nat /\ r.withdrawalVaultBalance <= withdrawalVault
         /\ r.elRewardsVaultBalance \in Nat /\ r.elRewardsVaultBalance <= elRewardsVault
         /\ r.sharesRequestedToBurn \in Nat /\ r.sharesRequestedToBurn <= SharesBurnRequested
         /\ SharesBurnRequested \in Nat
         /\ PrincipalClBalance(r) \in Int /\ ClBalance(r) \in Int
         /\ ClBalance(r) - PrincipalClBalance(r) = r.clChange /\ r.clChange \in Int
         /\ r.clValidators \in Int
<1>1. /\ withdrawalVault \in Nat /\ elRewardsVault \in Nat
      /\ coverSharesBurnRequested \in Nat /\ nonCoverSharesBurnRequested \in Nat
  BY DEF Inv, TypeOK
<1>2. SharesBurnRequested \in Nat
  BY <1>1 DEF SharesBurnRequested
<1>3. /\ r.withdrawalVaultBalance \in 0..withdrawalVault
      /\ r.elRewardsVaultBalance \in 0..elRewardsVault
      /\ r.sharesRequestedToBurn \in {0, SharesBurnRequested}
      /\ r.clValidators \in clValidators..depositedValidators /\ r.clChange \in ClChanges
  BY ReportTyped
<1>4. r.clValidators \in Int /\ r.clChange \in Int /\ clBalance \in Int /\ DepositSize \in Int
  <2>1. clValidators \in Int /\ depositedValidators \in Int /\ clBalance \in Int
    BY TypeParts
  <2>2. r.clValidators \in Int
    <3>1. r.clValidators \in clValidators..depositedValidators
      BY <1>3
    <3> QED BY ONLY <2>1, <3>1
  <2>3. r.clChange \in Int /\ DepositSize \in Int
    <3>1. r.clChange \in ClChanges /\ ClChanges \subseteq Int
      BY <1>3, InputAssumption
    <3>2. DepositSize \in Int
      BY LidoAssumption
    <3> QED BY ONLY <3>1, <3>2
  <2> QED BY <2>1, <2>2, <2>3
<1>5. PICK p \in Int : p = PrincipalClBalance(r)
  <2>1. PICK new \in Int : new = r.clValidators - clValidators
    BY <1>4, TypeParts
  <2>2. PICK value \in Int : value = new * DepositSize
    BY <1>4
  <2>3. PrincipalClBalance(r) = clBalance + value
    BY <2>1, <2>2 DEF PrincipalClBalance
  <2> QED BY <1>4, <2>3
<1>6. ClBalance(r) = p + r.clChange
  BY <1>5 DEF ClBalance
<1> QED BY <1>1, <1>2, <1>3, <1>4, <1>5, <1>6

LEMMA ReportLimited ==
  ASSUME Inv, RebaseLimit # UnlimitedRebase,
         NEW r \in Reports, HandleOracleReport(r)
  PROVE  RebaseLimitedStep
<1> SUFFICES ASSUME InternalEther > 0 PROVE RebaseLimitedStep
  BY DEF RebaseLimitedStep
<1>1. PICK u : u = Simulate(r) /\ HandleSimulated(r, u)
  BY DEF HandleOracleReport
<1>2. PICK E \in Nat \ {0}, S \in Nat \ {0}, p \in Nat \ {0}, limit \in Nat :
        /\ E = InternalEther /\ S = InternalShares /\ p = LimiterPrecision /\ limit = RebaseLimit
  <2>1. InternalEther \in Nat \ {0} /\ InternalShares \in Nat \ {0}
    BY TypeParts, InternalAmounts
  <2> QED BY <2>1, LimiterAssumption, InputAssumption
<1>3. PICK sm : /\ sm = Smoothened(r, u.etherToFinalizeWQ, u.sharesToFinalizeWQ)
                /\ u.withdrawals = sm.withdrawals /\ u.elRewards = sm.elRewards
                /\ u.totalSharesToBurn = sm.sharesToBurn
                /\ u.reverts = FALSE => ~sm.reverts
  <2>1. PICK sm : TakenFrom(sm, r, u)
    BY <1>1, SimulationSmoothed
  <2> QED BY <2>1 DEF TakenFrom
<1>4. ~sm.reverts
  <2>1. u \in CalculatedValues
    BY <1>1 DEF HandleSimulated, Admissible
  <2>2. u.reverts = FALSE
    BY ONLY <2>1 DEF CalculatedValues
  <2> QED BY <1>3, <2>2
<1>5. /\ u.etherToFinalizeWQ \in Nat /\ u.sharesToFinalizeWQ \in Nat
      /\ u.withdrawals \in Nat /\ u.elRewards \in Nat /\ u.totalSharesToBurn \in Nat
      /\ u.sharesToMintAsFees \in Nat /\ u.badDebt \in Nat
      /\ ApplyOracleReport(r, u)
  BY <1>1, ReportParts
<1>6. PICK pre \in Int, post \in Int, w \in Nat, e \in Nat, asked \in Nat, lock \in Nat, new \in Nat :
        /\ pre = PrincipalClBalance(r) /\ post = ClBalance(r) /\ post - pre = r.clChange
        /\ w = r.withdrawalVaultBalance /\ e = r.elRewardsVaultBalance
        /\ asked = r.sharesRequestedToBurn
        /\ lock = u.etherToFinalizeWQ /\ new = u.sharesToFinalizeWQ
  BY <1>5, ReportNumbers
<1>7. sm = SmoothenTokenRebase(InitLimiterState(RebaseLimit, E, S), pre, post, w, e,
                               asked, lock, new)
  BY <1>2, <1>3, <1>6 DEF Smoothened
<1>8. PICK c \in Nat : WithinLimit(c, E, S, post - pre, lock, sm)
  <2>1. S \in Nat
    OBVIOUS
  <2> QED BY <1>4, <1>7, <2>1, SmoothenedWithinLimit
<1>9. /\ InternalEther' = u.postInternalEther /\ InternalShares' = u.postInternalShares
  BY <1>1, ReportAsSimulated
<1>10. /\ InternalEther' = E + r.clChange + u.withdrawals + u.elRewards - lock
       /\ InternalShares' = S - u.totalSharesToBurn + u.sharesToMintAsFees + u.badDebt
  BY <1>1, <1>2, <1>6, <1>9, SimulationParts
<1>11. PICK reward \in Int :
         /\ reward = r.clChange
         /\ reward = clBalance' - clBalance - (clValidators' - clValidators) * DepositSize
  <2>1. clBalance' = ClBalance(r) /\ clValidators' = r.clValidators
    BY <1>5 DEF ApplyOracleReport
  <2>2. PICK value \in Int : value = (r.clValidators - clValidators) * DepositSize
    <3>1. r.clValidators - clValidators \in Int /\ DepositSize \in Int
      BY ReportNumbers, TypeParts, LidoAssumption
    <3> QED BY <3>1
  <2>3. clBalance' = clBalance + value + r.clChange
    BY <2>1, <2>2 DEF ClBalance, PrincipalClBalance
  <2> QED BY <2>1, <2>2, <2>3, ReportNumbers, TypeParts
<1>12. PICK excess \in Int :
         excess = Max({0, reward - (RebaseLimit * InternalEther) \div LimiterPrecision})
  <2>1. PICK le \in Nat : le = limit * E
    OBVIOUS
  <2>2. PICK gain \in Nat : gain = le \div p
    BY QuotientNat
  <2>3. PICK g \in Int : g = reward - gain
    OBVIOUS
  <2>4. 0 \in Int
    OBVIOUS
  <2>5. Max({0, g}) \in {0, g}
    BY ONLY <2>3, <2>4, MaxOfTwo
  <2> QED BY <1>2, <2>1, <2>2, <2>3, <2>5
<1>13. c = InternalEther' - excess
  <2>1. PICK sw \in Int, se \in Int : sw = u.withdrawals /\ se = u.elRewards
    BY <1>5
  <2>2. InternalEther' = E + reward + sw + se - lock
    BY <1>10, <1>11, <2>1
  <2>3. post - pre = reward /\ sm.withdrawals = sw /\ sm.elRewards = se
    BY <1>3, <1>6, <1>11, <2>1
  <2>4. Max({0, (post - pre) - (RebaseLimit * E) \div LimiterPrecision}) = excess
    BY <1>2, <1>12, <2>3
  <2>5. c = E + reward + sw + se - lock - excess
    BY <1>8, <2>3, <2>4 DEF WithinLimit
  <2> QED BY <2>2, <2>5
<1>14. PICK rate \in Int : /\ rate = (c * LimiterPrecision) \div E
                           /\ rate * S <= (p + limit) * (S - u.totalSharesToBurn)
  <2>1. PICK cp \in Nat : cp = c * p
    OBVIOUS
  <2>2. cp \div E \in Int
    OBVIOUS
  <2> QED BY <1>2, <1>3, <1>8, <2>1, <2>2 DEF WithinLimit
<1>15. rate * InternalShares <= (LimiterPrecision + RebaseLimit) * InternalShares'
  <2>1. PICK k \in Nat, burn \in Int, left \in Int, added \in Nat :
          /\ k = p + limit /\ burn = u.totalSharesToBurn /\ left = S - burn
          /\ added = u.sharesToMintAsFees + u.badDebt
    BY <1>5
  <2>2. InternalShares' = left + added
    BY <1>5, <1>10, <2>1
  <2>3. k * (left + added) = k * left + k * added /\ k * added \in Nat
    OBVIOUS
  <2>4. PICK a \in Int, b \in Int, d \in Nat : a = rate * S /\ b = k * left /\ d = k * added
    BY <2>3
  <2>5. a <= b
    BY <1>14, <2>1, <2>4
  <2>6. a <= k * (left + added)
    BY <2>3, <2>4, <2>5
  <2> QED BY <1>2, <2>1, <2>2, <2>4, <2>6
<1> QED BY <1>2, <1>11, <1>12, <1>13, <1>14, <1>15 DEF RebaseLimitedStep

\* Steps that are no report do not concern the limit.
LEMMA OnlyReportsReport ==
  ASSUME Inv, Next, IsReport
  PROVE  \E r \in Reports : HandleOracleReport(r)
<1>1. CASE \/ \E u \in Users, a \in Recipients, n \in ShareAmounts : UserTransfers(u, a, n)
           \/ \E u \in Users, v \in Deposits : UserSubmits(u, v)
           \/ \E u \in Users, v \in Withdrawals : RequestWithdrawal(u, v)
           \/ \E c \in 1..MaxShares : DepositBufferedEther(c)
           \/ \E u \in Users, n \in BurnAmounts, b \in BOOLEAN : RequestBurnShares(u, n, b)
           \/ \E u \in Users, v \in StETHAmounts, b \in BOOLEAN : RequestBurnMyStETH(u, v, b)
           \/ RecoverExcessStETH
  BY <1>1 DEF UserTransfers, UserSubmits, RequestWithdrawal, DepositBufferedEther,
     RequestBurnShares, RequestBurnMyStETH, RecoverExcessStETH, slotVars, IsReport
<1>2. CASE \/ \E u \in Users, n \in ShareAmounts : HubMintShares(u, n)
           \/ \E n \in ShareAmounts : HubBurnShares(n) \/ HubRebalance(n) \/ InternalizeBadDebt(n)
           \/ Administer \/ ReceiveRewards \/ NextRefSlot
  BY <1>2 DEF HubMintShares, HubBurnShares, HubRebalance, InternalizeBadDebt, Administer,
     ReceiveRewards, NextRefSlot, slotVars, IsReport
<1> QED BY <1>1, <1>2 DEF Next

-----------------------------------------------------------------------------
(* The queue's account.                                                    *)

\* Queue holds the shares of its requests, which a report hands to Burner.
QueueBacked == SumOf(QueuedShares, 1..Len(unfinalized)) <= shares[Queue]

\* A report that finalizes requests pays something for them: finalize is called
\* only with ether, so requests whose ether rounds to none would lose their
\* shares to Burner and stay.
PaidFinalization ==
  \A r \in Reports :
    HandleOracleReport(r) /\ r.batches # {} => Simulate(r).etherToFinalizeWQ # 0

LEMMA QueuedSums ==
  ASSUME Inv, NEW last \in 0..Len(unfinalized)
  PROVE  /\ SumOf(QueuedShares, 1..last) \in Nat
         /\ SumOf(QueuedShares, last + 1 .. Len(unfinalized)) \in Nat
         /\ SumOf(QueuedShares, 1..Len(unfinalized)) =
              SumOf(QueuedShares, 1..last) + SumOf(QueuedShares, last + 1 .. Len(unfinalized))
<1>1. PICK top \in Nat : top = Len(unfinalized) /\ last \in Nat /\ last <= top
  BY QueuedTyped DEF Inv
<1>2. \A i \in 1..top : QueuedShares[i] \in Nat
  BY <1>1, QueuedTyped DEF Inv
<1>3. PICK A, B : A = 1..last /\ B = last + 1 .. top
  OBVIOUS
<1>4. IsFiniteSet(A) /\ IsFiniteSet(B)
  BY <1>1, <1>3, FS_Interval
<1>5. A \cap B = {} /\ A \cup B = 1..top
  BY <1>1, <1>3
<1>6. \A i \in A : QueuedShares[i] \in Nat
  BY <1>2, <1>5
<1>7. \A i \in B : QueuedShares[i] \in Nat
  BY <1>2, <1>5
<1>8. SumOf(QueuedShares, A) \in Nat /\ SumOf(QueuedShares, B) \in Nat
  BY ONLY <1>4, <1>6, <1>7, SumCovers
<1>9. SumOf(QueuedShares, A \cup B) = SumOf(QueuedShares, A) + SumOf(QueuedShares, B)
  <2>1. \A i \in A \cup B : QueuedShares[i] \in Int
    BY <1>6, <1>7
  <2> QED BY ONLY <1>4, <1>5, <2>1, SumUnion
<1> QED BY <1>1, <1>3, <1>5, <1>8, <1>9

\* What a report finalizes is the shares of the first requests.
LEMMA FinalizedShares ==
  ASSUME Inv, NEW r \in Reports, NEW u, u = Simulate(r)
  PROVE  \E last \in 0..Len(unfinalized) :
           /\ u.sharesToFinalizeWQ = SumOf(QueuedShares, 1..last)
           /\ r.batches # {} => last = Max(r.batches) /\ last # 0
<1>1. PICK top \in Nat : top = Len(unfinalized)
  BY QueuedTyped DEF Inv
<1>2. u.sharesToFinalizeWQ = IF r.batches = {} THEN 0 ELSE SumShares(1, Max(r.batches))
  BY SimulationParts
<1>3. CASE r.batches = {}
  <2>1. 1..0 = {} /\ 0 \in 0..top
    OBVIOUS
  <2>2. SumOf(QueuedShares, {}) = 0
    BY SumEmpty
  <2> QED BY <1>1, <1>2, <1>3, <2>1, <2>2
<1>4. CASE r.batches # {}
  <2>1. r.batches \in SUBSET (1..top)
    BY <1>1, ReportTyped DEF BatchSets
  <2>2. Max(r.batches) \in r.batches
    <3>1. r.batches \in SUBSET (0..top)
      BY <2>1
    <3> QED BY <1>1, <1>4, <3>1, MaxOfBounded
  <2>3. PICK last \in 1..top : last = Max(r.batches)
    BY <2>1, <2>2
  <2>4. last \in 0..Len(unfinalized) /\ last # 0 /\ 1 \in Nat \ {0}
    BY <1>1, <2>3
  <2>5. SumShares(1, last) = SumOf(QueuedShares, 1..last)
    BY <2>4, SumSharesIsSum DEF Inv
  <2> QED BY <1>2, <1>4, <2>3, <2>4, <2>5
<1> QED BY <1>3, <1>4

LEMMA QueueUntouched ==
  ASSUME Inv, Inv', QueueBacked, unfinalized' = unfinalized, shares[Queue] <= shares'[Queue]
  PROVE  QueueBacked'
<1>1. /\ shares[Queue] \in Nat /\ shares'[Queue] \in Nat
  <2>1. shares \in [Accounts -> Nat] /\ Queue \in Accounts
    BY TypeParts, BurnerApart
  <2>2. shares' \in [Accounts -> Nat]
    BY DEF Inv, TypeOK, LidoTypeOK
  <2> QED BY <2>1, <2>2
<1>2. QueuedShares' = QueuedShares
  BY DEF QueuedShares
<1>3. PICK n \in Nat : n = SumOf(QueuedShares, 1..Len(unfinalized))
  <2>1. Len(unfinalized) \in 0..Len(unfinalized)
    BY QueuedTyped DEF Inv
  <2> QED BY <2>1, QueuedSums
<1> QED BY <1>1, <1>2, <1>3 DEF QueueBacked

\* A transfer from another account.
LEMMA QueueThroughTransfer ==
  ASSUME Inv, NEW from \in Accounts, NEW to \in Accounts, NEW n \in Nat, from # Queue,
         TransferShares(from, to, n)
  PROVE  shares[Queue] <= shares'[Queue]
<1>1. shares \in [Accounts -> Nat] /\ Queue \in Accounts
  BY TypeParts, BurnerApart
<1>2. \A a \in Accounts :
        shares'[a] = shares[a] - (IF a = from THEN n ELSE 0) + (IF a = to THEN n ELSE 0)
  BY LedgerTransfer
<1>3. shares'[Queue] = shares[Queue] + (IF Queue = to THEN n ELSE 0)
  BY <1>1, <1>2
<1> QED BY <1>1, <1>3

LEMMA QueueThroughRequest ==
  ASSUME Inv, Inv', QueueBacked,
         NEW sender \in Users, NEW amount \in Withdrawals, RequestWithdrawal(sender, amount)
  PROVE  QueueBacked'
<1>1. amount \in Nat /\ sender \in Accounts /\ Queue \in Accounts /\ sender # Queue
  BY BurnerApart, InputAssumption
<1>2. PICK n \in Nat : n = SharesByPooledEth(amount)
  BY <1>1, TypeParts, Conversions DEF RequestWithdrawal
<1>3. /\ TransferShares(sender, Queue, n)
      /\ unfinalized' = Append(unfinalized, [stETH |-> amount, shares |-> n])
  BY <1>2 DEF RequestWithdrawal
<1>4. shares \in [Accounts -> Nat] /\ shares'[Queue] = shares[Queue] + n
  <2>1. \A a \in Accounts :
          shares'[a] = shares[a] - (IF a = sender THEN n ELSE 0) + (IF a = Queue THEN n ELSE 0)
    BY <1>1, <1>3, LedgerTransfer
  <2>2. shares \in [Accounts -> Nat]
    BY TypeParts
  <2> QED BY <1>1, <2>1, <2>2
<1>5. PICK top \in Nat : top = Len(unfinalized)
  BY QueuedTyped DEF Inv
<1>6. /\ Len(unfinalized') = top + 1
      /\ \A i \in 1..top : unfinalized'[i] = unfinalized[i]
      /\ unfinalized'[top + 1] = [stETH |-> amount, shares |-> n]
  <2>1. unfinalized \in Seq([stETH : Nat, shares : Nat])
    BY DEF Inv, TypeOK
  <2>2. [stETH |-> amount, shares |-> n] \in [stETH : Nat, shares : Nat]
    BY <1>1
  <2> QED BY <1>3, <1>5, <2>1, <2>2, AppendProperties
<1>7. PICK g : g = QueuedShares'
  OBVIOUS
<1>8. g = [i \in 1..top + 1 |-> unfinalized'[i].shares]
  BY <1>6, <1>7 DEF QueuedShares
<1>9. g[top + 1] = n /\ \A i \in 1..top : g[i] = QueuedShares[i] /\ QueuedShares[i] \in Nat
  <2>1. \A i \in 1..top : i \in 1..top + 1
    OBVIOUS
  <2>2. \A i \in 1..top : QueuedShares[i] = unfinalized[i].shares /\ QueuedShares[i] \in Nat
    BY <1>5, QueuedTyped DEF QueuedShares, Inv
  <2> QED BY <1>6, <1>8, <2>1, <2>2
<1>10. SumOf(g, 1..top + 1) = n + SumOf(g, 1..top)
  <2>1. PICK T, y : T = 1..top + 1 /\ y = top + 1 /\ T \ {y} = 1..top
    OBVIOUS
  <2>2. IsFiniteSet(T)
    BY <2>1, FS_Interval
  <2>3. y \in T /\ \A i \in T : g[i] \in Int
    BY <1>9, <2>1
  <2>4. SumOf(g, T) = g[y] + SumOf(g, T \ {y})
    BY ONLY <2>2, <2>3, SumTakes
  <2> QED BY <1>9, <2>1, <2>4
<1>11. SumOf(g, 1..top) = SumOf(QueuedShares, 1..top)
  <2>1. IsFiniteSet(1..top)
    BY FS_Interval
  <2> QED BY <1>9, <2>1, SumSame
<1>12. PICK held \in Nat, sum \in Nat :
         held = shares[Queue] /\ sum = SumOf(QueuedShares, 1..top) /\ sum <= held
  <2>1. top \in 0..Len(unfinalized)
    BY <1>5
  <2> QED BY <1>1, <1>4, <1>5, <2>1, QueuedSums DEF QueueBacked
<1>13. SumOf(g, 1..top + 1) <= shares'[Queue]
  BY <1>4, <1>10, <1>11, <1>12
<1> QED BY <1>6, <1>7, <1>13 DEF QueueBacked

LEMMA QueueThroughReport ==
  ASSUME Inv, Inv', QueueBacked, NEW r \in Reports, HandleOracleReport(r), PaidFinalization
  PROVE  QueueBacked'
<1>1. PICK u : u = Simulate(r) /\ HandleSimulated(r, u)
  BY DEF HandleOracleReport
<1>2. shares'[Queue] = shares[Queue] - u.sharesToFinalizeWQ
  BY <1>1, LedgerReport
<1>3. PICK top \in Nat : top = Len(unfinalized)
  BY QueuedTyped DEF Inv
<1>4. PICK last \in 0..top : /\ u.sharesToFinalizeWQ = SumOf(QueuedShares, 1..last)
                             /\ r.batches # {} => last = Max(r.batches) /\ last # 0
  BY <1>1, <1>3, FinalizedShares
<1>5. shares[Queue] \in Nat
  BY TypeParts, BurnerApart
<1>6. unfinalized' = AfterFinalize(r, u)
  BY <1>1, ReportParts DEF ApplyOracleReport
<1>7. CASE r.batches = {}
  <2>1. u.etherToFinalizeWQ = 0 /\ u.sharesToFinalizeWQ = 0
    BY <1>1, <1>7, SimulationParts, NothingToLock
  <2>2. unfinalized' = unfinalized /\ shares'[Queue] = shares[Queue]
    BY <1>2, <1>5, <1>6, <2>1 DEF AfterFinalize
  <2>3. shares[Queue] <= shares'[Queue]
    BY <1>5, <2>2
  <2> QED BY <2>2, <2>3, QueueUntouched
<1>8. CASE r.batches # {}
  <2>1. unfinalized' = SubSeq(unfinalized, last + 1, top)
    <3>1. u.etherToFinalizeWQ # 0
      BY <1>1, <1>8 DEF PaidFinalization
    <3> QED BY <1>3, <1>4, <1>6, <1>8, <3>1 DEF AfterFinalize
  <2>2. PICK left \in Nat : left = top - last /\ last + left = top
    <3>1. top - last \in Nat /\ last + (top - last) = top
      OBVIOUS
    <3> QED BY <3>1
  <2>3. \A i \in 1..top : unfinalized[i] \in [stETH : Nat, shares : Nat]
    <3>1. unfinalized \in Seq([stETH : Nat, shares : Nat])
      BY DEF Inv, TypeOK
    <3> QED BY <1>3, <3>1, ElementOfSeq
  <2>4. /\ Len(unfinalized') = left
        /\ \A i \in 1..left : unfinalized'[i] = unfinalized[last + i]
    <3>1. PICK a \in Int, b \in Int : a = last + 1 /\ b = top /\ a \in Nat \ {0}
      OBVIOUS
    <3>2. \A i \in a..b : unfinalized[i] \in [stETH : Nat, shares : Nat]
      BY <2>3, <3>1
    <3>3. PICK s : s = SubSeq(unfinalized, a, b)
      OBVIOUS
    <3>4. /\ Len(s) = IF a <= b THEN b - a + 1 ELSE 0
          /\ \A i \in 1 .. b - a + 1 : s[i] = unfinalized[a + i - 1]
      BY ONLY <3>2, <3>3, SubSeqProperties
    <3>5. Len(s) = left
      BY <2>2, <3>1, <3>4
    <3>6. \A i \in 1..left : i \in 1 .. b - a + 1 /\ a + i - 1 = last + i
      BY <2>2, <3>1
    <3> QED BY <2>1, <3>1, <3>3, <3>4, <3>5, <3>6
  <2>5. PICK g : g = QueuedShares'
    OBVIOUS
  <2>6. \A i \in 1..left : g[i] = QueuedShares[last + i] /\ g[i] \in Nat
    <3>1. g = [i \in 1..left |-> unfinalized'[i].shares]
      BY <2>4, <2>5 DEF QueuedShares
    <3>2. \A i \in 1..left : last + i \in 1..top
      BY <2>2
    <3>3. \A i \in 1..top : QueuedShares[i] = unfinalized[i].shares /\ QueuedShares[i] \in Nat
      BY <1>3, QueuedTyped DEF QueuedShares, Inv
    <3> QED BY <2>4, <3>1, <3>2, <3>3
  <2>7. SumOf(QueuedShares, last + 1 .. last + left) = SumOf(g, 1..left)
    <3>1. last \in Nat
      OBVIOUS
    <3>2. PICK k, f : k = last /\ f = QueuedShares /\ k \in Nat
      BY <3>1
    <3>3. Continues(f, g, k, left)
      BY <2>6, <3>2 DEF Continues
    <3>4. left \in Nat
      BY <2>2
    <3>5. SumOf(f, k + 1 .. k + left) = SumOf(g, 1..left)
      BY ONLY <3>2, <3>3, <3>4, SumShift
    <3> QED BY <3>2, <3>5
  <2>8. PICK held \in Nat, paid \in Nat, rest \in Nat :
          /\ held = shares[Queue] /\ paid = SumOf(QueuedShares, 1..last)
          /\ rest = SumOf(QueuedShares, last + 1 .. top) /\ paid + rest <= held
    BY <1>3, <1>5, QueuedSums DEF QueueBacked
  <2>9. SumOf(g, 1..left) = rest /\ shares'[Queue] = held - paid
    BY <1>2, <1>4, <2>2, <2>7, <2>8
  <2>10. SumOf(g, 1..left) <= shares'[Queue]
    BY <2>8, <2>9
  <2> QED BY <2>4, <2>5, <2>10 DEF QueueBacked
<1> QED BY <1>7, <1>8

LEMMA QueueKept ==
  ASSUME Inv, Inv', QueueBacked, [Next]_vars, [PaidFinalization]_vars
  PROVE  QueueBacked'
<1>1. shares \in [Accounts -> Nat] /\ Queue \in Accounts /\ shares[Queue] <= shares[Queue]
  BY TypeParts, BurnerApart
<1>2. CASE \E u \in Users, a \in Recipients, n \in ShareAmounts : UserTransfers(u, a, n)
  <2>1. PICK u \in Users, a \in Recipients, n \in ShareAmounts : UserTransfers(u, a, n)
    BY <1>2
  <2>2. u \in Accounts /\ u # Queue /\ a \in Accounts /\ n \in Nat
    BY BurnerApart, InputAssumption
  <2> QED BY <2>1, <2>2, QueueThroughTransfer, QueueUntouched DEF UserTransfers
<1>3. CASE \E u \in Users, v \in Deposits : UserSubmits(u, v)
  <2>1. PICK u \in Users, v \in Deposits : UserSubmits(u, v)
    BY <1>3
  <2>2. u \in Accounts /\ v \in Nat
    BY BurnerApart, InputAssumption
  <2>3. shares[Queue] <= shares'[Queue]
    BY <1>1, <2>1, <2>2, LedgerSubmit DEF UserSubmits
  <2> QED BY <2>1, <2>3, QueueUntouched DEF UserSubmits
<1>4. CASE \E u \in Users, v \in Withdrawals : RequestWithdrawal(u, v)
  BY <1>4, QueueThroughRequest
<1>5. CASE \E u \in Users, n \in BurnAmounts, b \in BOOLEAN : RequestBurnShares(u, n, b)
  <2>1. PICK u \in Users, n \in BurnAmounts, b \in BOOLEAN : RequestBurnShares(u, n, b)
    BY <1>5
  <2>2. u \in Accounts /\ u # Queue /\ Burner \in Accounts /\ n \in Nat
    BY BurnerApart, InputAssumption
  <2> QED BY <2>1, <2>2, QueueThroughTransfer, QueueUntouched DEF RequestBurnShares
<1>6. CASE \E u \in Users, v \in StETHAmounts, b \in BOOLEAN : RequestBurnMyStETH(u, v, b)
  <2>1. PICK u \in Users, v \in StETHAmounts, b \in BOOLEAN : RequestBurnMyStETH(u, v, b)
    BY <1>6
  <2>2. u \in Accounts /\ u # Queue /\ Burner \in Accounts /\ v \in Nat
    BY BurnerApart, InputAssumption
  <2>3. SharesByPooledEth(v) \in Nat
    BY <2>1, <2>2, TypeParts, Conversions DEF RequestBurnMyStETH
  <2> QED BY <2>1, <2>2, <2>3, QueueThroughTransfer, QueueUntouched DEF RequestBurnMyStETH
<1>7. CASE RecoverExcessStETH
  <2>1. Burner \in Accounts /\ Burner # Queue /\ Treasury \in Accounts
    BY BurnerApart
  <2>2. ExcessStETHShares \in Nat
    <3>1. shares[Burner] \in Nat /\ SharesBurnRequested \in Nat
      BY <1>1, <2>1 DEF Inv, TypeOK, SharesBurnRequested
    <3> QED BY <3>1 DEF ExcessStETHShares
  <2>3. PICK n \in Nat : n = SharesByPooledEth(PooledEthByShares(ExcessStETHShares))
    BY <1>7, <2>2, TypeParts, RoundTrip DEF RecoverExcessStETH
  <2> QED BY <1>7, <2>1, <2>3, QueueThroughTransfer, QueueUntouched DEF RecoverExcessStETH
<1>8. CASE \E u \in Users, n \in ShareAmounts : HubMintShares(u, n)
  <2>1. PICK u \in Users, n \in ShareAmounts : HubMintShares(u, n)
    BY <1>8
  <2>2. u \in Accounts /\ n \in Nat
    BY BurnerApart, InputAssumption
  <2>3. shares[Queue] <= shares'[Queue]
    BY <1>1, <2>1, <2>2, LedgerMintExternal DEF HubMintShares
  <2> QED BY <2>1, <2>3, QueueUntouched DEF HubMintShares
<1>9. CASE \E n \in ShareAmounts : HubBurnShares(n)
  <2>1. PICK n \in ShareAmounts : HubBurnShares(n)
    BY <1>9
  <2>2. n \in Nat /\ Hub \in Accounts /\ Hub # Queue
    BY BurnerApart, InputAssumption
  <2>3. shares'[Queue] = shares[Queue]
    BY <1>1, <2>1, <2>2, LedgerBurnExternal DEF HubBurnShares
  <2> QED BY <1>1, <2>1, <2>3, QueueUntouched DEF HubBurnShares
<1>10. CASE \E n \in ShareAmounts : HubRebalance(n) \/ InternalizeBadDebt(n)
  <2>1. unfinalized' = unfinalized /\ shares' = shares
    BY <1>10 DEF HubRebalance, RebalanceExternalEtherToInternal, InternalizeBadDebt, lidoVars,
                 shareVars
  <2> QED BY <1>1, <2>1, QueueUntouched
<1>11. CASE \E c \in 1..MaxShares : DepositBufferedEther(c)
  <2>1. unfinalized' = unfinalized /\ shares' = shares
    BY <1>11 DEF DepositBufferedEther, Deposit, shareVars
  <2> QED BY <1>1, <2>1, QueueUntouched
<1>12. CASE Administer \/ ReceiveRewards \/ NextRefSlot
  <2>1. unfinalized' = unfinalized /\ shares' = shares
    BY <1>12, LedgerAdminister DEF Administer, ReceiveRewards, NextRefSlot, lidoVars, shareVars
  <2> QED BY <1>1, <2>1, QueueUntouched
<1>13. CASE \E r \in Reports : HandleOracleReport(r)
  <2>1. CASE UNCHANGED vars
    <3>1. unfinalized' = unfinalized /\ shares' = shares
      BY <2>1 DEF vars, lidoVars, shareVars
    <3> QED BY <1>1, <3>1, QueueUntouched
  <2>2. CASE PaidFinalization
    BY <1>13, <2>2, QueueThroughReport
  <2> QED BY <2>1, <2>2
<1>14. CASE UNCHANGED vars
  <2>1. unfinalized' = unfinalized /\ shares' = shares
    BY <1>14 DEF vars, lidoVars, shareVars
  <2> QED BY <1>1, <2>1, QueueUntouched
<1> QED BY <1>2, <1>3, <1>4, <1>5, <1>6, <1>7, <1>8, <1>9, <1>10, <1>11, <1>12, <1>13, <1>14
        DEF Next

\* With the accounts of Queue and Burner backed and the vaults as the report found
\* them, nothing in the application of a report reverts.
LEMMA CheckedReportApplies ==
  ASSUME Inv, QueueBacked, NEW r \in Reports, NEW u, u = Simulate(r), Admissible(r, u)
  PROVE  AppliesCleanly(u)
<1>1. u \in CalculatedValues /\ lastProcessingRefSlot < refSlot
  BY DEF Admissible
<1>2. /\ u.etherToFinalizeWQ \in Nat /\ u.sharesToFinalizeWQ \in Nat
      /\ u.withdrawals \in Nat /\ u.elRewards \in Nat /\ u.totalSharesToBurn \in Nat
      /\ u.badDebt \in Nat
  BY ONLY <1>1 DEF CalculatedValues
<1>3. u.sharesToFinalizeWQ <= shares[Queue]
  <2>1. PICK last \in 0..Len(unfinalized) : u.sharesToFinalizeWQ = SumOf(QueuedShares, 1..last)
    BY FinalizedShares
  <2>2. PICK paid \in Nat, rest \in Nat, held \in Nat :
          /\ paid = SumOf(QueuedShares, 1..last) /\ held = shares[Queue]
          /\ paid + rest <= held
    BY TypeParts, BurnerApart, QueuedSums DEF QueueBacked
  <2> QED BY <2>1, <2>2
<1>4. u.badDebt <= badDebtToInternalize.value /\ u.badDebt <= externalShares
  <2>1. u.badDebt = ValueForLastRefSlot(badDebtToInternalize, refSlot)
    BY SimulationParts
  <2>2. /\ externalShares = liabilityShares + badDebtToInternalize.value
        /\ ValueForLastRefSlot(badDebtToInternalize, refSlot) <= badDebtToInternalize.value
    BY <1>1 DEF Inv, ExternalSharesOwned
  <2>3. liabilityShares \in Nat /\ badDebtToInternalize.value \in Nat
    BY DEF Inv, TypeOK
  <2> QED BY <1>2, <2>1, <2>2, <2>3
<1>5. /\ u.withdrawals <= withdrawalVault /\ u.elRewards <= elRewardsVault
      /\ u.totalSharesToBurn <= SharesBurnRequested + u.sharesToFinalizeWQ
  <2>1. PICK sm : TakenFrom(sm, r, u)
    BY SimulationSmoothed
  <2>2. PICK pre \in Int, post \in Int, w \in Nat, e \in Nat, asked \in Nat, lock \in Nat, new \in Nat :
          /\ pre = PrincipalClBalance(r) /\ post = ClBalance(r)
          /\ w = r.withdrawalVaultBalance /\ e = r.elRewardsVaultBalance
          /\ asked = r.sharesRequestedToBurn
          /\ lock = u.etherToFinalizeWQ /\ new = u.sharesToFinalizeWQ
    BY <1>2, ReportNumbers
  <2>3. PICK l : l = InitLimiterState(RebaseLimit, InternalEther, InternalShares)
    OBVIOUS
  <2>4. l \in Limiters
    <3>1. PICK E \in Nat, S \in Nat, p \in Nat \ {0}, limit \in Nat, unlimited \in Nat :
            /\ E = InternalEther /\ S = InternalShares /\ p = LimiterPrecision
            /\ limit = RebaseLimit /\ unlimited = UnlimitedRebase
      BY TypeParts, InternalAmounts, LimiterAssumption, InputAssumption
    <3>2. PICK le \in Nat : le = limit * E
      OBVIOUS
    <3>3. PICK gain \in Nat : gain = le \div p
      BY QuotientNat
    <3>4. l = [preTotalPooledEther |-> E, preTotalShares |-> S, currentTotalPooledEther |-> E,
               positiveRebaseLimit |-> IF E = 0 THEN unlimited ELSE limit,
               maxTotalPooledEther |-> E + gain]
      BY <2>3, <3>1, <3>2, <3>3 DEF InitLimiterState
    <3> QED BY <3>1, <3>4 DEF Limiters, LimiterData, IsUnlimited
  <2>5. sm = SmoothenTokenRebase(l, pre, post, w, e, asked, lock, new)
    BY <2>1, <2>2, <2>3 DEF TakenFrom, Smoothened
  <2>6. sm.withdrawals <= w /\ sm.elRewards <= e /\ sm.sharesToBurn <= new + asked
    BY ONLY <2>2, <2>4, <2>5, SmoothenedAtMost
  <2>7. u.withdrawals <= w /\ u.elRewards <= e /\ u.totalSharesToBurn <= new + asked
    BY <2>1, <2>6 DEF TakenFrom
  <2>8. /\ w <= withdrawalVault /\ e <= elRewardsVault /\ asked <= SharesBurnRequested
        /\ SharesBurnRequested \in Nat
    BY <2>2, ReportNumbers
  <2>9. withdrawalVault \in Nat /\ elRewardsVault \in Nat
    BY DEF Inv, TypeOK
  <2> QED BY <1>2, <2>2, <2>7, <2>8, <2>9
<1>6. u.totalSharesToBurn <= shares[Burner] + u.sharesToFinalizeWQ
  <2>1. /\ shares[Burner] \in Nat /\ SharesBurnRequested \in Nat
        /\ SharesBurnRequested <= shares[Burner]
    BY TypeParts, BurnerApart DEF Inv, TypeOK, BurnerBacked, SharesBurnRequested
  <2> QED BY <1>2, <1>5, <2>1
<1> QED BY <1>3, <1>4, <1>5, <1>6 DEF AppliesCleanly

-----------------------------------------------------------------------------
(* What was staked since the limit was set.                                *)

\* The block from which the limit grows; while staking is paused it would
\* grow from the resumption.
LimitFrom == IF IsStakingPaused THEN block ELSE stakeLimit.prevStakeBlockNumber

\* What was staked and what is left of the limit are no more than the maximum
\* and its growth up to the block of the last change.
WindowInv ==
  /\ staked \in Int /\ since \in Nat
  /\ IsStakingLimitSet =>
       staked + stakeLimit.prevStakeLimit
         <= stakeLimit.maxStakeLimit + (LimitFrom - since) * StakeLimitIncPerBlock

\* A step that stakes no more than n, and takes n from the limit.
TakesFromLimit(n) ==
  /\ StakedInStep \in Int /\ StakedInStep <= n /\ block <= block'
  /\ \/ stakeLimit' = stakeLimit /\ (n = 0 \/ ~IsStakingLimitSet)
     \/ n = 0 /\ block' = block /\ \E paused \in BOOLEAN : SetPause(paused)
     \/ /\ IsStakingLimitSet /\ ~IsStakingPaused /\ block' = block
        /\ stakeLimit' = UpdatePrevStakeLimit(CurrentStakeLimit - n)

LEMMA LimitTyped ==
  ASSUME Inv
  PROVE  /\ stakeLimit \in StakeLimitData /\ stakeLimit.prevStakeLimit \in Nat
         /\ stakeLimit.maxStakeLimit \in Nat /\ stakeLimit.prevStakeBlockNumber \in Nat
         /\ stakeLimit.prevStakeBlockNumber <= block /\ block \in Nat \ {0}
         /\ LimitFrom \in Nat /\ LimitFrom <= block
         /\ StakeLimitIncPerBlock \in Nat
<1>1. /\ stakeLimit \in StakeLimitData /\ block \in Nat \ {0}
      /\ stakeLimit.prevStakeBlockNumber <= block
  BY DEF Inv, TypeOK, LidoTypeOK, StakeLimitDated
<1>2. /\ stakeLimit.prevStakeLimit \in Nat /\ stakeLimit.maxStakeLimit \in Nat
      /\ stakeLimit.prevStakeBlockNumber \in Nat /\ stakeLimit.maxStakeLimitGrowthBlocks \in Nat
  BY <1>1 DEF StakeLimitData
<1>3. LimitFrom \in Nat /\ LimitFrom <= block
  BY <1>1, <1>2 DEF LimitFrom
<1>4. StakeLimitIncPerBlock \in Nat
  BY <1>2, QuotientNat DEF StakeLimitIncPerBlock
<1> QED BY <1>1, <1>2, <1>3, <1>4

\* Since the last change the limit grew by its growth per block, at most.
LEMMA RegrowthAtMost ==
  ASSUME Inv, ~IsStakingPaused, NEW grown \in Nat,
         grown = (block - LimitFrom) * StakeLimitIncPerBlock
  PROVE  CurrentStakeLimit <= stakeLimit.prevStakeLimit + grown
<1>1. PICK prev \in Nat, top \in Nat : /\ prev = stakeLimit.prevStakeLimit
                                      /\ top = stakeLimit.maxStakeLimit
  BY LimitTyped
<1>2. CurrentStakeLimit = IF prev < top THEN Min({prev + grown, top}) ELSE Max({prev - grown, top})
  BY <1>1 DEF CurrentStakeLimit, LimitFrom
<1>3. PICK more \in Int, less \in Int : more = prev + grown /\ less = prev - grown
  OBVIOUS
<1>4. top \in Int
  OBVIOUS
<1>5. Min({more, top}) <= more
  BY ONLY <1>3, <1>4, MinOfTwo
<1>6. Max({less, top}) \in {less, top}
  BY ONLY <1>3, <1>4, MaxOfTwo
<1> QED BY <1>1, <1>2, <1>3, <1>5, <1>6

\* The growth over two spans of blocks is the growth over both.
LEMMA GrowthAdds ==
  ASSUME NEW a \in Int, NEW b \in Int, NEW c \in Int, NEW inc \in Nat, a <= b
  PROVE  /\ (b - c) * inc = (a - c) * inc + (b - a) * inc
         /\ (b - a) * inc \in Nat
<1>1. b - a \in Nat
  OBVIOUS
<1>2. (b - a) * inc \in Nat
  BY <1>1, ProductNat
<1>3. (b - c) * inc = (a - c) * inc + (b - a) * inc
  OBVIOUS
<1> QED BY <1>2, <1>3

\* What is taken from the limit may have been staked.
LEMMA WindowThroughStep ==
  ASSUME Inv, Inv', WindowInv, NEW n \in Int, TakesFromLimit(n), since' = since,
         staked' = IF IsStakingLimitSet THEN staked + StakedInStep ELSE 0
  PROVE  WindowInv'
<1>1. PICK prev \in Nat, top \in Nat, from \in Nat, inc \in Nat, now \in Nat :
        /\ prev = stakeLimit.prevStakeLimit /\ top = stakeLimit.maxStakeLimit
        /\ from = LimitFrom /\ from <= block
        /\ inc = StakeLimitIncPerBlock /\ now = block /\ now # 0
  BY LimitTyped
<1>2. staked' \in Int /\ since' \in Nat /\ since \in Int
  BY DEF WindowInv, TakesFromLimit
<1>3. PICK from1 \in Nat, now1 \in Nat :
        from1 = LimitFrom' /\ now1 = block' /\ from1 <= now1 /\ now <= now1
  <2>1. LimitFrom' \in Nat /\ block' \in Nat /\ LimitFrom' <= block'
    <3>1. /\ stakeLimit' \in StakeLimitData /\ block' \in Nat
          /\ stakeLimit'.prevStakeBlockNumber <= block'
      BY DEF Inv, TypeOK, LidoTypeOK, StakeLimitDated
    <3>2. stakeLimit'.prevStakeBlockNumber \in Nat
      BY <3>1 DEF StakeLimitData
    <3> QED BY <3>1, <3>2 DEF LimitFrom, IsStakingPaused
  <2> QED BY <1>1, <2>1 DEF TakesFromLimit
<1>4. ASSUME IsStakingLimitSet, IsStakingLimitSet', NEW left \in Nat,
             left = stakeLimit'.prevStakeLimit, stakeLimit'.maxStakeLimit = top,
             StakeLimitIncPerBlock' = inc, from <= from1,
             n + left <= prev + (from1 - from) * inc
      PROVE  WindowInv'
  <2>1. staked \in Int /\ StakedInStep \in Int /\ StakedInStep <= n
        /\ staked' = staked + StakedInStep
    BY <1>4 DEF WindowInv, TakesFromLimit
  <2>2. PICK grown \in Int, more \in Nat, all \in Int :
          /\ grown = (from - since) * inc /\ more = (from1 - from) * inc
          /\ all = (from1 - since) * inc /\ all = grown + more
    <3>1. (from1 - since) * inc = (from - since) * inc + (from1 - from) * inc
          /\ (from1 - from) * inc \in Nat
      BY ONLY from \in Nat, from1 \in Nat, <1>2, <1>4, inc \in Nat, GrowthAdds
    <3>2. (from - since) * inc \in Int
      BY <1>2
    <3> QED BY <3>1, <3>2
  <2>3. staked + prev <= top + grown
    BY <1>1, <1>4, <2>2 DEF WindowInv
  <2>4. staked' + left <= top + all
    BY <1>4, <2>1, <2>2, <2>3
  <2> QED BY <1>2, <1>3, <1>4, <2>2, <2>4 DEF WindowInv
<1>5. CASE ~IsStakingLimitSet' \/ ~IsStakingLimitSet
  <2>1. ~IsStakingLimitSet'
    <3>1. ~IsStakingLimitSet => stakeLimit'.maxStakeLimit = stakeLimit.maxStakeLimit
      BY LimitTyped DEF TakesFromLimit, SetPause, StakeLimitData
    <3> QED BY <1>5, <3>1 DEF IsStakingLimitSet
  <2> QED BY <1>2, <2>1 DEF WindowInv
<1>6. CASE IsStakingLimitSet /\ IsStakingLimitSet' /\ stakeLimit' = stakeLimit /\ n = 0
  <2>1. StakeLimitIncPerBlock' = inc
    BY <1>1, <1>6 DEF StakeLimitIncPerBlock
  <2>2. from <= from1
    BY <1>1, <1>3, <1>6 DEF LimitFrom, IsStakingPaused
  <2>3. (from1 - from) * inc \in Nat
    BY ONLY from \in Nat, from1 \in Nat, inc \in Nat, <2>2, GrowthAdds
  <2> QED BY <1>1, <1>4, <1>6, <2>1, <2>2, <2>3
<1>7. ASSUME IsStakingLimitSet, n = 0, block' = block, NEW paused \in BOOLEAN, SetPause(paused)
      PROVE  WindowInv'
  <2>1. /\ stakeLimit'.prevStakeLimit = prev /\ stakeLimit'.maxStakeLimit = top
        /\ stakeLimit'.maxStakeLimitGrowthBlocks = stakeLimit.maxStakeLimitGrowthBlocks
        /\ stakeLimit'.prevStakeBlockNumber \in {0, now}
    BY <1>1, <1>7, LimitTyped DEF SetPause, StakeLimitData
  <2>2. IsStakingLimitSet' /\ StakeLimitIncPerBlock' = inc
    BY <1>1, <1>7, <2>1 DEF StakeLimitIncPerBlock, IsStakingLimitSet
  <2>3. from <= from1
    BY <1>1, <1>3, <1>7, <2>1 DEF LimitFrom, IsStakingPaused
  <2>4. (from1 - from) * inc \in Nat
    BY ONLY from \in Nat, from1 \in Nat, inc \in Nat, <2>3, GrowthAdds
  <2> QED BY <1>4, <1>7, <2>1, <2>2, <2>3, <2>4
<1>8. CASE /\ IsStakingLimitSet /\ ~IsStakingPaused /\ block' = block
           /\ stakeLimit' = UpdatePrevStakeLimit(CurrentStakeLimit - n)
  <2>1. PICK left \in Int : left = CurrentStakeLimit - n
    BY CurrentLimitNat DEF Inv, TypeOK
  <2>2. /\ stakeLimit'.prevStakeLimit = left /\ stakeLimit'.maxStakeLimit = top
        /\ stakeLimit'.maxStakeLimitGrowthBlocks = stakeLimit.maxStakeLimitGrowthBlocks
        /\ stakeLimit'.prevStakeBlockNumber = now
    BY <1>1, <1>8, <2>1, LimitTyped DEF UpdatePrevStakeLimit, StakeLimitData
  <2>3. left \in Nat
    <3>1. stakeLimit' \in StakeLimitData
      BY DEF Inv, TypeOK, LidoTypeOK
    <3> QED BY <2>2, <3>1 DEF StakeLimitData
  <2>4. IsStakingLimitSet' /\ StakeLimitIncPerBlock' = inc
    BY <1>1, <1>8, <2>2 DEF StakeLimitIncPerBlock, IsStakingLimitSet
  <2>5. from1 = now /\ from <= from1
    BY <1>1, <1>3, <1>8, <2>2 DEF LimitFrom, IsStakingPaused
  <2>6. PICK more \in Nat : more = (from1 - from) * inc
    <3>1. (from1 - from) * inc \in Nat
      BY ONLY from \in Nat, from1 \in Nat, inc \in Nat, <2>5, GrowthAdds
    <3> QED BY <3>1
  <2>7. CurrentStakeLimit <= prev + more
    <3>1. more = (block - LimitFrom) * StakeLimitIncPerBlock
      BY <1>1, <2>5, <2>6
    <3> QED BY <1>1, <1>8, <3>1, RegrowthAtMost
  <2>8. CurrentStakeLimit \in Nat
    BY CurrentLimitNat DEF Inv, TypeOK
  <2>9. n + left <= prev + (from1 - from) * inc
    BY <2>1, <2>6, <2>7, <2>8
  <2> QED BY <1>4, <1>8, <2>2, <2>3, <2>4, <2>5, <2>9
<1> QED BY <1>5, <1>6, <1>7, <1>8 DEF TakesFromLimit

\* Setting the limit, or removing it, starts anew.
LEMMA WindowThroughSetting ==
  ASSUME Inv, Inv', LimitSet, staked' = 0, since' = block
  PROVE  WindowInv'
<1>1. staked' \in Int /\ since' \in Nat /\ since' = block /\ block \in Nat \ {0}
  BY LimitTyped
<1>2. CASE RemoveStakingLimit
  <2>1. ~IsStakingLimitSet'
    BY <1>2, LimitTyped DEF RemoveStakingLimit, IsStakingLimitSet, StakeLimitData
  <2> QED BY <1>1, <2>1 DEF WindowInv
<1>3. ASSUME NEW l \in StakeLimits, SetStakingLimit(l.max, l.increase)
      PROVE  WindowInv'
  <2>1. /\ stakeLimit'.prevStakeLimit = IF IsStakingPaused \/ ~IsStakingLimitSet
                                            \/ l.max < stakeLimit.prevStakeLimit
                                         THEN l.max ELSE stakeLimit.prevStakeLimit
        /\ stakeLimit'.maxStakeLimit = l.max /\ stakeLimit'.prevStakeBlockNumber \in {0, block}
        /\ block' = block
    BY <1>3 DEF SetStakingLimit
  <2>2. l.max \in Nat /\ stakeLimit.prevStakeLimit \in Nat
    BY LimitTyped, LidoAssumption
  <2>3. stakeLimit'.prevStakeLimit \in Nat /\ stakeLimit'.prevStakeLimit <= l.max
    BY <2>1, <2>2
  <2>4. LimitFrom' = block
    BY <1>1, <2>1 DEF LimitFrom, IsStakingPaused
  <2>5. PICK inc \in Nat : inc = StakeLimitIncPerBlock'
    <3>1. stakeLimit' \in StakeLimitData
      BY DEF Inv, TypeOK, LidoTypeOK
    <3>2. stakeLimit'.maxStakeLimit \in Nat /\ stakeLimit'.maxStakeLimitGrowthBlocks \in Nat
      BY <3>1 DEF StakeLimitData
    <3>3. StakeLimitIncPerBlock' \in Nat
      BY <3>2, QuotientNat DEF StakeLimitIncPerBlock
    <3> QED BY <3>3
  <2>6. (LimitFrom' - since') * inc = 0
    BY <1>1, <2>4
  <2> QED BY <1>1, <2>1, <2>2, <2>3, <2>5, <2>6 DEF WindowInv
<1> QED BY <1>2, <1>3 DEF LimitSet

\* A step that leaves the limit alone stakes nothing.
LEMMA NothingStaked ==
  ASSUME Inv, UNCHANGED <<externalShares, stakeLimit, block>>,
         bufferedEther' <= bufferedEther, bufferedEther' \in Nat
  PROVE  TakesFromLimit(0)
<1>1. bufferedEther \in Nat /\ block \in Nat
  BY TypeParts
<1>2. StakedInStep = 0
  BY <1>1 DEF StakedInStep
<1> QED BY <1>1, <1>2 DEF TakesFromLimit

LEMMA StakedByDecrease ==
  ASSUME Inv, NEW n \in Nat, DecreaseStakingLimit(n), block' = block, StakedInStep \in {0, n}
  PROVE  \E k \in Int : TakesFromLimit(k)
<1>1. StakedInStep \in Int /\ StakedInStep <= n /\ block <= block'
  BY TypeParts
<1>2. TakesFromLimit(n)
  BY <1>1 DEF TakesFromLimit, DecreaseStakingLimit
<1> QED BY <1>2

LEMMA StepsTake ==
  ASSUME Inv, Inv', Next, ~LimitSet
  PROVE  \E n \in Int : TakesFromLimit(n)
<1>1. /\ externalShares \in Nat /\ totalShares \in Nat /\ bufferedEther \in Nat
      /\ bufferedEther' \in Nat /\ block \in Nat \ {0}
  BY TypeParts DEF Inv, TypeOK, LidoTypeOK
<1>2. ASSUME UNCHANGED <<externalShares, bufferedEther, stakeLimit, block>>
      PROVE  \E n \in Int : TakesFromLimit(n)
  <2>1. bufferedEther' <= bufferedEther
    BY <1>1, <1>2
  <2> QED BY <1>1, <1>2, <2>1, NothingStaked
<1>3. CASE \/ \E u \in Users, a \in Recipients, n \in ShareAmounts : UserTransfers(u, a, n)
           \/ \E u \in Users, v \in Withdrawals : RequestWithdrawal(u, v)
           \/ \E u \in Users, n \in BurnAmounts, b \in BOOLEAN : RequestBurnShares(u, n, b)
           \/ \E u \in Users, v \in StETHAmounts, b \in BOOLEAN : RequestBurnMyStETH(u, v, b)
           \/ RecoverExcessStETH
  BY <1>2, <1>3 DEF UserTransfers, RequestWithdrawal, RequestBurnShares, RequestBurnMyStETH,
     RecoverExcessStETH, TransferShares, etherVars
<1>4. CASE ReceiveRewards \/ NextRefSlot \/ \E n \in ShareAmounts : InternalizeBadDebt(n)
  BY <1>2, <1>4 DEF ReceiveRewards, NextRefSlot, InternalizeBadDebt, lidoVars, shareVars, etherVars
<1>5. ASSUME NEW u \in Users, NEW v \in Deposits, UserSubmits(u, v)
      PROVE  \E n \in Int : TakesFromLimit(n)
  <2>1. v \in Nat
    BY InputAssumption
  <2>2. /\ DecreaseStakingLimit(v) /\ bufferedEther' = bufferedEther + v
        /\ externalShares' = externalShares /\ block' = block
    BY <1>5 DEF UserSubmits, Submit
  <2>3. StakedInStep \in {0, v}
    BY <1>1, <2>1, <2>2 DEF StakedInStep
  <2> QED BY <2>1, <2>2, <2>3, StakedByDecrease
<1>6. ASSUME NEW c \in 1..MaxShares, DepositBufferedEther(c)
      PROVE  \E n \in Int : TakesFromLimit(n)
  <2>1. PICK e \in Nat : e = c * DepositSize
    <3>1. c \in Nat /\ DepositSize \in Nat
      BY LidoAssumption
    <3> QED BY <3>1, ProductNat
  <2>2. bufferedEther' = bufferedEther - e
        /\ UNCHANGED <<externalShares, stakeLimit, block>>
    BY <1>6, <2>1 DEF DepositBufferedEther, Deposit, shareVars
  <2>3. bufferedEther' <= bufferedEther
    BY <1>1, <2>1, <2>2
  <2> QED BY <1>1, <2>2, <2>3, NothingStaked
<1>7. ASSUME NEW u \in Users, NEW n \in ShareAmounts, HubMintShares(u, n)
      PROVE  \E k \in Int : TakesFromLimit(k)
  <2>1. n \in Nat /\ PooledEthByShares(n) \in Nat
    BY InputAssumption, TypeParts, Conversions
  <2>2. /\ n # 0 /\ DecreaseStakingLimit(PooledEthByShares(n)) /\ block' = block
        /\ externalShares' = externalShares + n /\ totalShares' = totalShares + n
    BY <1>7 DEF HubMintShares, MintExternalShares, MintTo
  <2>3. externalShares' # externalShares /\ totalShares' > totalShares
        /\ ~(totalShares' < totalShares) /\ totalShares' - totalShares = n
    BY <1>1, <2>1, <2>2
  <2>4. StakedInStep \in {0, PooledEthByShares(n)}
    BY <2>3 DEF StakedInStep
  <2> QED BY <2>1, <2>2, <2>4, StakedByDecrease
<1>8. ASSUME NEW n \in ShareAmounts, HubBurnShares(n)
      PROVE  \E k \in Int : TakesFromLimit(k)
  <2>1. n \in Nat /\ PooledEthByShares(n) \in Nat
    BY InputAssumption, TypeParts, Conversions
  <2>2. /\ n # 0 /\ n <= externalShares /\ externalShares' = externalShares - n
        /\ totalShares' = totalShares - n /\ block' = block
        /\ stakeLimit' = IF IsStakingLimitSet /\ ~IsStakingPaused
                         THEN UpdatePrevStakeLimit(CurrentStakeLimit + PooledEthByShares(n))
                         ELSE stakeLimit
        /\ ~IsReport
    BY <1>8 DEF HubBurnShares, BurnExternalShares, adminVars, slotVars, IsReport
  <2>3. /\ externalShares' # externalShares /\ ~(totalShares' > totalShares)
        /\ totalShares' < totalShares /\ totalShares - totalShares' = n
    BY <1>1, <2>1, <2>2
  <2>4. StakedInStep = - PooledEthByShares(n)
    BY <2>2, <2>3 DEF StakedInStep
  <2>5. PICK k \in Int : k = - PooledEthByShares(n) /\ k <= 0
    BY <2>1
  <2>6. CurrentStakeLimit \in Nat
    BY CurrentLimitNat DEF Inv, TypeOK
  <2>7. CurrentStakeLimit - k = CurrentStakeLimit + PooledEthByShares(n)
    BY <2>1, <2>5, <2>6
  <2>8. CASE IsStakingLimitSet /\ ~IsStakingPaused
    <3>1. TakesFromLimit(k)
      BY <1>1, <2>2, <2>4, <2>5, <2>7, <2>8 DEF TakesFromLimit
    <3> QED BY <3>1
  <2>9. CASE ~(IsStakingLimitSet /\ ~IsStakingPaused)
    <3>1. TakesFromLimit(0)
      BY <1>1, <2>2, <2>4, <2>5, <2>9 DEF TakesFromLimit
    <3> QED BY <3>1
  <2> QED BY <2>8, <2>9
<1>9. ASSUME NEW n \in ShareAmounts, HubRebalance(n)
      PROVE  \E k \in Int : TakesFromLimit(k)
  <2>1. n \in Nat /\ PooledEthBySharesRoundUp(n) # 0
        /\ n <= externalShares /\ externalShares' = externalShares - n
        /\ totalShares' = totalShares /\ stakeLimit' = stakeLimit /\ block' = block
    BY <1>9, InputAssumption DEF HubRebalance, RebalanceExternalEtherToInternal
  <2>2. n # 0
    <3>1. PICK E \in Nat, S \in Nat \ {0} : E = InternalEther /\ S = InternalShares
      BY TypeParts, InternalAmounts
    <3>2. (S - 1) \div S = 0 /\ 0 * E + S - 1 = S - 1
      BY <3>1
    <3>3. n = 0 => PooledEthBySharesRoundUp(n) = 0
      BY <3>1, <3>2 DEF PooledEthBySharesRoundUp
    <3> QED BY <2>1, <3>3
  <2>3. externalShares' # externalShares /\ ~(totalShares' > totalShares)
        /\ ~(totalShares' < totalShares)
    BY <1>1, <2>1, <2>2
  <2>4. StakedInStep = 0
    BY <2>3 DEF StakedInStep
  <2>5. TakesFromLimit(0)
    BY <1>1, <2>1, <2>4 DEF TakesFromLimit
  <2> QED BY <2>5
<1>10. ASSUME NEW r \in Reports, HandleOracleReport(r)
       PROVE  \E k \in Int : TakesFromLimit(k)
  <2>1. PICK u : HandleSimulated(r, u)
    BY <1>10 DEF HandleOracleReport
  <2>2. /\ stakeLimit' = stakeLimit /\ block' = block
        /\ lastProcessingRefSlot < refSlot /\ lastProcessingRefSlot' = refSlot
    BY <2>1 DEF HandleSimulated, Admissible, ApplyOracleReport
  <2>3. refSlot \in Nat /\ lastProcessingRefSlot \in Nat
    BY DEF Inv, TypeOK
  <2>4. StakedInStep = 0
    BY <2>2, <2>3 DEF StakedInStep, IsReport
  <2>5. TakesFromLimit(0)
    BY <1>1, <2>2, <2>4 DEF TakesFromLimit
  <2> QED BY <2>5
<1>11. CASE Administer
  <2>1. CASE Stop \/ PauseStaking \/ Resume \/ ResumeStaking
    <3>1. /\ \E b \in BOOLEAN : SetPause(b)
          /\ UNCHANGED <<externalShares, bufferedEther, block>>
      BY <2>1 DEF Stop, PauseStaking, Resume, ResumeStaking, shareVars, etherVars
    <3>2. StakedInStep = 0 /\ block <= block'
      BY <1>1, <3>1 DEF StakedInStep
    <3>3. TakesFromLimit(0)
      BY <3>1, <3>2 DEF TakesFromLimit
    <3> QED BY <3>3
  <2>2. CASE \E b \in Ratios : SetMaxExternalRatioBP(b)
    BY <1>2, <2>2 DEF SetMaxExternalRatioBP, shareVars, etherVars
  <2>3. CASE NextBlock
    <3>1. UNCHANGED <<externalShares, bufferedEther, stakeLimit>> /\ block' = block + 1
      BY <2>3 DEF NextBlock, shareVars, etherVars
    <3>2. StakedInStep = 0 /\ block <= block'
      BY <1>1, <3>1 DEF StakedInStep
    <3>3. TakesFromLimit(0)
      BY <3>1, <3>2 DEF TakesFromLimit
    <3> QED BY <3>3
  <2> QED BY <1>11, <2>1, <2>2, <2>3 DEF Administer, LimitSet
<1> QED BY <1>3, <1>4, <1>5, <1>6, <1>7, <1>8, <1>9, <1>10, <1>11 DEF Next

-----------------------------------------------------------------------------
(* Theorems.                                                               *)

LEMMA InitInv == Init => Inv
<1> SUFFICES ASSUME Init PROVE Inv
  OBVIOUS
<1>1. LidoTypeOK /\ StakeLimitDated
  BY LidoAssumption DEF Init, LidoInit, LidoTypeOK, StakeLimitDated, StakeLimitData
<1>2. MapThenSumSet(LAMBDA a : shares[a], Accounts) = totalShares /\ externalShares < totalShares
  <2>1. PICK zero : zero = [a \in Accounts |-> 0]
    OBVIOUS
  <2>2. /\ \A x \in Accounts : zero[x] \in Int /\ shares[x] \in Int
        /\ shares[InitialHolder] = zero[InitialHolder] + InitialEther
        /\ \A x \in Accounts : x # InitialHolder => shares[x] = zero[x]
        /\ InitialEther \in Int /\ InitialHolder \in Accounts
    BY <2>1, LidoAssumption DEF Init, LidoInit
  <2>3. SumOf(shares, Accounts) = SumOf(zero, Accounts) + InitialEther
    BY ONLY <2>2, OneChanges
  <2>4. SumOf(zero, Accounts) = 0
    <3>1. IsFiniteSet(Accounts) /\ \A x \in Accounts : zero[x] = 0
      BY <2>1, LidoAssumption
    <3> QED BY ONLY <3>1, SumOfZeros
  <2>5. totalShares = InitialEther /\ externalShares = 0 /\ InitialEther \in Nat \ {0}
    BY LidoAssumption DEF Init, LidoInit
  <2> QED BY <2>3, <2>4, <2>5, SharesSum
<1>3. SharesConserved
  BY <1>2 DEF SharesConserved
<1>4. RestOK
  <2>1. shares[Burner] \in Nat
    BY <1>1, BurnerApart DEF LidoTypeOK
  <2> QED BY <2>1 DEF Init, LidoInit, RestOK, BurnerBacked, SharesBurnRequested,
                  ExternalSharesOwned, BadDebtDated, ValueForLastRefSlot
<1> QED BY <1>1, <1>3, <1>4, InvParts DEF LedgerOK

LEMMA NextInv == Inv /\ [Next]_vars => Inv'
<1> SUFFICES ASSUME Inv, [Next]_vars PROVE Inv'
  OBVIOUS
<1>1. CASE \E u \in Users, a \in Recipients, n \in ShareAmounts : UserTransfers(u, a, n)
  BY <1>1, InvTransfers
<1>2. CASE \E u \in Users, v \in Deposits : UserSubmits(u, v)
  BY <1>2, InvSubmits
<1>3. CASE \E u \in Users, v \in Withdrawals : RequestWithdrawal(u, v)
  BY <1>3, InvRequests
<1>4. CASE \E c \in 1..MaxShares : DepositBufferedEther(c)
  BY <1>4, InvDeposits, LidoAssumption
<1>5. CASE \E u \in Users, n \in BurnAmounts, b \in BOOLEAN : RequestBurnShares(u, n, b)
  BY <1>5, InvBurnShares
<1>6. CASE \E u \in Users, v \in StETHAmounts, b \in BOOLEAN : RequestBurnMyStETH(u, v, b)
  BY <1>6, InvBurnStETH
<1>7. CASE RecoverExcessStETH
  BY <1>7, InvRecover
<1>8. CASE \E u \in Users, n \in ShareAmounts : HubMintShares(u, n)
  BY <1>8, InvHubMint
<1>9. CASE \E n \in ShareAmounts : HubBurnShares(n) \/ HubRebalance(n) \/ InternalizeBadDebt(n)
  BY <1>9, InvHubBurn, InvHubRebalance, InvBadDebt
<1>10. CASE \E r \in Reports : HandleOracleReport(r)
  BY <1>10, InvReport
<1>11. CASE Administer \/ ReceiveRewards \/ NextRefSlot
  BY <1>11, InvAdminister, InvRewards, InvNextRefSlot
<1>12. CASE UNCHANGED vars
  <2>1. LedgerOK' /\ shares' = shares /\ externalShares' = externalShares
    BY <1>12, LedgerUntouched DEF vars
  <2>2. shares[Burner] <= shares'[Burner] /\ shares'[Burner] \in Nat
    BY <2>1, TypeParts, BurnerApart
  <2>3. RestOK'
    BY <1>12, <2>1, <2>2, RestKept DEF vars
  <2> QED BY <2>1, <2>3, InvPartsNext
<1> QED BY <1>1, <1>2, <1>3, <1>4, <1>5, <1>6, <1>7, <1>8, <1>9, <1>10, <1>11, <1>12
        DEF Next

LEMMA Invariance == Spec => []Inv
  BY InitInv, NextInv, PTL DEF Spec

\* Every reachable state of the ledger and the report is well typed: no counter
\* of Lido, Burner, VaultHub or the vaults falls below zero.
THEOREM TypeCorrect == Spec => []TypeOK
<1>1. Inv => TypeOK
  BY DEF Inv
<1> QED
  BY <1>1, Invariance, PTL

\* The shares of all accounts add up to the total through every mint, burn,
\* transfer and report, and internal shares never run out.
THEOREM ShareLedgerBalanced == Spec => []SharesConserved
<1>1. Inv => SharesConserved
  BY DEF Inv
<1> QED
  BY <1>1, Invariance, PTL

\* Burner holds what it was asked to burn, whatever rounding, recovery of the
\* excess and partial burns by reports did.
THEOREM BurnRequestsBacked == Spec => []BurnerBacked
<1>1. Inv => BurnerBacked
  BY DEF Inv
<1> QED
  BY <1>1, Invariance, PTL

\* Every external share is a liability or bad debt set aside, and a report to
\* come takes over no more of it than there is.
THEOREM ExternalSharesAccounted == Spec => []ExternalSharesOwned
<1>1. Inv => ExternalSharesOwned
  BY DEF Inv
<1> QED
  BY <1>1, Invariance, PTL

\* No step but a report makes a share worth less: submissions, withdrawal and
\* burn requests, deposits, external mints, burns and rebalances all round in
\* favour of the holders.
THEOREM RateHeldBetweenReports == Spec => RateNotDiluted
<1>1. Inv /\ [Next]_vars => [RateNotDilutedStep]_vars
  BY RateNext
<1> QED
  BY <1>1, Invariance, PTL DEF Spec, RateNotDiluted

\* A report leaves exactly the totals that Accounting simulated and emitted.
THEOREM SimulationHolds == Spec => RebaseAsSimulated
<1>1. Inv /\ [Next]_vars => [RebaseAsSimulatedStep]_vars
  BY ReportAsSimulated DEF RebaseAsSimulatedStep
<1> QED
  BY <1>1, Invariance, PTL DEF Spec, RebaseAsSimulated

\* However much the consensus layer, the vaults, the burn requests and the queue
\* have for a report, the rate rises by no more than the limit, if there is one.
THEOREM RiseOfRateLimited ==
  ASSUME RebaseLimit # UnlimitedRebase
  PROVE  Spec => RebaseLimited
<1>1. Inv /\ [Next]_vars => [RebaseLimitedStep]_vars
  BY ReportLimited, OnlyReportsReport DEF RebaseLimitedStep
<1> QED
  BY <1>1, Invariance, PTL DEF Spec, RebaseLimited

\* When reports pay for what they finalize, a report that passes the checks is
\* applied to the end: Queue and Burner have the shares, VaultHub the bad debt and
\* the vaults the ether that its calls take.
THEOREM CheckedReportsApply ==
  Spec /\ [][PaidFinalization]_vars => []ReportApplies
<1>1. Inv /\ Init => QueueBacked
  <2> SUFFICES ASSUME Inv, Init PROVE QueueBacked
    OBVIOUS
  <2>1. Len(unfinalized) = 0 /\ 1..0 = {} /\ shares[Queue] \in Nat
    BY TypeParts, BurnerApart DEF Init
  <2>2. SumOf(QueuedShares, {}) = 0
    BY SumEmpty
  <2> QED BY <2>1, <2>2 DEF QueueBacked
<1>2. Inv /\ Inv' /\ QueueBacked /\ [Next]_vars /\ [PaidFinalization]_vars => QueueBacked'
  BY QueueKept
<1>3. Inv /\ QueueBacked => ReportApplies
  BY CheckedReportApplies DEF ReportApplies
<1> QED
  BY <1>1, <1>2, <1>3, Invariance, PTL DEF Spec

LEMMA WindowInvariance == WindowSpec => [](Inv /\ WindowInv)
<1>1. WindowInit => Init
  BY DEF WindowInit
<1>2. [WindowNext]_windowVars => [Next]_vars
  BY DEF WindowNext, windowVars
<1>3. Inv /\ WindowInit => WindowInv
  BY LimitTyped DEF WindowInit, WindowInv, Init, LidoInit, IsStakingLimitSet
<1>4. Inv /\ Inv' /\ WindowInv /\ [WindowNext]_windowVars => WindowInv'
  <2> SUFFICES ASSUME Inv, Inv', WindowInv, [WindowNext]_windowVars PROVE WindowInv'
    OBVIOUS
  <2>1. CASE WindowNext /\ LimitSet
    BY <2>1, WindowThroughSetting DEF WindowNext
  <2>2. CASE WindowNext /\ ~LimitSet
    <3>1. PICK n \in Int : TakesFromLimit(n)
      BY <2>2, StepsTake DEF WindowNext
    <3> QED BY <2>2, <3>1, WindowThroughStep DEF WindowNext
  <2>3. CASE UNCHANGED windowVars
    BY <2>3 DEF windowVars, vars, lidoVars, WindowInv, LimitFrom, IsStakingPaused,
       IsStakingLimitSet, StakeLimitIncPerBlock
  <2> QED BY <2>1, <2>2, <2>3
<1>5. WindowSpec => []Inv
  BY <1>1, <1>2, Invariance, PTL DEF WindowSpec, Spec
<1> QED
  BY <1>3, <1>4, <1>5, PTL DEF WindowSpec

\* No more is staked since the limit was set than its maximum and its growth per
\* block allow, whatever is paused, resumed, minted against vaults and burnt.
THEOREM StakingWithinLimit == WindowSpec => []StakedWithinLimit
<1>1. Inv /\ WindowInv => StakedWithinLimit
  <2> SUFFICES ASSUME Inv, WindowInv, IsStakingLimitSet PROVE StakedWithinLimit
    BY DEF StakedWithinLimit
  <2>1. PICK prev \in Nat, top \in Nat, from \in Nat, inc \in Nat, now \in Nat :
          /\ prev = stakeLimit.prevStakeLimit /\ top = stakeLimit.maxStakeLimit
          /\ from = LimitFrom /\ from <= now
          /\ inc = StakeLimitIncPerBlock /\ now = block
    BY LimitTyped
  <2>2. staked \in Int /\ since \in Int /\ since \in Nat
    BY DEF WindowInv
  <2>3. PICK grown \in Int, more \in Nat :
          /\ grown = (from - since) * inc /\ more = (now - from) * inc
          /\ (now - since) * inc = grown + more
    <3>1. (now - since) * inc = (from - since) * inc + (now - from) * inc
          /\ (now - from) * inc \in Nat
      BY ONLY <2>1, <2>2, GrowthAdds
    <3>2. (from - since) * inc \in Int
      BY <2>2
    <3> QED BY <3>1, <3>2
  <2>4. staked + prev <= top + grown
    BY <2>1, <2>3 DEF WindowInv
  <2>5. staked <= top + (grown + more)
    BY <2>2, <2>3, <2>4
  <2> QED BY <2>1, <2>3, <2>5 DEF StakedWithinLimit
<1> QED
  BY <1>1, WindowInvariance, PTL

=============================================================================
