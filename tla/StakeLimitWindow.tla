-------------------------- MODULE StakeLimitWindow --------------------------
(***************************************************************************)
(* What the staking limit promises: Accounting's steps, observed by a      *)
(* history of the ether staked since the limit was last set.               *)
(***************************************************************************)
EXTENDS Accounting

VARIABLES
  staked,   \* net ether staked through submit and the vaults' mints and burns
  since     \* block in which the limit was last set or removed

windowVars == <<vars, staked, since>>

\* Ether counted against the limit: what comes in by submit, and the value of
\* the external shares minted less that of those burnt.  A report stakes nothing.
StakedInStep ==
  IF IsReport THEN 0
  ELSE IF externalShares' = externalShares
       THEN IF bufferedEther' > bufferedEther THEN bufferedEther' - bufferedEther ELSE 0
       ELSE CASE totalShares' > totalShares -> PooledEthByShares(totalShares' - totalShares)
              [] totalShares' < totalShares -> - PooledEthByShares(totalShares - totalShares')
              [] OTHER -> 0

LimitSet ==
  \/ \E l \in StakeLimits : SetStakingLimit(l.max, l.increase)
  \/ RemoveStakingLimit

WindowInit == Init /\ staked = 0 /\ since = block

WindowNext ==
  /\ Next
  /\ IF LimitSet
     THEN staked' = 0 /\ since' = block
     ELSE /\ staked' = IF IsStakingLimitSet THEN staked + StakedInStep ELSE 0
          /\ since' = since

WindowSpec == WindowInit /\ [][WindowNext]_windowVars

-----------------------------------------------------------------------------
\* Whatever is staked, minted against vaults and burnt, and however often staking
\* is paused and resumed, no more is staked since the limit was set than its
\* maximum and its growth per block allow: pausing never refills it, and a burn
\* gives back only what it burnt.
StakedWithinLimit ==
  IsStakingLimitSet =>
    staked <= stakeLimit.maxStakeLimit + (block - since) * StakeLimitIncPerBlock
=============================================================================
