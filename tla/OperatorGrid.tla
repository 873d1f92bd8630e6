---------------------------- MODULE OperatorGrid ----------------------------
(***************************************************************************)
(* contracts/0.8.25/vaults/OperatorGrid.sol: tiers and groups and the      *)
(* shares minted under each.  A tier other than the default one belongs to *)
(* the group of a node operator, which has a limit of its own.  The fee    *)
(* rates of a tier are read by the off-chain report only and left out.     *)
(***************************************************************************)
EXTENDS Integers, FiniteSets

CONSTANTS
  Vaults,
  Operators,
  NodeOperator,          \* the node operator of each vault
  Tiers,                 \* tier ids
  DefaultTier,           \* DEFAULT_TIER_ID
  TierOperator,          \* the operator of each other tier
  TierParams,            \* values of share limit, reserve ratio and threshold
  InitialParams,         \* those that a tier is registered with
  GroupLimits,           \* values of a group's share limit
  Jailable               \* vaults that may be jailed

ASSUME GridAssumption ==
  /\ IsFiniteSet(Vaults)
  /\ NodeOperator \in [Vaults -> Operators]
  /\ DefaultTier \in Tiers
  /\ TierOperator \in [Tiers \ {DefaultTier} -> Operators]
  /\ TierParams \subseteq [shareLimit : Nat, reserveRatioBP : Nat \ {0},
                            forcedRebalanceThresholdBP : Nat]
  /\ InitialParams \in [Tiers -> TierParams]
  /\ GroupLimits \subseteq Nat /\ GroupLimits # {}
  /\ Jailable \subseteq Vaults

VARIABLES
  tierParams,            \* the parameters of each tier
  tierLiability,         \* liabilityShares of each tier
  groupLimit,            \* shareLimit of each operator's group
  groupLiability,        \* liabilityShares of each operator's group
  vaultTier,
  isVaultInJail

gridParamVars == <<tierParams, groupLimit, isVaultInJail>>
gridVars == <<gridParamVars, tierLiability, groupLiability, vaultTier>>

-----------------------------------------------------------------------------
(* Changes of n shares in the liability of vault v: onMintedShares for a   *)
(* positive n and onBurnedShares for a negative one.                       *)

WithinLimits(v, n) ==
  LET t == vaultTier[v]
  IN  /\ ~isVaultInJail[v]
      /\ tierLiability[t] + n <= tierParams[t].shareLimit
      /\ t # DefaultTier =>
           groupLiability[TierOperator[t]] + n <= groupLimit[TierOperator[t]]

TierLiabilityWith(v, n) == [tierLiability EXCEPT ![vaultTier[v]] = @ + n]

GroupLiabilityMinted(v, n) ==                 \* faulty: burns are not counted
  IF vaultTier[v] = DefaultTier \/ n < 0 THEN groupLiability
  ELSE [groupLiability EXCEPT ![TierOperator[vaultTier[v]]] = @ + n]

GroupLiabilityWith(v, n) ==
  IF vaultTier[v] = DefaultTier THEN groupLiability
  ELSE [groupLiability EXCEPT ![TierOperator[vaultTier[v]]] = @ + n]

ChangeLiability(v, n) ==
  /\ tierLiability' = TierLiabilityWith(v, n)
  /\ groupLiability' = GroupLiabilityWith(v, n)
  /\ UNCHANGED <<gridParamVars, vaultTier>>

\* Two vaults of one operator, for socializeBadDebt: burn on one, mint on the
\* other with the limits overridden.
MoveLiability(from, to, n) ==
  LET t(v, k) == IF k = vaultTier[v] THEN n ELSE 0
      g(v, o) == IF vaultTier[v] # DefaultTier /\ TierOperator[vaultTier[v]] = o
                 THEN n ELSE 0
  IN  /\ tierLiability' = [k \in Tiers |-> tierLiability[k] - t(from, k) + t(to, k)]
      /\ groupLiability' = [o \in Operators |-> groupLiability[o] - g(from, o) + g(to, o)]
      /\ UNCHANGED <<gridParamVars, vaultTier>>

-----------------------------------------------------------------------------
(* Administration.                                                         *)

AlterTier(t, params) ==
  /\ tierParams[t] # params
  /\ tierParams' = [tierParams EXCEPT ![t] = params]
  /\ UNCHANGED <<tierLiability, groupLimit, groupLiability, vaultTier, isVaultInJail>>

UpdateGroupShareLimit(o, limit) ==
  /\ groupLimit[o] # limit
  /\ groupLimit' = [groupLimit EXCEPT ![o] = limit]
  /\ UNCHANGED <<tierParams, tierLiability, groupLiability, vaultTier, isVaultInJail>>

SetVaultJailStatus(v) ==
  /\ isVaultInJail' = [isVaultInJail EXCEPT ![v] = ~@]
  /\ UNCHANGED <<tierParams, tierLiability, groupLimit, groupLiability, vaultTier>>

\* The grid's part of changeTier, once owner and operator have confirmed, for a
\* vault with the given liability.
MoveToTier(v, t, shareLimit, liability) ==
  LET current == vaultTier[v]
      o       == NodeOperator[v]
  IN  /\ t # DefaultTier /\ t # current
      /\ TierOperator[t] = o
      /\ liability <= shareLimit /\ shareLimit <= tierParams[t].shareLimit
      /\ tierLiability[t] + liability <= tierParams[t].shareLimit
      /\ IF current = DefaultTier
         THEN /\ groupLiability[o] + liability <= groupLimit[o]
              /\ groupLiability' = [groupLiability EXCEPT ![o] = @ + liability]
         ELSE UNCHANGED groupLiability
      /\ tierLiability' = [tierLiability EXCEPT ![current] = @ - liability,
                                                ![t] = @ + liability]
      /\ vaultTier' = [vaultTier EXCEPT ![v] = t]
      /\ UNCHANGED gridParamVars

\* resetVaultTier
ResetVaultTier(v) ==
  /\ vaultTier' = [vaultTier EXCEPT ![v] = DefaultTier]
  /\ UNCHANGED <<gridParamVars, tierLiability, groupLiability>>

GridInit ==
  /\ tierParams = InitialParams
  /\ tierLiability = [t \in Tiers |-> 0]
  /\ groupLimit \in [Operators -> GroupLimits]
  /\ groupLiability = [o \in Operators |-> 0]
  /\ vaultTier = [v \in Vaults |-> DefaultTier]
  /\ isVaultInJail = [v \in Vaults |-> FALSE]
=============================================================================
