-------------------------- MODULE QuarantineHistory --------------------------
(* VaultHub with a record of what each report of a vault showed above the  *)
(* value that deposits explain, to state what the quarantine is for.       *)
EXTENDS VaultHub

VARIABLE risen           \* for each vault, the rise seen in the report of each slot

MaxRefSlot == (MaxTime - 1) \div 2

ReportApplied(v) ==
  Connected(v) /\ Connected(v)' /\ records'[v].timestamp # records[v].timestamp

OnchainTotalValue(r) ==
  r.totalValue + ValueForRefSlot(r.inOutDelta, vaultsData.refSlot) - r.reportInOutDelta

Rise(v) ==
  Max({0, vaultsData.leaves[v].totalValue - OnchainTotalValue(records[v])})

\* A vault that connects starts anew.
RisenAfter(v) ==
  CASE ~Connected(v)'     -> [s \in 0..MaxRefSlot |-> 0]
    [] ReportApplied(v)   -> [risen[v] EXCEPT ![vaultsData.refSlot] = Rise(v)]
    [] OTHER              -> risen[v]

HistoryInit == Init /\ risen = [v \in Vaults |-> [s \in 0..MaxRefSlot |-> 0]]
HistoryNext == Next /\ risen' = [v \in Vaults |-> RisenAfter(v)]
HistorySpec == HistoryInit /\ [][HistoryNext]_<<vars, risen>>

-----------------------------------------------------------------------------

\* A rise of the total value that deposits do not explain counts only once it
\* was in a report at least a quarantine period before, rewards aside: whatever
\* sequence of reports with rises, falls and deposits between them is brought,
\* no ether serves as collateral earlier.
RisesWaitStep ==
  \A v \in Vaults :
    LET ts     == TimestampOf(vaultsData.refSlot)
        waited == {risen[v][s] : s \in {k \in 0..MaxRefSlot :
                                          TimestampOf(k) + QuarantinePeriod <= ts}}
    IN  ReportApplied(v) =>
          records'[v].totalValue
            <= WithRewards(OnchainTotalValue(records[v])) + WithRewards(Max(waited \cup {0}))
RisesWait == [][RisesWaitStep]_<<vars, risen>>
=============================================================================
