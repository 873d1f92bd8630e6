---------------------------- MODULE MCDeployment ----------------------------
(***************************************************************************)
(* Instances of ProtocolDeployment: the scratch deployment under the       *)
(* inputs that change its path, and every upgrade on a protocol that is    *)
(* live, before or after V3.                                               *)
(***************************************************************************)
EXTENDS ProtocolDeployment

AutoDeployed == {}
Everything == {"DEPOSIT_CONTRACT", "GATE_SEAL_FACTORY", "WITHDRAWAL_QUEUE_BASE_URI",
               "DSM_PREDEFINED_ADDRESS"}
ScratchPlans == {<<"scratch", given>> : given \in
                    {AutoDeployed, Everything, {"GATE_SEAL_FACTORY"}}}
PredefinedByParameters == {<<"scratch", {"usePredefinedAddressInstead"}>>}

UpgradePlans == {<<"upgrade", name>> : name \in DOMAIN UpgradeProgram}
AllPlans == ScratchPlans \cup UpgradePlans

MCScripts == [p \in Plans |-> ScriptOf(p)] @@ Nothing

-----------------------------------------------------------------------------
\* Contracts the chain has before any migration.
Foreign == {Addr("depositContract"), Addr("gateSealFactory"), Dsm,
            Addr("vaultsAdapter"), Addr("evmScriptExecutor"), Addr("csmAccounting")}

NoContract == [owner |-> ZeroId, impl |-> ZeroId, roles |-> {}, marks |-> {}, args |-> <<>>]
ScratchChain == [id \in {Outside(slot) : slot \in Foreign} |-> NoContract]

\* The protocol before V3.
OldProxies == {"lidoLocator", "app:lido", "app:agent", "app:voting", "accountingOracle",
               "aragon-kernel", "aragon-acl", "stakingRouter", "validatorsExitBusOracle",
               "withdrawalQueueERC721", "withdrawalVault", "dg:dualGovernance",
               "dg:emergencyProtectedTimelock"}
OldContracts == {"hashConsensusForAccountingOracle", "resealManager", "wstETH",
                 "tokenRebaseNotifier", "gateSealFactory", "easyTrack", "depositSecurityModule",
                 "executionLayerRewardsVault", "oracleReportSanityChecker", "oracleDaemonConfig",
                 "validatorExitDelayVerifier", "triggerableWithdrawalsGateway"}
\* What V3 adds.
NewProxies == {"accounting", "burner", "lazyOracle", "vaultHub", "predepositGuarantee",
               "operatorGrid"}
NewContracts == {"stakingVaultBeacon", "stakingVaultImplementation", "stakingVaultFactory",
                 "dashboardImpl", "gateSealV3", "tokenRebaseNotifierV3", "v3Template"}

Slots(proxies, contracts) ==
    {Proxy(k) : k \in proxies} \cup {Impl(k) : k \in proxies} \cup {Addr(k) : k \in contracts}
SlotsBefore(p) ==
    IF p \in Upgrades({"v3", "v3ForTests"}) THEN Slots(OldProxies, OldContracts)
    ELSE Slots(OldProxies \cup NewProxies, OldContracts \cup NewContracts)

LiveAgent == Outside(Proxy("app:agent"))
LiveContract(slot, slots) ==
    [NoContract EXCEPT
        !.owner = LiveAgent,
        !.impl = IF slot[2] = "proxy" THEN Outside(Impl(slot[1])) ELSE ZeroId,
        !.roles = {<<"admin", LiveAgent>>},
        !.args = IF slot = Impl("lidoLocator")
                 THEN [f \in {x \in DOMAIN LocatorSlots : LocatorSlots[x] \in slots} |->
                          Outside(LocatorSlots[f])]
                 ELSE [previousFactory |-> ZeroId]]

LiveChain(slots) ==
    [id \in {Outside(slot) : slot \in slots} |-> LiveContract(id[2], slots)] @@ ScratchChain

MCOrigin ==
    [p \in Plans |->
        IF p[1] = "scratch" THEN [file |-> Blank, chain |-> ScratchChain]
        ELSE [file |-> [at |-> [slot \in SlotsBefore(p) |-> Outside(slot)] @@ Nothing, gas |-> 0],
              chain |-> LiveChain(SlotsBefore(p))]] @@ Nothing

MCScratch == {p \in Plans : p[1] = "scratch"}

\* The proposal may be executed in one hour of the day.
MCWindows ==
    [p \in Plans |-> IF p \in Upgrades({"mockVoting"}) THEN {{h} : h \in 0..(Hours - 1)}
                     ELSE {{Hours - 1}}]
=============================================================================
