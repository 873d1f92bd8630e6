---------------------------- MODULE ScratchSteps ----------------------------
(***************************************************************************)
(* The eighteen steps of scripts/scratch/steps.json, which deploy the      *)
(* whole protocol from an empty artifact: one definition per script, in    *)
(* the order of its transactions and of its writes to the artifact.        *)
(* "given" is the set of optional inputs present: the environment's        *)
(* DEPOSIT_CONTRACT, GATE_SEAL_FACTORY, WITHDRAWAL_QUEUE_BASE_URI and      *)
(* DSM_PREDEFINED_ADDRESS, the parameters' usePredefinedAddressInstead.    *)
(***************************************************************************)
EXTENDS DeploymentOps, SequencesExt, Integers

CONSTANTS
    OracleConfigKeys,    \* number of keys set in OracleDaemonConfig
    Holders,             \* number of LDO holders with vested tokens
    MaxHoldersInOneTx    \* holders of one issueTokens transaction

ASSUME ScratchAssumption ==
    /\ OracleConfigKeys \in Nat
    /\ Holders \in Nat \ {0}
    /\ MaxHoldersInOneTx \in Nat \ {0}

Inputs == {"DEPOSIT_CONTRACT", "GATE_SEAL_FACTORY", "WITHDRAWAL_QUEUE_BASE_URI",
           "DSM_PREDEFINED_ADDRESS", "usePredefinedAddressInstead"}

If(condition, ops) == IF condition THEN ops ELSE <<>>

DepositContract == <<"chainSpec", "depositContract">>
GateSealFactory == <<"gateSeal", "factoryAddress">>
Dsm == Addr("depositSecurityModule")
Lido == S(Proxy("app:lido"))
Agent == S(Proxy("app:agent"))
Template == S(Addr("lidoTemplate"))

PredefinedDsm(given) ==
    {"DSM_PREDEFINED_ADDRESS", "usePredefinedAddressInstead"} \cap given # {}

-----------------------------------------------------------------------------
(* 0000: the file is written from the parameters, then from the environment *)
PopulateDeployArtifact(given) ==
    << Read({}),
       Persist((IF "DEPOSIT_CONTRACT" \in given
                THEN DepositContract :> Given(Addr("depositContract")) ELSE <<>>)
               @@ (IF "GATE_SEAL_FACTORY" \in given
                   THEN GateSealFactory :> Given(Addr("gateSealFactory")) ELSE <<>>)
               @@ (IF "DSM_PREDEFINED_ADDRESS" \in given
                   THEN Dsm :> Given(Dsm) ELSE <<>>)) >>

(* 0010 *)
DeployDepositContract(given) ==
    <<Read({})>>
    \o If("DEPOSIT_CONTRACT" \notin given,
          DeployWithoutProxy("depositContract", <<>>, NoPowers)
          \o << Save(DepositContract :> L(Addr("depositContract"))) >>)

(* 0020: the addresses the parameters reset to null are all deployed *)
DeployAragonID ==
    DeployWithoutProxy("aragonID", [ens |-> L(Addr("ens"))], NoPowers)
    \o << AssignENSName(L(Addr("ens")), "aragonid.eth", L(Addr("aragonID"))),
          Call(L(Addr("aragonID"))) >>

DeployAPM ==
    << AssignENSName(L(Addr("ens")), "aragonpm.eth", L(Addr("apmRegistryFactory"))),
       Create(Proxy("aragon-apm-registry"), [factory |-> L(Addr("apmRegistryFactory"))], NoPowers),
       Save(Addr("ensNode") :> L(Addr("ens"))),
       Save(Proxy("aragon-apm-registry") :> L(Proxy("aragon-apm-registry"))) >>

DeployAragonEnv ==
    <<Read({})>>
    \o DeployWithoutProxy("ensFactory", <<>>, NoPowers)
    \o << Create(Addr("ens"), [factory |-> L(Addr("ensFactory"))],
                 [NoPowers EXCEPT !.roles = {<<"eth", Deployer>>}]),
          Save(Addr("ens") :> L(Addr("ens"))) >>
    \o DeployImplementation("aragon-kernel", <<>>)
    \o DeployImplementation("aragon-acl", <<>>)
    \o DeployWithoutProxy("evmScriptRegistryFactory", <<>>, NoPowers)
    \o DeployWithoutProxy("daoFactory",
          [kernel |-> L(Impl("aragon-kernel")), acl |-> L(Impl("aragon-acl")),
           registry |-> L(Addr("evmScriptRegistryFactory"))], NoPowers)
    \o DeployImplementation("aragon-apm-registry", <<>>)
    \o DeployWithoutProxy("aragon-repo-base", <<>>, NoPowers)
    \o DeployImplementation("ensSubdomainRegistrar", <<>>)
    \o DeployWithoutProxy("apmRegistryFactory",
          [daoFactory |-> L(Addr("daoFactory")), registry |-> L(Impl("aragon-apm-registry")),
           repo |-> L(Addr("aragon-repo-base")), registrar |-> L(Impl("ensSubdomainRegistrar")),
           ens |-> L(Addr("ens"))], NoPowers)
    \o DeployAPM
    \o DeployWithoutProxy("miniMeTokenFactory", <<>>, NoPowers)
    \o DeployAragonID

(* 0030 *)
DeployTemplateAndAppBases ==
    <<Read({})>>
    \o DeployImplementation("app:agent", <<>>)
    \o DeployImplementation("app:finance", <<>>)
    \o DeployImplementation("app:token-manager", <<>>)
    \o DeployImplementation("app:voting", <<>>)
    \o DeployImplementation("app:lido", <<>>)
    \o DeployWithoutProxy("minFirstAllocationStrategy", <<>>, NoPowers)
    \o DeployImplementation("app:node-operators-registry",
          [library |-> L(Addr("minFirstAllocationStrategy"))])
    \o DeployWithoutProxy("lidoTemplate",
          [daoFactory |-> S(Addr("daoFactory")), ens |-> S(Addr("ens")),
           miniMe |-> S(Addr("miniMeTokenFactory")), aragonID |-> S(Addr("aragonID")),
           apm |-> S(Addr("apmRegistryFactory"))], OwnedBy(Deployer))
    \o << Save(<<"lidoTemplate", "deployBlock">> :> L(Addr("lidoTemplate"))) >>

(* 0040 *)
RegisterENSDomain ==
    << Read({Addr("ens"), Addr("lidoTemplate")}),
       AssignENSName(S(Addr("ens")), "lidopm.eth", Template) >>

(* LidoTemplate: only its owner, and only in order *)
TemplateCall(requires, forbids, sets, clears, makes) ==
    [Call(Template) EXCEPT !.guard = "owner", !.requires = requires, !.forbids = forbids,
                           !.sets = sets, !.clears = clears, !.makes = makes]

(* 0050 *)
DeployLidoAPM ==
    << Read({Addr("ens"), Addr("lidoTemplate")}),
       Expect(S(Addr("ens")), "lidopm.eth", Template),
       TemplateCall({}, {"registry"}, {"registry"}, {}, {Addr("lidoApm")}),
       Save(<<"lidoApm", "deployTx">> :> L(Addr("lidoApm"))),
       Save(Addr("lidoApm") :> L(Addr("lidoApm"))) >>

(* 0060 *)
CreateAppRepos ==
    << Read({Impl("app:lido"), Impl("app:node-operators-registry"), Impl("app:agent"),
             Impl("app:finance"), Impl("app:token-manager"), Impl("app:voting")}),
       TemplateCall({"registry"}, {}, {"repos"}, {}, {}),
       TemplateCall({}, {}, {"stdRepos"}, {}, {}),
       Save(<<"lidoTemplate", "createStdAppReposTx">> :> Template),
       Save(<<"lidoTemplate", "createAppReposTx">> :> Template) >>

(* 0070: the addresses come from the events of one transaction *)
AppNames == {"app:agent", "app:finance", "app:token-manager", "app:voting", "app:lido",
             "app:node-operators-registry", "app:simple-dvt"}
DaoProxies == {Proxy(a) : a \in AppNames}
              \cup {Proxy("aragon-kernel"), Proxy("aragon-acl"), Proxy("aragon-evm-script-registry"),
                    Addr("ldo"), Addr("callsScript")}
Saved(slots) == [slot \in slots |-> L(slot)]

SaveStateFromNewDAOTx ==
    << Save(Saved({Proxy("aragon-kernel")})),
       Save(Saved({Addr("ldo")})),
       Save(Saved({Addr("callsScript")})) >>

PersistApps ==
    << Reread,
       Persist(Saved({Proxy(a) : a \in AppNames})),
       Persist(Saved({Proxy("aragon-acl"), Proxy("aragon-evm-script-registry")})) >>

\* addRepoAddress writes the entries back one by one, from the template's apmRepos.
SaveRepos ==
    LET apps == <<"app:lido", "app:node-operators-registry", "app:agent", "app:finance",
                  "app:token-manager", "app:voting">>
    IN  <<Reread>> \o [i \in 1..6 |-> Save(<<apps[i], "repo">> :> Template)]

DeployDAO ==
    << Read({Addr("lidoTemplate")}),
       TemplateCall({"registry", "repos", "stdRepos"}, {"dao"}, {"dao"}, {}, DaoProxies),
       Save(<<"lidoTemplate", "newDaoTx">> :> Template) >>
    \o SaveStateFromNewDAOTx
    \o PersistApps
    \o SaveRepos

(* 0080 *)
IssueTokens ==
    LET holdersInOneTx == IF MaxHoldersInOneTx < Holders THEN MaxHoldersInOneTx ELSE Holders
        totalTransactions == (Holders + holdersInOneTx - 1) \div holdersInOneTx
    IN  <<Read({})>>
        \o [i \in 1..totalTransactions |-> TemplateCall({"dao"}, {}, {"tokens"}, {}, {})]

-----------------------------------------------------------------------------
(* 0083 *)
DeployLocatorAndConfig ==
    << Read({Proxy("app:lido"), Proxy("app:agent"), Addr("minFirstAllocationStrategy"),
             DepositContract}) >>
    \o DeployWithoutProxy("dummyEmptyContract", <<>>, NoPowers)
    \o DeployProxyTo("lidoLocator", L(Addr("dummyEmptyContract")), Deployer)
    \o DeployWithoutProxy("eip712StETH", [lido |-> Lido], NoPowers)
    \o DeployWithoutProxy("oracleDaemonConfig", <<>>, AdminIs(Deployer))
    \o << GrantRole(L(Addr("oracleDaemonConfig")), "CONFIG_MANAGER", Deployer) >>
    \o [i \in 1..OracleConfigKeys |-> WithRole(L(Addr("oracleDaemonConfig")), "CONFIG_MANAGER")]
    \o << RenounceRole(L(Addr("oracleDaemonConfig")), "CONFIG_MANAGER") >>

DeployWithdrawalQueue(given) ==
    LET queue == L(Proxy("withdrawalQueueERC721"))
    IN  DeployWithoutProxy("wstETH", [lido |-> Lido], NoPowers)
        \o DeployBehindOssifiableProxy("withdrawalQueueERC721",
              [wstETH |-> L(Addr("wstETH"))], Deployer, {})
        \o << Initialize(queue, {"admin"}, Deployer) >>
        \o If("WITHDRAWAL_QUEUE_BASE_URI" \in given,
              << GrantRole(queue, "MANAGE_TOKEN_URI", Deployer),
                 WithRole(queue, "MANAGE_TOKEN_URI"),
                 RenounceRole(queue, "MANAGE_TOKEN_URI") >>)

DeployStaking(given) ==
    DeployWithoutProxy("executionLayerRewardsVault", [lido |-> Lido, treasury |-> Agent], NoPowers)
    \o << Create(Proxy("withdrawalVault"), <<>>,
                 ProxyPowers(L(Addr("dummyEmptyContract")), Deployer, {})),
          Save(Proxy("withdrawalVault") :> L(Proxy("withdrawalVault"))),
          Reread >>
    \o DeployBehindOssifiableProxy("stakingRouter", [deposit |-> S(DepositContract)], Deployer, {})
    \o << Initialize(L(Proxy("stakingRouter")), {"admin"}, Deployer) >>
    \o If(~PredefinedDsm(given),
          DeployWithoutProxy("depositSecurityModule",
              [lido |-> Lido, router |-> L(Proxy("stakingRouter"))], OwnedBy(Deployer)))

\* An oracle behind its proxy, its HashConsensus, and the link between them.
DeployOracle(oracle, consensus) ==
    DeployBehindOssifiableProxy(oracle, [locator |-> L(Proxy("lidoLocator"))], Deployer, {})
    \o DeployWithoutProxy(consensus, [processor |-> L(Proxy(oracle))], AdminIs(Deployer))
    \o << Initialize(L(Proxy(oracle)), {"admin"}, Deployer) >>

DeployOracles ==
    DeployBehindOssifiableProxy("accounting",
        [locator |-> L(Proxy("lidoLocator")), lido |-> Lido], Deployer, {})
    \o DeployOracle("accountingOracle", "hashConsensusForAccountingOracle")
    \o DeployOracle("validatorsExitBusOracle", "hashConsensusForValidatorsExitBusOracle")

DeployExits ==
    LET gateway == Addr("triggerableWithdrawalsGateway")
    IN  DeployWithoutProxy("triggerableWithdrawalsGateway",
            [locator |-> L(Proxy("lidoLocator"))], AdminIs(Deployer))
        \o << GrantRole(L(Proxy("stakingRouter")), "REPORT_VALIDATOR_EXIT_TRIGGERED", L(gateway)),
              GrantRole(L(gateway), "ADD_FULL_WITHDRAWAL_REQUEST", L(Proxy("validatorsExitBusOracle"))) >>
        \o DeployWithoutProxy("validatorExitDelayVerifier",
              [locator |-> L(Proxy("lidoLocator"))], NoPowers)
        \o DeployImplementation("withdrawalVault",
              [lido |-> Lido, treasury |-> Agent, gateway |-> L(gateway)])
        \o << UpgradeTo(L(Proxy("withdrawalVault")), L(Impl("withdrawalVault"))) >>

DeployBurnerAndChecker ==
    DeployBehindOssifiableProxy("burner",
        [locator |-> L(Proxy("lidoLocator")), lido |-> Lido], Deployer, {})
    \o << Initialize(L(Proxy("burner")), {"admin"}, Deployer) >>
    \o DeployWithoutProxy("oracleReportSanityChecker",
          [locator |-> L(Proxy("lidoLocator")), oracle |-> L(Proxy("accountingOracle")),
           accounting |-> L(Proxy("accounting"))], AdminIs(Deployer))
    \o DeployWithoutProxy("tokenRebaseNotifier",
          [provider |-> L(Proxy("accounting"))], OwnedBy(Agent))

DeployCore(given) ==
    DeployLocatorAndConfig \o DeployWithdrawalQueue(given) \o DeployStaking(given)
    \o DeployOracles \o DeployExits \o DeployBurnerAndChecker

(* 0085 *)
DeployInitialized(key, args) ==
    DeployBehindOssifiableProxy(key, args, Deployer, {})
    \o << Initialize(L(Proxy(key)), {"admin"}, Deployer) >>

DeployVaults ==
    LET locator == S(Proxy("lidoLocator"))
        hub == L(Proxy("vaultHub"))
    IN  << Read({Proxy("app:lido"), Addr("wstETH"), Proxy("lidoLocator"),
                 Addr("hashConsensusForAccountingOracle"), DepositContract}) >>
        \o DeployInitialized("operatorGrid", [locator |-> locator])
        \o DeployWithoutProxy("stakingVaultImplementation", [deposit |-> S(DepositContract)], NoPowers)
        \o DeployWithoutProxy("stakingVaultBeacon", <<>>,
              ProxyPowers(L(Addr("stakingVaultImplementation")), Deployer, {}))
        \o DeployInitialized("vaultHub",
              [locator |-> locator, lido |-> Lido,
               consensus |-> S(Addr("hashConsensusForAccountingOracle"))])
        \o << GrantRole(hub, "VAULT_MASTER", Deployer), RenounceRole(hub, "VAULT_MASTER") >>
        \o DeployInitialized("lazyOracle", [locator |-> locator])
        \o DeployWithoutProxy("dashboardImpl",
              [lido |-> Lido, wstETH |-> S(Addr("wstETH")), hub |-> hub, locator |-> locator], NoPowers)
        \o DeployWithoutProxy("stakingVaultFactory",
              [locator |-> locator, beacon |-> L(Addr("stakingVaultBeacon")),
               dashboard |-> L(Addr("dashboardImpl")), previousFactory |-> ZeroAddress], NoPowers)
        \o DeployInitialized("predepositGuarantee", <<>>)
        \o DeployWithoutProxy("validatorConsolidationRequests", [locator |-> locator], NoPowers)
        \o << Save(<<"validatorConsolidationRequests", "validatorConsolidationRequests">> :>
                       L(Addr("validatorConsolidationRequests"))) >>

-----------------------------------------------------------------------------
(* 0090: what the locator answers, and the slot it is taken from *)
LocatorSlots ==
    [accountingOracle |-> Proxy("accountingOracle"), depositSecurityModule |-> Dsm,
     elRewardsVault |-> Addr("executionLayerRewardsVault"), lido |-> Proxy("app:lido"),
     oracleReportSanityChecker |-> Addr("oracleReportSanityChecker"),
     postTokenRebaseReceiver |-> Addr("tokenRebaseNotifier"), burner |-> Proxy("burner"),
     stakingRouter |-> Proxy("stakingRouter"), treasury |-> Proxy("app:agent"),
     validatorsExitBusOracle |-> Proxy("validatorsExitBusOracle"),
     withdrawalQueue |-> Proxy("withdrawalQueueERC721"),
     withdrawalVault |-> Proxy("withdrawalVault"),
     validatorExitDelayVerifier |-> Addr("validatorExitDelayVerifier"),
     triggerableWithdrawalsGateway |-> Addr("triggerableWithdrawalsGateway"),
     oracleDaemonConfig |-> Addr("oracleDaemonConfig"), accounting |-> Proxy("accounting"),
     predepositGuarantee |-> Proxy("predepositGuarantee"), wstETH |-> Addr("wstETH"),
     vaultHub |-> Proxy("vaultHub"), vaultFactory |-> Addr("stakingVaultFactory"),
     lazyOracle |-> Proxy("lazyOracle"), operatorGrid |-> Proxy("operatorGrid")]

UpgradeLocator ==
    << Read({Proxy("lidoLocator")}) >>
    \o UpdateProxyImplementation("lidoLocator", S(Proxy("lidoLocator")),
          [field \in DOMAIN LocatorSlots |-> S(LocatorSlots[field])])

(* 0100: gateSeal.address is null after 0000, so the factory decides *)
DeployGateSeal(given) ==
    <<Read({})>>
    \o If("GATE_SEAL_FACTORY" \in given,
          << Create(Addr("gateSeal"),
                    [factory |-> S(GateSealFactory), queue |-> S(Proxy("withdrawalQueueERC721")),
                     exitBus |-> S(Proxy("validatorsExitBusOracle"))], NoPowers),
             Save(Addr("gateSeal") :> L(Addr("gateSeal"))) >>)

(* 0110 *)
FinalizeDAO ==
    << Read({Addr("lidoTemplate"), Proxy("stakingRouter")}),
       TemplateCall({"dao"}, {}, {}, {"registry", "dao"}, {}) >>

(* 0120 *)
PostLocatorInitializers ==
    << Read({Proxy("app:lido"), Proxy("app:node-operators-registry"), Proxy("app:simple-dvt"),
             Proxy("lidoLocator"), Addr("eip712StETH")}),
       Initialize(S(Proxy("app:node-operators-registry")), {}, ZeroAddress),
       Initialize(S(Proxy("app:simple-dvt")), {}, ZeroAddress),
       Initialize(Lido, {}, ZeroAddress) >>

(* 0130 *)
GrantRoles(given) ==
    LET router == S(Proxy("stakingRouter"))
        exitBus == S(Proxy("validatorsExitBusOracle"))
        queue == S(Proxy("withdrawalQueueERC721"))
        oracle == S(Proxy("accountingOracle"))
        accounting == S(Proxy("accounting"))
        gateway == S(Addr("triggerableWithdrawalsGateway"))
        burner == S(Proxy("burner"))
        sealed == "GATE_SEAL_FACTORY" \in given
    IN  << Read({Proxy("app:lido"), Proxy("app:agent"), Proxy("app:node-operators-registry"),
                 Proxy("app:simple-dvt"), Proxy("burner"), Proxy("stakingRouter"),
                 Proxy("withdrawalQueueERC721"), Proxy("accountingOracle"), Proxy("accounting"),
                 Proxy("validatorsExitBusOracle"), Addr("triggerableWithdrawalsGateway"),
                 Addr("validatorExitDelayVerifier")}),
           GrantRole(router, "STAKING_MODULE_UNVETTING", S(Dsm)),
           GrantRole(router, "REPORT_EXITED_VALIDATORS", oracle),
           GrantRole(router, "REPORT_REWARDS_MINTED", Lido),
           GrantRole(router, "STAKING_MODULE_MANAGE", Agent),
           GrantRole(router, "REPORT_REWARDS_MINTED", accounting),
           GrantRole(router, "REPORT_VALIDATOR_EXIT_TRIGGERED", gateway),
           GrantRole(router, "REPORT_VALIDATOR_EXITING_STATUS", S(Addr("validatorExitDelayVerifier"))) >>
        \o If(sealed, << GrantRole(exitBus, "PAUSE", S(Addr("gateSeal"))) >>)
        \o << GrantRole(gateway, "ADD_FULL_WITHDRAWAL_REQUEST", exitBus) >>
        \o If(sealed, << GrantRole(queue, "PAUSE", S(Addr("gateSeal"))) >>)
        \o << GrantRole(queue, "FINALIZE", Lido),
              GrantRole(queue, "ORACLE", oracle),
              GrantRole(burner, "REQUEST_BURN_SHARES", S(Proxy("app:node-operators-registry"))),
              GrantRole(burner, "REQUEST_BURN_SHARES", S(Proxy("app:simple-dvt"))),
              GrantRole(burner, "REQUEST_BURN_SHARES", accounting) >>

(* 0140 *)
PlugStakingModules ==
    LET router == S(Proxy("stakingRouter"))
    IN  << Read({Proxy("stakingRouter")}),
           GrantRole(router, "STAKING_MODULE_MANAGE", Deployer),
           [WithRole(router, "STAKING_MODULE_MANAGE") EXCEPT !.to = S(Proxy("app:node-operators-registry"))],
           [WithRole(router, "STAKING_MODULE_MANAGE") EXCEPT !.to = S(Proxy("app:simple-dvt"))],
           RenounceRole(router, "STAKING_MODULE_MANAGE") >>

(* 0150 *)
OzAdminTransfers ==
    << Proxy("burner"), Addr("hashConsensusForAccountingOracle"),
       Addr("hashConsensusForValidatorsExitBusOracle"), Proxy("stakingRouter"),
       Proxy("accountingOracle"), Proxy("validatorsExitBusOracle"), Proxy("withdrawalQueueERC721"),
       Addr("oracleDaemonConfig"), Addr("oracleReportSanityChecker"),
       Addr("triggerableWithdrawalsGateway"), Proxy("vaultHub"), Proxy("predepositGuarantee"),
       Proxy("operatorGrid"), Proxy("lazyOracle") >>

OssifiableProxyAdminChanges ==
    << Proxy("lidoLocator"), Proxy("stakingRouter"), Proxy("accountingOracle"),
       Proxy("validatorsExitBusOracle"), Proxy("withdrawalQueueERC721"), Proxy("accounting"),
       Proxy("vaultHub"), Proxy("predepositGuarantee"), Proxy("operatorGrid"),
       Proxy("lazyOracle"), Proxy("burner") >>

TransferAdminShared(slot) ==               \* faulty: the deployer stays an admin
    << GrantRole(S(slot), "admin", Agent) >>
TransferAdminRenouncing(slot) ==           \* faulty: renounced before it is granted
    << RenounceRole(S(slot), "admin"), GrantRole(S(slot), "admin", Agent) >>

TransferAdmin(slot) == << GrantRole(S(slot), "admin", Agent), RenounceRole(S(slot), "admin") >>

TransferRoles(given) ==
    << Read({Proxy("app:agent"), Proxy("app:voting")} \cup ToSet(OzAdminTransfers)
            \cup ToSet(OssifiableProxyAdminChanges)) >>
    \o FlattenSeq([i \in DOMAIN OzAdminTransfers |-> TransferAdmin(OzAdminTransfers[i])])
    \o [i \in DOMAIN OssifiableProxyAdminChanges |->
           ChangeOwner(S(OssifiableProxyAdminChanges[i]), Agent)]
    \o If(~PredefinedDsm(given), << ChangeOwner(S(Dsm), Agent) >>)
    \o << ChangeOwner(Template, Agent),
          ChangeOwner(S(Proxy("withdrawalVault")), S(Proxy("app:voting"))) >>

-----------------------------------------------------------------------------
(* scripts/scratch/steps.json *)
ScratchProgram(given) ==
    FlattenSeq(<<
        PopulateDeployArtifact(given), DeployDepositContract(given), DeployAragonEnv,
        DeployTemplateAndAppBases, RegisterENSDomain, DeployLidoAPM, CreateAppRepos, DeployDAO,
        IssueTokens, DeployCore(given), DeployVaults, UpgradeLocator, DeployGateSeal(given),
        FinalizeDAO, PostLocatorInitializers, GrantRoles(given), PlugStakingModules,
        TransferRoles(given) >>)
=============================================================================
