---------------------------- MODULE UpgradeSteps ----------------------------
(***************************************************************************)
(* The migrations that run against a protocol already on chain: the V3     *)
(* upgrade (scripts/archive/stvaults/steps), the Hoodi patches             *)
(* (scripts/archive/stvaults-hoodi/upgrade/steps) and V3.0.2               *)
(* (scripts/upgrade/steps).  They read the artifact of the live protocol   *)
(* and write the new implementations into it before the vote that installs *)
(* them.                                                                   *)
(***************************************************************************)
EXTENDS DeploymentOps, SequencesExt, Integers

Locator == S(Proxy("lidoLocator"))
LidoProxy == S(Proxy("app:lido"))
AgentProxy == S(Proxy("app:agent"))
Consensus == S(Addr("hashConsensusForAccountingOracle"))
TempAdmin == L(Addr("v3TemporaryAdmin"))

\* The views of the locator that no upgrade replaces.
KeptViews ==
    [accountingOracle |-> View("accountingOracle"),
     depositSecurityModule |-> View("depositSecurityModule"),
     elRewardsVault |-> View("elRewardsVault"), stakingRouter |-> View("stakingRouter"),
     validatorsExitBusOracle |-> View("validatorsExitBusOracle"),
     withdrawalQueue |-> View("withdrawalQueue"), withdrawalVault |-> View("withdrawalVault"),
     oracleDaemonConfig |-> View("oracleDaemonConfig")]

-----------------------------------------------------------------------------
(* stvaults 0100: "roles" are those the proxy's initialization data gives *)
DeployBehindDeployersProxy(key, args, admin) ==  \* faulty: the deployer owns the proxy
    DeployBehindOssifiableProxy(key, args, Deployer, {<<"admin", admin>>})

DeployBehindProxyWithInit(key, args, admin) ==
    DeployBehindOssifiableProxy(key, args, AgentProxy, {<<"admin", admin>>})

V3LocatorConfig ==
    [lido |-> LidoProxy, oracleReportSanityChecker |-> L(Addr("oracleReportSanityChecker")),
     postTokenRebaseReceiver |-> L(Addr("tokenRebaseNotifierV3")), burner |-> L(Proxy("burner")),
     treasury |-> AgentProxy, validatorExitDelayVerifier |-> S(Addr("validatorExitDelayVerifier")),
     triggerableWithdrawalsGateway |-> S(Addr("triggerableWithdrawalsGateway")),
     accounting |-> L(Proxy("accounting")), predepositGuarantee |-> L(Proxy("predepositGuarantee")),
     wstETH |-> S(Addr("wstETH")), vaultHub |-> L(Proxy("vaultHub")),
     vaultFactory |-> L(Addr("stakingVaultFactory")), lazyOracle |-> L(Proxy("lazyOracle")),
     operatorGrid |-> L(Proxy("operatorGrid"))] @@ KeptViews

DeployV3Core ==
    << Read({Proxy("app:lido"), Proxy("app:agent"), Addr("hashConsensusForAccountingOracle"),
             Addr("resealManager"), Proxy("lidoLocator"), Addr("wstETH"),
             Addr("tokenRebaseNotifier")}) >>
    \o DeployWithoutProxy("v3TemporaryAdmin", [agent |-> AgentProxy], NoPowers)
    \o DeployImplementation("app:lido", <<>>)
    \o DeployBehindOssifiableProxy("accounting", [locator |-> Locator, lido |-> LidoProxy],
          AgentProxy, {})
    \o DeployWithoutProxy("tokenRebaseNotifierV3", [provider |-> L(Proxy("accounting"))],
          OwnedBy(TempAdmin))
    \o << Save(Addr("tokenRebaseNotifierV3") :> L(Addr("tokenRebaseNotifierV3"))) >>
    \o DeployImplementation("accountingOracle", [locator |-> Locator])
    \o DeployBehindProxyWithInit("burner", [locator |-> Locator, lido |-> LidoProxy], TempAdmin)
    \o DeployBehindProxyWithInit("lazyOracle", [locator |-> Locator], AgentProxy)

DeployV3Vaults ==
    DeployWithoutProxy("stakingVaultImplementation", <<>>, NoPowers)
    \o DeployWithoutProxy("stakingVaultBeacon", <<>>,
          ProxyPowers(L(Addr("stakingVaultImplementation")), AgentProxy, {}))
    \o DeployBehindProxyWithInit("vaultHub",
          [locator |-> Locator, lido |-> LidoProxy, consensus |-> Consensus], TempAdmin)
    \o DeployBehindProxyWithInit("predepositGuarantee", <<>>, TempAdmin)
    \o DeployWithoutProxy("oracleReportSanityChecker",
          [locator |-> Locator, oracle |-> L(Impl("accountingOracle")),
           accounting |-> L(Proxy("accounting"))], AdminIs(AgentProxy))
    \o DeployBehindProxyWithInit("operatorGrid", [locator |-> Locator], TempAdmin)
    \o DeployWithoutProxy("dashboardImpl",
          [lido |-> LidoProxy, wstETH |-> S(Addr("wstETH")), hub |-> L(Proxy("vaultHub")),
           locator |-> Locator], NoPowers)
    \o DeployWithoutProxy("stakingVaultFactory",
          [locator |-> Locator, beacon |-> L(Addr("stakingVaultBeacon")),
           dashboard |-> L(Addr("dashboardImpl")), previousFactory |-> ZeroAddress], NoPowers)

DeployV3Setup ==
    DeployImplementation("lidoLocator", V3LocatorConfig)
    \o DeployWithoutProxy("validatorConsolidationRequests", [locator |-> Locator], NoPowers)
    \o << Create(Addr("gateSealV3"),
                 [factory |-> S(Addr("gateSealFactory")), hub |-> L(Proxy("vaultHub")),
                  guarantee |-> L(Proxy("predepositGuarantee"))], NoPowers),
          Save(Addr("gateSealV3") :> L(Addr("gateSealV3"))),
          [op |-> "completeSetup", on |-> TempAdmin, locator |-> L(Impl("lidoLocator")),
           gateSeal |-> L(Addr("gateSealV3")), resealManager |-> S(Addr("resealManager")),
           vaultsAdapter |-> Given(Addr("vaultsAdapter"))] >>

DeployV3Contracts == DeployV3Core \o DeployV3Vaults \o DeployV3Setup

(* stvaults 0200: the old implementations are read on chain *)
DeployV3UpgradingContracts ==
    << Read({Proxy("lidoLocator"), Proxy("accountingOracle"), Proxy("aragon-kernel"),
             Proxy("app:lido")}) >>
    \o DeployWithoutProxy("v3Template",
          [oldLocatorImpl |-> Live(Proxy("lidoLocator")), oldLidoImpl |-> Live(Proxy("app:lido")),
           oldAccountingOracleImpl |-> Live(Proxy("accountingOracle")),
           oldTokenRateNotifier |-> S(Addr("tokenRebaseNotifier")),
           newLocatorImpl |-> S(Impl("lidoLocator")), newLidoImpl |-> S(Impl("app:lido")),
           newAccountingOracleImpl |-> S(Impl("accountingOracle")),
           newTokenRateNotifier |-> S(Addr("tokenRebaseNotifierV3")),
           upgradeableBeacon |-> S(Addr("stakingVaultBeacon")),
           stakingVaultImpl |-> S(Addr("stakingVaultImplementation")),
           dashboardImpl |-> S(Addr("dashboardImpl")), gateSeal |-> S(Addr("gateSealV3")),
           kernel |-> S(Proxy("aragon-kernel")), agent |-> AgentProxy, locator |-> Locator,
           voting |-> S(Proxy("app:voting")), dualGovernance |-> S(Proxy("dg:dualGovernance")),
           acl |-> S(Proxy("aragon-acl")), resealManager |-> S(Addr("resealManager")),
           easyTrack |-> S(Addr("easyTrack"))], NoPowers)
    \o DeployWithoutProxy("v3VoteScript", [template |-> L(Addr("v3Template"))], NoPowers)

(* stvaults 0300 *)
DeployV3VoteScript ==
    << Read({Addr("v3Template")}) >>
    \o DeployWithoutProxy("v3VoteScript", [template |-> S(Addr("v3Template"))], NoPowers)

(* stvaults 0500: a proposal is scheduled once *)
MockV3AragonVoting ==
    << Read({Proxy("app:agent"), Proxy("dg:dualGovernance"), Proxy("dg:emergencyProtectedTimelock")}),
       ScheduleProposal(S(Proxy("dg:dualGovernance"))), ExecuteProposal >>

(* stvaults x0000: one of the thirteen addresses is new, from the environment *)
DeployNewLocator ==
    << Read({Proxy("lidoLocator")}) >>
    \o DeployImplementation("lidoLocator",
          [lido |-> View("lido"), oracleReportSanityChecker |-> View("oracleReportSanityChecker"),
           postTokenRebaseReceiver |-> View("postTokenRebaseReceiver"),
           burner |-> Given(Proxy("burner")), treasury |-> View("treasury")] @@ KeptViews)

-----------------------------------------------------------------------------
(* stvaults-hoodi: rc2 to rc5 and the lazy oracle's *)

HoodiLocatorConfig ==
    [lido |-> LidoProxy, oracleReportSanityChecker |-> View("oracleReportSanityChecker"),
     postTokenRebaseReceiver |-> ZeroAddress, burner |-> View("burner"),
     treasury |-> View("treasury"),
     validatorExitDelayVerifier |-> View("validatorExitDelayVerifier"),
     triggerableWithdrawalsGateway |-> View("triggerableWithdrawalsGateway"),
     accounting |-> View("accounting"), predepositGuarantee |-> View("predepositGuarantee"),
     wstETH |-> S(Addr("wstETH")), vaultHub |-> S(Proxy("vaultHub")),
     vaultFactory |-> L(Addr("stakingVaultFactory")), lazyOracle |-> View("lazyOracle"),
     operatorGrid |-> View("operatorGrid")] @@ KeptViews

DeployDashboard ==
    DeployWithoutProxy("dashboardImpl",
        [lido |-> LidoProxy, wstETH |-> S(Addr("wstETH")), hub |-> S(Proxy("vaultHub")),
         locator |-> Locator], NoPowers)

DeployFirstFactory ==                      \* faulty: no previous factory
    DeployWithoutProxy("stakingVaultFactory",
        [locator |-> Locator, beacon |-> S(Addr("stakingVaultBeacon")),
         dashboard |-> L(Addr("dashboardImpl")), previousFactory |-> ZeroAddress], NoPowers)

DeployFactory ==
    DeployWithoutProxy("stakingVaultFactory",
        [locator |-> Locator, beacon |-> S(Addr("stakingVaultBeacon")),
         dashboard |-> L(Addr("dashboardImpl")),
         previousFactory |-> S(Addr("stakingVaultFactory"))], NoPowers)

HubArgs == [locator |-> Locator, lido |-> LidoProxy, consensus |-> Consensus]

UpgradeToRc2 ==
    << Read({Proxy("app:lido"), Proxy("lidoLocator"), Proxy("vaultHub"), Addr("wstETH"),
             Addr("hashConsensusForAccountingOracle"), Addr("stakingVaultFactory"),
             Addr("stakingVaultBeacon")}) >>
    \o DeployWithoutProxy("stakingVaultImplementation", <<>>, NoPowers)
    \o DeployDashboard
    \o DeployImplementation("lazyOracle", [locator |-> Locator])
    \o DeployImplementation("operatorGrid", [locator |-> Locator])
    \o DeployImplementation("vaultHub", HubArgs)
    \o DeployImplementation("predepositGuarantee", <<>>)
    \o DeployFactory
    \o DeployImplementation("lidoLocator", HoodiLocatorConfig)

UpgradeToRc3 ==
    << Read({Proxy("lidoLocator"), Proxy("app:lido"), Addr("wstETH"), Proxy("vaultHub"),
             Addr("hashConsensusForAccountingOracle"), Addr("stakingVaultBeacon"),
             Addr("stakingVaultFactory")}) >>
    \o DeployImplementation("app:lido", <<>>)
    \o DeployImplementation("lazyOracle", [locator |-> Locator])
    \o DeployImplementation("operatorGrid", [locator |-> Locator])
    \o DeployImplementation("vaultHub", HubArgs)
    \o DeployDashboard
    \o DeployFactory
    \o DeployImplementation("lidoLocator", HoodiLocatorConfig)

UpgradeToRc4 ==
    << Read({Proxy("lidoLocator"), Proxy("app:lido"), Addr("hashConsensusForAccountingOracle")}) >>
    \o DeployImplementation("app:lido", <<>>)
    \o DeployImplementation("lazyOracle", [locator |-> Locator])
    \o DeployImplementation("operatorGrid", [locator |-> Locator])
    \o DeployImplementation("vaultHub", HubArgs)
    \o DeployImplementation("accounting", [locator |-> Locator, lido |-> LidoProxy])

UpgradeToRc5 ==
    << Read({Proxy("lidoLocator"), Proxy("app:lido"), Addr("wstETH"), Proxy("vaultHub"),
             Proxy("accounting"), Proxy("app:agent"), Addr("stakingVaultBeacon"),
             Addr("stakingVaultFactory")}) >>
    \o DeployImplementation("operatorGrid", [locator |-> Locator])
    \o DeployImplementation("accounting", [locator |-> Locator, lido |-> LidoProxy])
    \o DeployDashboard
    \o DeployFactory
    \o DeployImplementation("tokenRebaseNotifierV3",
          [agent |-> AgentProxy, provider |-> S(Proxy("accounting"))])
    \o DeployImplementation("lidoLocator",
          [lido |-> View("lido"),
           postTokenRebaseReceiver |-> L(Impl("tokenRebaseNotifierV3")),
           wstETH |-> View("wstETH"), vaultHub |-> View("vaultHub")] @@ HoodiLocatorConfig)

UpdateLazyOracle ==
    << Read({Proxy("lidoLocator")}) >>
    \o DeployImplementation("lazyOracle", [locator |-> Locator])

-----------------------------------------------------------------------------
(* scripts/upgrade: V3.0.2 *)

DeployV302Implementations ==
    << Read({Proxy("lidoLocator"), Proxy("app:lido"), Addr("hashConsensusForAccountingOracle")}),
       Confirm >>
    \o DeployImplementation("lazyOracle", [locator |-> Locator])
    \o DeployImplementation("vaultHub", HubArgs)

\* The agent is impersonated; the hub's arguments are those of the artifact.
MockUpgradeToV302 ==
    << Read({Proxy("app:agent"), Proxy("lidoLocator")}) >>
    \o DeployImplementation("lazyOracle", [locator |-> Locator])
    \o << [UpgradeTo(S(Proxy("lazyOracle")), L(Impl("lazyOracle"))) EXCEPT !.from = AgentProxy] >>
    \o DeployImplementation("vaultHub", [replaced |-> S(Impl("vaultHub"))])
    \o << [UpgradeTo(S(Proxy("vaultHub")), L(Impl("vaultHub"))) EXCEPT !.from = AgentProxy] >>

(* scripts/tooling *)
DeployAlertingHarness ==
    << Read({Proxy("lidoLocator")}) >>
    \o DeployImplementation("alertingHarness", [locator |-> Locator])

-----------------------------------------------------------------------------
(* The steps files *)
UpgradeProgram ==
    [v3 |-> DeployV3Contracts \o DeployV3UpgradingContracts,
     v3ForTests |-> DeployV3Contracts \o DeployV3UpgradingContracts \o MockV3AragonVoting,
     mockVoting |-> MockV3AragonVoting,
     v3VoteScript |-> DeployV3VoteScript,
     newLocator |-> DeployNewLocator,
     rc2 |-> UpgradeToRc2, rc3 |-> UpgradeToRc3, rc4 |-> UpgradeToRc4, rc5 |-> UpgradeToRc5,
     lazyOracle |-> UpdateLazyOracle,
     v302 |-> DeployV302Implementations,
     v302Mock |-> MockUpgradeToV302,
     alertingHarness |-> DeployAlertingHarness]
=============================================================================
