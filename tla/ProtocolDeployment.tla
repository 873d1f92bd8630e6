-------------------------- MODULE ProtocolDeployment --------------------------
(***************************************************************************)
(* The migration runner with the migrations the repository ships, and what *)
(* a finished migration must leave behind.  A plan is <<"scratch", the     *)
(* optional inputs>> or <<"upgrade", its name>>.                           *)
(***************************************************************************)
EXTENDS Deployment, ScratchSteps, UpgradeSteps

\* lib/scratch.ts: MODE and STEPS_FILE choose the steps; they run in order.
ScriptOf(p) == IF p[1] = "scratch" THEN ScratchProgram(p[2]) ELSE UpgradeProgram[p[2]]

Upgrades(names) == {"upgrade"} \X names

AgentId == IF plan \in Scratch THEN file.at[Proxy("app:agent")] ELSE Outside(Proxy("app:agent"))
DeployerId == Outside(<<"deployer", "account">>)
ZeroId == Outside(<<"zero", "account">>)

Done == status = "done"
RoleHolders(id, role) == {r[2] : r \in {x \in chain[id].roles : x[1] = role}}
Admins(contract) == {r[2] : r \in {x \in contract.roles : x[1] = "admin"}}

-----------------------------------------------------------------------------
(* Every migration *)

\* A contract that has an admin is never left without one, nor an owned one
\* without an owner: roles are granted before they are renounced, whoever dies
\* between, and no step hands a contract to the zero address.
AuthorityKept ==
    [][\A id \in DOMAIN chain \cap DOMAIN chain' :
          /\ Admins(chain[id]) # {} => Admins(chain'[id]) # {}
          /\ chain[id].owner # ZeroId => chain'[id].owner # ZeroId]_vars

\* A migration reaches its end or the operator's refusal, however the process
\* dies: no step reads a missing address, lacks a role or reverts.  The one
\* step that cannot be repeated is the scheduling of the test vote.
ScheduledTwice == status = "failed" /\ Op.op = "schedule" /\ crashes > 0
EventuallyEnds == <>(status \in {"done", "aborted"} \/ ScheduledTwice)

-----------------------------------------------------------------------------
(* The scratch deployment *)

\* The ENS root node "eth" stays the deployer's, and so does the beacon.
DeployersOwn(id) == id[2] \in {Addr("ens"), Addr("stakingVaultBeacon")}

\* When the scratch deployment ends, nothing is the deployer's any more.
DeployerPowerless ==
    \A id \in {x \in DOMAIN chain : ~DeployersOwn(x)} :
        /\ chain[id].owner # DeployerId
        /\ DeployerId \notin {r[2] : r \in chain[id].roles}

\* The locator the contracts ask names the contracts of the artifact, and the
\* artifact names none of an abandoned run.
LocatorMatchesArtifact ==
    /\ chain[chain[file.at[Proxy("lidoLocator")]].impl].args
           = [field \in DOMAIN LocatorSlots |-> file.at[LocatorSlots[field]]]
    /\ \A slot \in DOMAIN file.at : file.at[slot][1] \in {0, crashes + 1}

ScratchComplete ==
    Done /\ plan \in Scratch => DeployerPowerless /\ LocatorMatchesArtifact

-----------------------------------------------------------------------------
(* The upgrades *)

\* V3Template's checks before and after the vote, on the addresses the template
\* was given: whatever was deployed by a run that died, the template names one
\* consistent set of contracts, whose one admin is the agent.
HandedOver(id) == RoleHolders(id, "admin") = {AgentId}
HandedOverProxy(id) == HandedOver(id) /\ chain[id].owner = AgentId

OldImplementationsLive(t) ==
    /\ chain[t.locator].impl = t.oldLocatorImpl
    /\ chain[LiveLocator.args["accountingOracle"]].impl = t.oldAccountingOracleImpl
    /\ chain[LiveLocator.args["lido"]].impl = t.oldLidoImpl

FactoryConsistent(t, names) ==
    /\ chain[names.vaultFactory].args.beacon = t.upgradeableBeacon
    /\ chain[names.vaultFactory].args.dashboard = t.dashboardImpl
    /\ chain[t.upgradeableBeacon].owner = AgentId
    /\ chain[t.upgradeableBeacon].impl = t.stakingVaultImpl

RolesAssigned(t, names) ==
    /\ \A n \in {"burner", "vaultHub", "operatorGrid", "lazyOracle", "predepositGuarantee"} :
          HandedOverProxy(names[n])
    /\ chain[names.accounting].owner = AgentId
    /\ HandedOver(names.oracleReportSanityChecker)
    /\ names.postTokenRebaseReceiver = t.newTokenRateNotifier
    /\ chain[t.newTokenRateNotifier].owner = AgentId
    /\ RoleHolders(names.burner, "REQUEST_BURN_SHARES")
          = {names.accounting, Outside(Addr("csmAccounting"))}
    /\ \A n \in {"vaultHub", "predepositGuarantee"} :
          /\ RoleHolders(names[n], "PAUSE") = {t.gateSeal, t.resealManager}
          /\ RoleHolders(names[n], "RESUME") = {t.resealManager}

Enactable ==
    LET t == chain[file.at[Addr("v3Template")]].args
        names == chain[t.newLocatorImpl].args
    IN  /\ OldImplementationsLive(t)
        /\ FactoryConsistent(t, names)
        /\ RolesAssigned(t, names)

UpgradeEnactable == Done /\ plan \in Upgrades({"v3", "v3ForTests"}) => Enactable

\* VaultFactory.deployedVaults asks the previous factory, so a vault of the
\* factory in use must stay known to the one an upgrade deploys, also when the
\* upgrade is run again over the artifact of a run that died.
FactoriesBehind(id) ==
    LET behind[n \in 0..(MaxCrashes + 1)] ==
            IF n = 0 THEN {id}
            ELSE behind[n - 1] \cup {chain[f].args.previousFactory : f \in behind[n - 1] \ {ZeroId}}
    IN  behind[MaxCrashes + 1]

FactoryChainReachesLive ==
    Done /\ plan \in Upgrades({"rc2", "rc3", "rc5"}) =>
        LiveLocator.args["vaultFactory"] \in FactoriesBehind(file.at[Addr("stakingVaultFactory")])
=============================================================================
