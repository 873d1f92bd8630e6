---------------------------- MODULE DeploymentOps ----------------------------
(***************************************************************************)
(* The vocabulary of the deployment scripts (lib/deploy.ts, lib/ens.ts,    *)
(* lib/state-file.ts).  A script is a sequence of operations, each a       *)
(* record: reading the deployment artifact, creating a contract, calling   *)
(* one, saving addresses.  Deployment.tla executes them; ScratchSteps and  *)
(* UpgradeSteps write the scripts down.  Addresses, gas and call data are  *)
(* abstracted: what is kept is which contract an operation reads, makes or *)
(* calls, from which variable its address comes, what permission the call  *)
(* needs and whose powers it changes.                                      *)
(***************************************************************************)
EXTENDS Sequences, TLC

-----------------------------------------------------------------------------
\* Slots of the artifact: state[key].address, state[key].proxy.address and
\* state[key].implementation.address.
Addr(key) == <<key, "address">>
Proxy(key) == <<key, "proxy">>
Impl(key) == <<key, "implementation">>

\* Where a script takes an address from: the state object it read, a variable
\* it got from an earlier call, the environment or the TOML parameters, a view
\* of the LidoLocator on chain, the implementation behind a proxy on chain.
S(slot) == [src |-> "state", slot |-> slot]
L(slot) == [src |-> "local", slot |-> slot]
Given(slot) == [src |-> "given", slot |-> slot]
View(field) == [src |-> "view", slot |-> <<"lidoLocator", field>>]
Live(slot) == [src |-> "live", slot |-> slot]
Account(who) == [src |-> "account", slot |-> <<who, "account">>]
Deployer == Account("deployer")
ZeroAddress == Account("zero")

-----------------------------------------------------------------------------
\* readNetworkState at the top of a script, with the addresses it dereferences
\* before its first transaction.
Read(slots) == [op |-> "read", slots |-> slots, start |-> TRUE]
\* state = readNetworkState() in the middle of a script.
Reread == [op |-> "read", slots |-> {}, start |-> FALSE]

\* Powers a contract is born with.
NoPowers == [owner |-> ZeroAddress, impl |-> ZeroAddress, roles |-> {}]
OwnedBy(who) == [NoPowers EXCEPT !.owner = who]
AdminIs(who) == [NoPowers EXCEPT !.roles = {<<"admin", who>>}]

\* deployContract, and a factory call that creates a contract: args names the
\* addresses it is given.
Create(slot, args, powers) ==
    [op |-> "create", slot |-> slot, args |-> args, powers |-> powers]

\* makeTx on a contract.  "guard" is the role the callee demands of the caller
\* ("owner": the proxy admin or Ownable owner, "": anyone).
Call(contract) ==
    [op |-> "call", on |-> contract, from |-> Deployer, guard |-> "",
     requires |-> {}, forbids |-> {}, sets |-> {}, clears |-> {},
     grants |-> {}, revokes |-> {}, to |-> ZeroAddress,
     owner |-> ZeroAddress, impl |-> ZeroAddress, makes |-> {}]

GrantRole(c, role, to) == [Call(c) EXCEPT !.guard = "admin", !.grants = {role}, !.to = to]
RenounceRole(c, role) == [Call(c) EXCEPT !.revokes = {role}]
WithRole(c, role) == [Call(c) EXCEPT !.guard = role]
Initialize(c, roles, admin) ==
    [Call(c) EXCEPT !.forbids = {"initialized"}, !.sets = {"initialized"},
                    !.grants = roles, !.to = admin]
ChangeOwner(c, to) == [Call(c) EXCEPT !.guard = "owner", !.owner = to]
UpgradeTo(c, impl) == [Call(c) EXCEPT !.guard = "owner", !.impl = impl]

\* A check of the script on the chain: who holds a role.
Expect(contract, role, who) ==
    [op |-> "expect", on |-> contract, role |-> role, to |-> who]

\* updateObjectInState / setValueInState: read the file, merge, write it back.
Save(slots) == [op |-> "save", slots |-> slots]
\* persistNetworkState(state): the whole object the script holds is written.
Persist(slots) == [op |-> "persist", slots |-> slots]
\* The user is asked to type "yes".
Confirm == [op |-> "confirm"]
\* mockDGAragonVoting: the proposal is scheduled, by a call whose gas no one counts.
ScheduleProposal(governance) == [op |-> "schedule", on |-> governance]
\* ... and executed: execute, an hour later execute again ...
ExecuteProposal == [op |-> "execute"]

-----------------------------------------------------------------------------
(* lib/deploy.ts *)

DeployWithoutProxy(key, args, powers) ==
    << Create(Addr(key), args, powers), Save(Addr(key) :> L(Addr(key))) >>

DeployImplementation(key, args) ==
    << Create(Impl(key), args, NoPowers), Save(Impl(key) :> L(Impl(key))) >>

\* The proxy is created with the implementation of the step before it, or with
\* one that exists; both addresses are written to the artifact at once.
ProxyPowers(impl, owner, roles) == [owner |-> owner, impl |-> impl, roles |-> roles]

DeployBehindOssifiableProxy(key, args, owner, roles) ==
    << Create(Impl(key), args, NoPowers),
       Create(Proxy(key), <<>>, ProxyPowers(L(Impl(key)), owner, roles)),
       Save(Proxy(key) :> L(Proxy(key)) @@ Impl(key) :> L(Impl(key))) >>

DeployProxyTo(key, impl, owner) ==
    << Create(Proxy(key), <<>>, ProxyPowers(impl, owner, {})),
       Save(Proxy(key) :> L(Proxy(key)) @@ Impl(key) :> impl) >>

UpdateProxyImplementation(key, proxy, args) ==
    << Create(Impl(key), args, NoPowers), UpgradeTo(proxy, L(Impl(key))),
       Save(Impl(key) :> L(Impl(key))) >>

(* lib/ens.ts: the parent node "eth" is the deployer's, the node is new *)
AssignENSName(ens, label, to) == [WithRole(ens, "eth") EXCEPT !.grants = {label}, !.to = to]
=============================================================================
