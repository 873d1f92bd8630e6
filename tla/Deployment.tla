----------------------------- MODULE Deployment -----------------------------
(***************************************************************************)
(* The migration runner (scripts/utils/migrate.ts, lib/scratch.ts) and     *)
(* what it works on: the deployment artifact on disk (lib/state-file.ts),  *)
(* the process's memory, and the contracts on chain.  A plan is a          *)
(* migration with its configuration; Scripts gives its operations          *)
(* (DeploymentOps).  A transaction is mined first and its gas is added to  *)
(* the artifact in a second write, so the process may die between the two, *)
(* as between any two operations.  A scratch deployment starts over from   *)
(* an empty file (scripts/dao-deploy.sh); an upgrade is run again from its *)
(* first step over the file the dead run left behind.                      *)
(***************************************************************************)
EXTENDS DeploymentOps, Integers

CONSTANTS
    Plans,        \* the migrations, each with a configuration
    Scripts,      \* plan -> its operations, all steps in order
    Origin,       \* plan -> the artifact and the chain before the first run
    Scratch,      \* the plans that delete the artifact before they start
    MaxCrashes,   \* bound: how often the process dies
    Hours,        \* hours of a day
    Windows       \* plan -> the sets of hours its proposal may be executed in

VARIABLES
    plan,         \* the migration being run
    script,       \* its operations, as loaded from the steps file
    window,       \* hours in which the proposal's time constraint holds
    pc,           \* the next operation
    mined,        \* a transaction of this operation is mined, its gas not yet counted
    status,       \* "running", "crashed", "failed", "aborted" or "done"
    file,         \* the artifact: [at: slot -> address, gas: counter]
    snap,         \* the state object the script holds
    locals,       \* addresses the script got from its own calls
    chain,        \* address -> contract
    spent,        \* transactions mined since the artifact's counter was zero
    crashes,      \* how often the process has died
    attempts      \* attempts at executing the proposal, an hour apart

vars == <<plan, script, window, pc, mined, status, file, snap, locals, chain, spent,
          crashes, attempts>>

-----------------------------------------------------------------------------
Nothing == <<>>      \* the function with no values
Values(f) == {f[x] : x \in DOMAIN f}

\* f where it is defined, g elsewhere; g with one entry put.
Over(f, g) == [x \in DOMAIN f \cup DOMAIN g |-> IF x \in DOMAIN f THEN f[x] ELSE g[x]]
Put(x, y, g) == [z \in {x} \cup DOMAIN g |-> IF z = x THEN y ELSE g[z]]

\* What the process starts from: an artifact that names contracts of the chain;
\* and scripts that write to it only addresses they read, made or were given.
ASSUME DeploymentAssumption ==
    \A p \in Plans :
        /\ Origin[p].file = [at |-> Origin[p].file.at, gas |-> 0]
        /\ Values(Origin[p].file.at) \subseteq DOMAIN Origin[p].chain
        /\ Len(Scripts[p]) \in Nat
        /\ \A i \in 1..Len(Scripts[p]) :
              Scripts[p][i].op \in {"save", "persist"} =>
                  \A x \in DOMAIN Scripts[p][i].slots :
                      Scripts[p][i].slots[x].src \in {"state", "local", "given"}

\* A state object is written back whole only while it is what the file holds: a
\* script reads the file again after a transaction or another write
\* (0070-deploy-dao.ts:158).
RewritesFile == {"create", "call", "completeSetup", "save"}
ReadAt(ops, j, i) == ops[j].op = "read" /\ \A k \in (j + 1)..(i - 1) : ops[k].op \notin RewritesFile
ASSUME FreshPersistAssumption ==
    \A p \in Plans : \A i \in 1..Len(Scripts[p]) :
        Scripts[p][i].op = "persist" => \E j \in 1..(i - 1) : ReadAt(Scripts[p], j, i)

NewContract == [owner |-> <<0, <<"zero", "account">>>>, impl |-> <<0, <<"zero", "account">>>>,
                roles |-> {}, marks |-> {}, args |-> Nothing]

\* An address is the run that made the contract and the slot it is made for.
Id(slot) == <<crashes + 1, slot>>
Outside(slot) == <<0, slot>>

\* The implementation of the LidoLocator the chain uses now.
LiveLocator == chain[chain[snap.at[Proxy("lidoLocator")]].impl]

\* A reference resolves unless the code would read a property of undefined.
Defined(ref) ==
    /\ ref.src \in {"state", "live"} => ref.slot \in DOMAIN snap.at
    /\ ref.src = "local" => ref.slot \in DOMAIN locals
    /\ ref.src = "given" => Outside(ref.slot) \in DOMAIN chain
    /\ ref.src = "view" => /\ Proxy("lidoLocator") \in DOMAIN snap.at
                           /\ ref.slot[2] \in DOMAIN LiveLocator.args

Resolve(ref) ==
    IF ref.src = "state" THEN snap.at[ref.slot]
    ELSE IF ref.src = "local" THEN locals[ref.slot]
    ELSE IF ref.src = "view" THEN LiveLocator.args[ref.slot[2]]
    ELSE IF ref.src = "live" THEN chain[snap.at[ref.slot]].impl
    ELSE Outside(ref.slot)

ResolveAll(refs) == [x \in DOMAIN refs |-> Resolve(refs[x])]

Op == script[pc]
Ready(kind) == /\ status = "running"
               /\ ~mined
               /\ pc <= Len(script)
               /\ Op.op = kind

-----------------------------------------------------------------------------
(* One action per kind of operation *)

ReadPossible == Op.slots \subseteq DOMAIN file.at

ReadState ==
    /\ Ready("read")
    /\ ReadPossible
    /\ snap' = file
    /\ locals' = IF Op.start THEN Nothing ELSE locals
    /\ pc' = pc + 1
    /\ UNCHANGED <<plan, script, window, mined, status, file, chain, spent, crashes, attempts>>

CreatePossible ==
    /\ \A x \in DOMAIN Op.args : Defined(Op.args[x])
    /\ Defined(Op.powers.owner)
    /\ Defined(Op.powers.impl)
    /\ \A r \in Op.powers.roles : Defined(r[2])

CreateContract ==
    /\ Ready("create")
    /\ CreatePossible
    /\ LET id == Id(Op.slot)
           contract == [owner |-> Resolve(Op.powers.owner), impl |-> Resolve(Op.powers.impl),
                        roles |-> {<<r[1], Resolve(r[2])>> : r \in Op.powers.roles},
                        marks |-> {}, args |-> ResolveAll(Op.args)]
       IN  /\ chain' = Put(id, contract, chain)
           /\ locals' = Put(Op.slot, id, locals)
    /\ mined' = TRUE
    /\ spent' = spent + 1
    /\ UNCHANGED <<plan, script, window, pc, status, file, snap, crashes, attempts>>

\* The callee's own check of the caller and of its state.
CallPossible ==
    /\ Defined(Op.on)
    /\ Defined(Op.from)
    /\ Defined(Op.to)
    /\ Defined(Op.owner)
    /\ Defined(Op.impl)
    /\ Resolve(Op.on) \in DOMAIN chain
    /\ LET callee == chain[Resolve(Op.on)]
           caller == Resolve(Op.from)
       IN  /\ \/ Op.guard = ""
              \/ Op.guard = "owner" /\ callee.owner = caller
              \/ <<Op.guard, caller>> \in callee.roles
           /\ Op.requires \subseteq callee.marks
           /\ Op.forbids \cap callee.marks = {}

Called(callee, caller) ==
    [callee EXCEPT
        !.owner = IF Op.owner = ZeroAddress THEN @ ELSE Resolve(Op.owner),
        !.impl = IF Op.impl = ZeroAddress THEN @ ELSE Resolve(Op.impl),
        !.roles = (@ \cup (Op.grants \X {Resolve(Op.to)})) \ (Op.revokes \X {caller}),
        !.marks = (@ \cup Op.sets) \ Op.clears]

CallContract ==
    /\ Ready("call")
    /\ CallPossible
    /\ LET callee == Resolve(Op.on)
           made == [slot \in Op.makes |-> Id(slot)]
       IN  /\ chain' = Put(callee, Called(chain[callee], Resolve(Op.from)),
                           Over([id \in Values(made) |-> NewContract], chain))
           /\ locals' = Over(made, locals)
    /\ mined' = TRUE
    /\ spent' = spent + 1
    /\ UNCHANGED <<plan, script, window, pc, status, file, snap, crashes, attempts>>

\* V3TemporaryAdmin.completeSetup: the contracts are those the new locator
\* implementation names; the roles go to the seal, the reseal manager, the
\* Easy Track contracts and Accounting; every admin role ends with the agent.
SetupPossible ==
    /\ Defined(Op.on)
    /\ Defined(Op.locator)
    /\ Defined(Op.gateSeal)
    /\ Defined(Op.resealManager)
    /\ Defined(Op.vaultsAdapter)
    /\ LET names == chain[Resolve(Op.locator)].args
           me == Resolve(Op.on)
       IN  /\ "done" \notin chain[me].marks
           /\ \A n \in {"vaultHub", "operatorGrid", "burner", "predepositGuarantee"} :
                  <<"admin", me>> \in chain[names[n]].roles
           /\ chain[names["postTokenRebaseReceiver"]].owner = me

CompleteSetup ==
    /\ Ready("completeSetup")
    /\ SetupPossible
    /\ LET names == chain[Resolve(Op.locator)].args
           me == Resolve(Op.on)
           agent == chain[me].args["agent"]
           seal == Resolve(Op.gateSeal)
           reseal == Resolve(Op.resealManager)
           adapter == Resolve(Op.vaultsAdapter)
           pausing == {<<"PAUSE", seal>>, <<"PAUSE", reseal>>, <<"RESUME", reseal>>}
           granted(n) ==
               CASE n = "vaultHub" ->
                        pausing \cup {<<"VALIDATOR_EXIT", adapter>>, <<"BAD_DEBT_MASTER", adapter>>}
                 [] n = "predepositGuarantee" -> pausing
                 [] n = "operatorGrid" ->
                        {<<"REGISTRY", adapter>>, <<"REGISTRY", Outside(Addr("evmScriptExecutor"))>>}
                 [] n = "burner" -> {<<"REQUEST_BURN_SHARES", names["accounting"]>>,
                                     <<"REQUEST_BURN_SHARES", Outside(Addr("csmAccounting"))>>}
           handedOver(n) == [chain[names[n]] EXCEPT
               !.roles = (@ \cup granted(n) \cup {<<"admin", agent>>}) \ {<<"admin", me>>}]
           ours == {"vaultHub", "operatorGrid", "burner", "predepositGuarantee"}
           after(id) ==
               IF id = me THEN [chain[id] EXCEPT !.marks = @ \cup {"done"}]
               ELSE IF id = names["postTokenRebaseReceiver"] THEN [chain[id] EXCEPT !.owner = agent]
               ELSE IF id \in {names[n] : n \in ours} THEN handedOver(CHOOSE n \in ours : names[n] = id)
               ELSE chain[id]
       IN  chain' = [id \in DOMAIN chain |-> after(id)]
    /\ mined' = TRUE
    /\ spent' = spent + 1
    /\ UNCHANGED <<plan, script, window, pc, status, file, snap, locals, crashes, attempts>>

CountGasInOldState ==                      \* faulty: adds to the object the script holds
    /\ status = "running"
    /\ mined
    /\ file' = [snap EXCEPT !.gas = @ + 1]
    /\ mined' = FALSE
    /\ pc' = pc + 1
    /\ UNCHANGED <<plan, script, window, status, snap, locals, chain, spent, crashes, attempts>>

\* incrementGasUsed, after the receipt: the file is read again and rewritten.
CountGas ==
    /\ status = "running"
    /\ mined
    /\ file' = [file EXCEPT !.gas = @ + 1]
    /\ mined' = FALSE
    /\ pc' = pc + 1
    /\ UNCHANGED <<plan, script, window, status, snap, locals, chain, spent, crashes, attempts>>

SavePossible == \A x \in DOMAIN Op.slots : Defined(Op.slots[x])

SaveAddresses ==
    /\ Ready("save")
    /\ SavePossible
    /\ file' = [file EXCEPT !.at = Over(ResolveAll(Op.slots), @)]
    /\ pc' = pc + 1
    /\ UNCHANGED <<plan, script, window, mined, status, snap, locals, chain, spent, crashes, attempts>>

PersistState ==
    /\ Ready("persist")
    /\ SavePossible
    /\ snap' = [snap EXCEPT !.at = Over(ResolveAll(Op.slots), @)]
    /\ file' = snap'
    /\ pc' = pc + 1
    /\ UNCHANGED <<plan, script, window, mined, status, locals, chain, spent, crashes, attempts>>

ExpectationMet ==
    /\ Defined(Op.on)
    /\ Defined(Op.to)
    /\ Resolve(Op.on) \in DOMAIN chain
    /\ <<Op.role, Resolve(Op.to)>> \in chain[Resolve(Op.on)].roles

CheckExpectation ==
    /\ Ready("expect")
    /\ ExpectationMet
    /\ pc' = pc + 1
    /\ UNCHANGED <<plan, script, window, mined, status, file, snap, locals, chain, spent, crashes, attempts>>

AnswerYes ==
    /\ Ready("confirm")
    /\ pc' = pc + 1
    /\ UNCHANGED <<plan, script, window, mined, status, file, snap, locals, chain, spent, crashes, attempts>>

AnswerNo ==
    /\ Ready("confirm")
    /\ status' = "aborted"
    /\ UNCHANGED <<plan, script, window, pc, mined, file, snap, locals, chain, spent, crashes, attempts>>

-----------------------------------------------------------------------------
(* scripts/utils/upgrade.ts: the proposal is executed within 24 attempts *)

AttemptsBeforeMidnight == 23               \* faulty: one hour of the day is never tried
MaxAttempts == 24

\* The hour of the k-th attempt: advanceChainTime(ONE_HOUR) after each revert.
HourOf(k) == k % Hours

SchedulePossible == "scheduled" \notin chain[Resolve(Op.on)].marks

ProposalScheduled ==
    /\ Ready("schedule")
    /\ SchedulePossible
    /\ chain' = [chain EXCEPT ![Resolve(Op.on)].marks = @ \cup {"scheduled"}]
    /\ pc' = pc + 1
    /\ UNCHANGED <<plan, script, window, mined, status, file, snap, locals, spent, crashes, attempts>>

ProposalExecuted ==
    /\ Ready("execute")
    /\ attempts < MaxAttempts
    /\ HourOf(attempts) \in window
    /\ pc' = pc + 1
    /\ UNCHANGED <<plan, script, window, mined, status, file, snap, locals, chain, spent, crashes, attempts>>

ProposalReverted ==
    /\ Ready("execute")
    /\ attempts < MaxAttempts
    /\ HourOf(attempts) \notin window
    /\ attempts' = attempts + 1
    /\ UNCHANGED <<plan, script, window, pc, mined, status, file, snap, locals, chain, spent, crashes>>

-----------------------------------------------------------------------------
\* A property of undefined, a revert, a failed assertion: applyMigrationScript
\* logs the error and exits.
Possible ==
    CASE Op.op = "read" -> ReadPossible
      [] Op.op = "create" -> CreatePossible
      [] Op.op = "call" -> CallPossible
      [] Op.op = "completeSetup" -> SetupPossible
      [] Op.op \in {"save", "persist"} -> SavePossible
      [] Op.op = "expect" -> ExpectationMet
      [] Op.op = "schedule" -> SchedulePossible
      [] Op.op = "execute" -> attempts < MaxAttempts
      [] OTHER -> TRUE

FailStep ==
    /\ status = "running"
    /\ ~mined
    /\ pc <= Len(script)
    /\ ~Possible
    /\ status' = "failed"
    /\ UNCHANGED <<plan, script, window, pc, mined, file, snap, locals, chain, spent, crashes, attempts>>

Finish ==
    /\ status = "running"
    /\ ~mined
    /\ pc > Len(script)
    /\ status' = "done"
    /\ UNCHANGED <<plan, script, window, pc, mined, file, snap, locals, chain, spent, crashes, attempts>>

Crash ==
    /\ status = "running"
    /\ crashes < MaxCrashes
    /\ status' = "crashed"
    /\ UNCHANGED <<plan, script, window, pc, mined, file, snap, locals, chain, spent, crashes, attempts>>

Blank == [at |-> Nothing, gas |-> 0]

\* dao-deploy.sh removes the file: what the dead run deployed is abandoned.
\* An upgrade finds its own half-written artifact and the contracts it made.
Restart ==
    /\ status = "crashed"
    /\ status' = "running"
    /\ pc' = 1
    /\ mined' = FALSE
    /\ snap' = Blank
    /\ locals' = Nothing
    /\ attempts' = 0
    /\ crashes' = crashes + 1
    /\ IF plan \in Scratch
       THEN /\ file' = Origin[plan].file
            /\ chain' = Origin[plan].chain
            /\ spent' = 0
       ELSE UNCHANGED <<file, chain, spent>>
    /\ UNCHANGED <<plan, script, window>>

-----------------------------------------------------------------------------
Init ==
    /\ plan \in Plans
    /\ script = Scripts[plan]
    /\ window \in Windows[plan]
    /\ pc = 1
    /\ mined = FALSE
    /\ status = "running"
    /\ file = Origin[plan].file
    /\ snap = Blank
    /\ locals = Nothing
    /\ chain = Origin[plan].chain
    /\ spent = 0
    /\ crashes = 0
    /\ attempts = 0

Step ==
    \/ ReadState
    \/ CreateContract
    \/ CallContract
    \/ CompleteSetup
    \/ CountGas
    \/ SaveAddresses
    \/ PersistState
    \/ CheckExpectation
    \/ AnswerYes
    \/ AnswerNo
    \/ ProposalScheduled
    \/ ProposalExecuted
    \/ ProposalReverted
    \/ FailStep
    \/ Finish

Next == Step \/ Crash \/ Restart

\* The node process runs until it ends, and a dead one is started again.
Spec == Init /\ [][Next]_vars /\ WF_vars(Step) /\ WF_vars(Restart)

-----------------------------------------------------------------------------
(* Properties of every migration *)

\* Every address in the artifact is that of a mined contract: a script never
\* writes an address before the transaction that makes it true.
ArtifactMined == Values(file.at) \subseteq DOMAIN chain

\* totalGasUsed misses at most the transaction in flight of each death of the
\* process: no whole-object write brings an older counter back.
GasAccounted ==
    /\ file.gas <= spent
    /\ spent <= file.gas + crashes + (IF mined THEN 1 ELSE 0)

ArtifactSound == ArtifactMined /\ GasAccounted

\* An entry of the artifact may be overwritten, never lost, but when a scratch
\* deployment starts over from an empty file: no write drops what another wrote.
EntriesKept == [][\/ DOMAIN file.at \subseteq DOMAIN file'.at
                  \/ plan \in Scratch /\ status = "crashed"]_vars
=============================================================================
