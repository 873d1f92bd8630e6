--------------------------- MODULE DeploymentProofs ---------------------------
(***************************************************************************)
(* What holds of the migration runner whatever its scripts do: for every   *)
(* set of plans, every script whose writes to the artifact take addresses  *)
(* that were read, made or given, and any number of deaths of the process. *)
(***************************************************************************)
EXTENDS Deployment, TLAPS

-----------------------------------------------------------------------------
\* An object of the artifact's shape, all of whose addresses have a contract.
Shaped(f) == f = [at |-> f.at, gas |-> f.gas]
Known(f) == Values(f) \subseteq DOMAIN chain

\* The inductive invariant: the file, the state object and the addresses the
\* script remembers all name mined contracts; the operations are the plan's.
MinedInv ==
    /\ plan \in Plans
    /\ script = Scripts[plan]
    /\ pc \in Nat \ {0}
    /\ Shaped(file)
    /\ Shaped(snap)
    /\ Known(file.at)
    /\ Known(snap.at)
    /\ Known(locals)

LEMMA NothingHasNoValues == Values(Nothing) = {}
BY DEF Nothing, Values

\* Merging two maps adds no value and loses no entry.
LEMMA MergedValues ==
    ASSUME NEW f, NEW g
    PROVE  /\ Values(Over(f, g)) \subseteq Values(f) \cup Values(g)
           /\ DOMAIN Over(f, g) = DOMAIN f \cup DOMAIN g
BY DEF Values, Over

\* One entry put into a map adds its value.
LEMMA PutValues ==
    ASSUME NEW x, NEW y, NEW g
    PROVE  /\ Values(Put(x, y, g)) \subseteq {y} \cup Values(g)
           /\ DOMAIN Put(x, y, g) = {x} \cup DOMAIN g
BY DEF Values, Put

\* What a save writes are addresses of contracts on the chain.
LEMMA SavedAreMined ==
    ASSUME MinedInv, Ready("save") \/ Ready("persist"), SavePossible
    PROVE  Known(ResolveAll(Op.slots))
<1>1. /\ pc \in 1..Len(Scripts[plan])
      /\ Op = Scripts[plan][pc]
      /\ Op.op \in {"save", "persist"}
  BY DeploymentAssumption DEF MinedInv, Ready, Op
<1>2. \A x \in DOMAIN Op.slots : Op.slots[x].src \in {"state", "local", "given"}
  BY <1>1, DeploymentAssumption DEF MinedInv
<1>3. ASSUME NEW x \in DOMAIN Op.slots
      PROVE  Resolve(Op.slots[x]) \in DOMAIN chain
  <2> DEFINE ref == Op.slots[x]
  <2>1. Defined(ref)
    BY DEF SavePossible
  <2>2. CASE ref.src = "state"
    <3>1. ref.slot \in DOMAIN snap.at /\ Resolve(ref) = snap.at[ref.slot]
      BY <2>1, <2>2 DEF Defined, Resolve
    <3> QED BY <3>1 DEF MinedInv, Known, Values
  <2>3. CASE ref.src = "local"
    <3>1. ref.slot \in DOMAIN locals /\ Resolve(ref) = locals[ref.slot]
      BY <2>1, <2>3 DEF Defined, Resolve
    <3> QED BY <3>1 DEF MinedInv, Known, Values
  <2>4. CASE ref.src = "given"
    <3>1. Outside(ref.slot) \in DOMAIN chain /\ Resolve(ref) = Outside(ref.slot)
      BY <2>1, <2>4 DEF Defined, Resolve
    <3> QED BY <3>1
  <2> QED BY <1>2, <2>2, <2>3, <2>4
<1> QED BY <1>3 DEF Known, Values, ResolveAll

LEMMA MinedInit == Init => MinedInv
<1> SUFFICES ASSUME Init PROVE MinedInv
  OBVIOUS
<1>1. /\ Origin[plan].file = [at |-> Origin[plan].file.at, gas |-> 0]
      /\ Values(Origin[plan].file.at) \subseteq DOMAIN Origin[plan].chain
  BY DeploymentAssumption DEF Init
<1>2. Shaped(file) /\ Known(file.at)
  BY <1>1 DEF Init, Shaped, Known
<1>3. Shaped(snap) /\ Known(snap.at) /\ Known(locals)
  BY NothingHasNoValues DEF Init, Shaped, Known, Blank
<1> QED BY <1>2, <1>3 DEF Init, MinedInv

LEMMA MinedStep == MinedInv /\ [Next]_vars => MinedInv'
<1> SUFFICES ASSUME MinedInv, [Next]_vars PROVE MinedInv'
  OBVIOUS
<1>1. CASE ReadState
  BY <1>1, NothingHasNoValues DEF MinedInv, ReadState, Known, Shaped
<1>2. CASE CreateContract
  <2>1. PICK c : /\ chain' = Put(Id(Op.slot), c, chain)
                 /\ locals' = Put(Op.slot, Id(Op.slot), locals)
    BY <1>2 DEF CreateContract
  <2>2. DOMAIN chain' = {Id(Op.slot)} \cup DOMAIN chain
    BY <2>1, PutValues
  <2>3. Values(locals') \subseteq {Id(Op.slot)} \cup Values(locals)
    BY <2>1, PutValues
  <2> QED BY <1>2, <2>2, <2>3 DEF MinedInv, CreateContract, Known, Shaped
<1>3. CASE CallContract
  <2> DEFINE made == [slot \in Op.makes |-> Id(slot)]
             born == [id \in Values(made) |-> NewContract]
  <2>1. PICK callee, c : /\ chain' = Put(callee, c, Over(born, chain))
                         /\ locals' = Over(made, locals)
    BY <1>3 DEF CallContract
  <2>2. DOMAIN chain' = {callee} \cup Values(made) \cup DOMAIN chain
    <3>1. DOMAIN Over(born, chain) = Values(made) \cup DOMAIN chain
      BY DEF Over
    <3>2. DOMAIN chain' = {callee} \cup DOMAIN Over(born, chain)
      BY <2>1, PutValues
    <3> QED BY <3>1, <3>2
  <2>3. Values(locals') \subseteq Values(made) \cup Values(locals)
    BY <2>1, MergedValues
  <2> QED BY <1>3, <2>2, <2>3 DEF MinedInv, CallContract, Known, Shaped
<1>4. CASE CompleteSetup
  <2>1. DOMAIN chain \subseteq DOMAIN chain'
    BY <1>4 DEF CompleteSetup
  <2> QED BY <1>4, <2>1 DEF MinedInv, CompleteSetup, Known, Shaped
<1>5. CASE CountGas
  BY <1>5 DEF MinedInv, CountGas, Known, Shaped
<1>6. CASE SaveAddresses
  <2>1. Known(ResolveAll(Op.slots))
    BY <1>6, SavedAreMined DEF SaveAddresses
  <2>2. Shaped(file') /\ file'.at = Over(ResolveAll(Op.slots), file.at)
    BY <1>6 DEF MinedInv, SaveAddresses, Shaped
  <2>3. Values(file'.at) \subseteq DOMAIN chain
    BY <2>1, <2>2, MergedValues DEF MinedInv, Known
  <2> QED BY <1>6, <2>2, <2>3 DEF MinedInv, SaveAddresses, Known, Shaped
<1>7. CASE PersistState
  <2>1. Known(ResolveAll(Op.slots))
    BY <1>7, SavedAreMined DEF PersistState
  <2>2. Shaped(snap') /\ snap'.at = Over(ResolveAll(Op.slots), snap.at)
    BY <1>7 DEF MinedInv, PersistState, Shaped
  <2>3. Values(snap'.at) \subseteq DOMAIN chain
    BY <2>1, <2>2, MergedValues DEF MinedInv, Known
  <2> QED BY <1>7, <2>2, <2>3 DEF MinedInv, PersistState, Known, Shaped
<1>8. CASE ProposalScheduled
  <2>1. DOMAIN chain' = DOMAIN chain
    BY <1>8 DEF ProposalScheduled
  <2> QED BY <1>8, <2>1 DEF MinedInv, ProposalScheduled, Known, Shaped
<1>9. CASE CheckExpectation \/ AnswerYes \/ ProposalExecuted
  BY <1>9 DEF MinedInv, CheckExpectation, AnswerYes, ProposalExecuted,
              Known, Shaped
<1>10. CASE AnswerNo \/ ProposalReverted \/ FailStep \/ Finish \/ Crash
  BY <1>10 DEF MinedInv, AnswerNo, ProposalReverted, FailStep, Finish, Crash, Known, Shaped
<1>11. CASE Restart
  <2>1. Shaped(snap') /\ Known(snap.at)' /\ Known(locals)'
    BY <1>11, NothingHasNoValues DEF Restart, Blank, Shaped, Known
  <2>2. Shaped(file') /\ Known(file.at)'
    <3>1. CASE plan \in Scratch
      <4>1. /\ Origin[plan].file = [at |-> Origin[plan].file.at, gas |-> 0]
            /\ Values(Origin[plan].file.at) \subseteq DOMAIN Origin[plan].chain
        BY DeploymentAssumption DEF MinedInv
      <4>2. file' = Origin[plan].file /\ chain' = Origin[plan].chain
        BY <1>11, <3>1 DEF Restart
      <4>3. Shaped(file')
        BY <4>1, <4>2 DEF Shaped
      <4> QED BY <4>1, <4>2, <4>3 DEF Known
    <3>2. CASE plan \notin Scratch
      BY <1>11, <3>2 DEF MinedInv, Restart, Shaped, Known
    <3> QED BY <3>1, <3>2
  <2> QED BY <1>11, <2>1, <2>2 DEF MinedInv, Restart, Shaped, Known
<1>12. CASE UNCHANGED vars
  BY <1>12 DEF MinedInv, vars, Known, Shaped
<1> QED BY <1>1, <1>2, <1>3, <1>4, <1>5, <1>6, <1>7, <1>8, <1>9, <1>10, <1>11, <1>12
        DEF Next, Step

\* However the process dies and whatever the scripts do, an address is in the
\* artifact only after the transaction that made its contract.
THEOREM ArtifactNamesMinedContracts == Spec => []ArtifactMined
<1>1. MinedInv => ArtifactMined
  BY DEF MinedInv, ArtifactMined, Known
<1> QED BY MinedInit, MinedStep, <1>1, PTL DEF Spec

-----------------------------------------------------------------------------
\* No write to the artifact since the script's last read of it: what the script
\* may write back whole (FreshPersistAssumption) is then what the file holds.
Fresh == \E j \in 1..(pc - 1) : ReadAt(script, j, pc)

\* A transaction mined and not yet counted is not in the object the script holds.
InFlight == IF mined THEN 1 ELSE 0

\* The gas counter misses one transaction in flight for each death of the process.
GasInv ==
    /\ mined \in BOOLEAN
    /\ spent \in Nat
    /\ crashes \in Nat
    /\ file.gas \in Nat
    /\ file.gas + InFlight <= spent
    /\ spent <= file.gas + crashes + InFlight
    /\ mined => pc <= Len(script) /\ Op.op \in RewritesFile
    /\ Fresh => snap = file

\* An operation that writes nothing to the artifact leaves the script's object
\* fresh if it was; a read makes it so.
LEMMA FreshNext ==
    ASSUME pc \in Nat \ {0}, pc' = pc + 1, script' = script, Fresh'
    PROVE  script[pc].op = "read" \/ (Fresh /\ script[pc].op \notin RewritesFile)
<1>1. PICK j \in 1..pc : ReadAt(script, j, pc + 1)
  BY DEF Fresh
<1>2. CASE j = pc
  BY <1>1, <1>2 DEF ReadAt
<1>3. CASE j \in 1..(pc - 1)
  <2>1. script[pc].op \notin RewritesFile
    BY <1>1, <1>3 DEF ReadAt
  <2>2. ReadAt(script, j, pc)
    BY <1>1 DEF ReadAt
  <2> QED BY <1>3, <2>1, <2>2 DEF Fresh
<1> QED BY <1>2, <1>3

\* What a script writes back whole is what the file holds.
LEMMA PersistedIsFresh ==
    ASSUME MinedInv, Ready("persist")
    PROVE  Fresh
BY FreshPersistAssumption DEF MinedInv, Ready, Op, Fresh

LEMMA GasInit == Init => GasInv
<1> SUFFICES ASSUME Init PROVE GasInv
  OBVIOUS
<1>1. Origin[plan].file = [at |-> Origin[plan].file.at, gas |-> 0]
  BY DeploymentAssumption DEF Init
<1>2. file.gas = 0
  BY <1>1 DEF Init
<1>3. mined = FALSE /\ spent = 0 /\ crashes = 0
  BY DEF Init
<1>4. InFlight = 0 /\ mined \in BOOLEAN
  BY <1>3, Zenon DEF InFlight
<1>5. ~Fresh
  BY DEF Init, Fresh
<1> QED BY <1>2, <1>3, <1>4, <1>5 DEF GasInv

\* A transaction is spent when it is mined, and in flight until it is counted.
LEMMA GasMined ==
    ASSUME GasInv, ~mined, mined' = TRUE, spent' = spent + 1,
           UNCHANGED <<script, pc, file, snap, crashes>>,
           pc <= Len(script), Op.op \in RewritesFile
    PROVE  GasInv'
<1>1. InFlight = 0 /\ InFlight' = 1
  BY Zenon DEF InFlight
<1>2. Fresh' <=> Fresh
  BY DEF Fresh
<1>3. Op' = Op
  BY DEF Op
<1> QED BY <1>1, <1>2, <1>3 DEF GasInv

\* What neither mines a transaction nor writes to the artifact keeps the count.
LEMMA GasSame ==
    ASSUME MinedInv, GasInv, UNCHANGED <<script, mined, file, snap, spent, crashes>>,
           \/ pc' = pc
           \/ pc' = pc + 1 /\ ~mined /\ Op.op # "read"
    PROVE  GasInv'
<1>1. InFlight' = InFlight
  BY DEF InFlight
<1>2. Fresh' => Fresh
  <2>1. CASE pc' = pc
    BY <2>1 DEF Fresh
  <2>2. CASE pc' = pc + 1 /\ Op.op # "read"
    BY <2>2, FreshNext DEF MinedInv, Op
  <2> QED BY <2>1, <2>2
<1>3. mined' => pc' = pc /\ Op' = Op
  BY DEF Op
<1> QED BY <1>1, <1>2, <1>3 DEF GasInv

LEMMA GasStep == MinedInv /\ GasInv /\ [Next]_vars => GasInv'
<1> SUFFICES ASSUME MinedInv, GasInv, [Next]_vars PROVE GasInv'
  OBVIOUS
<1>1. CASE ReadState
  <2>1. ~mined /\ ~mined' /\ snap' = file' /\ UNCHANGED <<mined, file, spent, crashes>>
    BY <1>1 DEF ReadState, Ready
  <2> QED BY <2>1 DEF GasInv, InFlight
<1>2. CASE CreateContract
  <2>1. Op.op \in RewritesFile /\ pc <= Len(script) /\ ~mined
    BY <1>2 DEF CreateContract, Ready, RewritesFile
  <2> QED BY <1>2, <2>1, GasMined DEF CreateContract
<1>3. CASE CallContract
  <2>1. Op.op \in RewritesFile /\ pc <= Len(script) /\ ~mined
    BY <1>3 DEF CallContract, Ready, RewritesFile
  <2> QED BY <1>3, <2>1, GasMined DEF CallContract
<1>4. CASE CompleteSetup
  <2>1. Op.op \in RewritesFile /\ pc <= Len(script) /\ ~mined
    BY <1>4 DEF CompleteSetup, Ready, RewritesFile
  <2> QED BY <1>4, <2>1, GasMined DEF CompleteSetup
<1>5. CASE CountGas
  <2>1. file'.gas = file.gas + 1
    BY <1>5 DEF CountGas, MinedInv, Shaped
  <2>2. mined /\ mined' = FALSE /\ pc' = pc + 1 /\ UNCHANGED <<script, spent, crashes>>
    BY <1>5 DEF CountGas
  <2>3. InFlight = 1 /\ InFlight' = 0 /\ mined' \in BOOLEAN
    BY <2>2, Zenon DEF InFlight
  <2>4. ~Fresh'
    <3>1. Op.op \in RewritesFile /\ Op.op # "read"
      BY <2>2 DEF GasInv, RewritesFile
    <3> QED BY <2>2, <3>1, FreshNext DEF MinedInv, Op
  <2> QED BY <2>1, <2>2, <2>3, <2>4 DEF GasInv
<1>6. CASE SaveAddresses
  <2>1. file'.gas = file.gas /\ UNCHANGED <<script, mined, spent, crashes>> /\ pc' = pc + 1 /\ ~mined
    BY <1>6 DEF SaveAddresses, MinedInv, Shaped, Ready
  <2>2. ~Fresh'
    <3>1. Op.op \in RewritesFile /\ Op.op # "read"
      BY <1>6 DEF SaveAddresses, Ready, RewritesFile
    <3> QED BY <2>1, <3>1, FreshNext DEF MinedInv, Op
  <2> QED BY <2>1, <2>2 DEF GasInv, InFlight
<1>7. CASE PersistState
  <2>1. snap = file
    BY <1>7, PersistedIsFresh DEF PersistState, GasInv
  <2>2. file'.gas = file.gas /\ snap' = file'
    BY <1>7, <2>1 DEF PersistState, MinedInv, Shaped
  <2> QED BY <1>7, <2>2 DEF GasInv, InFlight, PersistState, Ready
<1>8. CASE CheckExpectation \/ AnswerYes \/ ProposalScheduled \/ ProposalExecuted
  BY <1>8, GasSame DEF CheckExpectation, AnswerYes, ProposalScheduled, ProposalExecuted, Ready
<1>9. CASE AnswerNo \/ ProposalReverted \/ FailStep \/ Finish \/ Crash \/ UNCHANGED vars
  BY <1>9, GasSame DEF AnswerNo, ProposalReverted, FailStep, Finish, Crash, vars
<1>10. CASE Restart
  <2>1. mined' = FALSE /\ crashes' = crashes + 1 /\ pc' = 1
    BY <1>10 DEF Restart
  <2>2. InFlight' = 0 /\ mined' \in BOOLEAN
    BY <2>1, Zenon DEF InFlight
  <2>3. ~Fresh'
    BY <2>1 DEF Fresh
  <2>4. CASE plan \in Scratch
    <3>1. file' = Origin[plan].file /\ spent' = 0
      BY <1>10, <2>4 DEF Restart
    <3>2. Origin[plan].file = [at |-> Origin[plan].file.at, gas |-> 0]
      BY DeploymentAssumption DEF MinedInv
    <3>3. file'.gas = 0
      BY <3>1, <3>2
    <3> QED BY <2>1, <2>2, <2>3, <3>1, <3>3 DEF GasInv
  <2>5. CASE plan \notin Scratch
    <3>1. UNCHANGED <<file, spent>>
      BY <1>10, <2>5 DEF Restart
    <3>2. InFlight \in {0, 1}
      BY DEF InFlight
    <3> QED BY <2>1, <2>2, <2>3, <3>1, <3>2 DEF GasInv
  <2> QED BY <2>4, <2>5
<1> QED BY <1>1, <1>2, <1>3, <1>4, <1>5, <1>6, <1>7, <1>8, <1>9, <1>10 DEF Next, Step

\* Whatever the scripts do and however often the process dies, the artifact
\* counts no gas that was not spent and misses one transaction for each death.
THEOREM ArtifactIsSound == Spec => []ArtifactSound
<1>1. MinedInv /\ GasInv => ArtifactSound
  BY DEF MinedInv, GasInv, ArtifactSound, ArtifactMined, GasAccounted, Known, InFlight
<1> QED BY MinedInit, MinedStep, GasInit, GasStep, <1>1, PTL DEF Spec

\* No script loses an entry of the artifact that it or another wrote: the whole
\* object it writes back contains every entry the file has.
THEOREM NoEntryIsLost == Spec => EntriesKept
<1> DEFINE Kept == \/ DOMAIN file.at \subseteq DOMAIN file'.at
                   \/ plan \in Scratch /\ status = "crashed"
<1>1. MinedInv /\ GasInv /\ [Next]_vars => [Kept]_vars
  <2> SUFFICES ASSUME MinedInv, GasInv, [Next]_vars PROVE [Kept]_vars
    OBVIOUS
  <2>1. CASE SaveAddresses
    <3>1. file'.at = Over(ResolveAll(Op.slots), file.at)
      BY <2>1 DEF MinedInv, SaveAddresses, Shaped
    <3>2. DOMAIN file'.at = DOMAIN ResolveAll(Op.slots) \cup DOMAIN file.at
      BY <3>1 DEF Over
    <3> QED BY <3>2
  <2>2. CASE PersistState
    <3>1. snap = file
      BY <2>2, PersistedIsFresh DEF PersistState, GasInv
    <3>2. file'.at = Over(ResolveAll(Op.slots), file.at)
      BY <2>2, <3>1 DEF MinedInv, PersistState, Shaped
    <3>3. DOMAIN file'.at = DOMAIN ResolveAll(Op.slots) \cup DOMAIN file.at
      BY <3>2 DEF Over
    <3> QED BY <3>3
  <2>3. CASE CountGas
    <3>1. file'.at = file.at
      BY <2>3 DEF MinedInv, CountGas, Shaped
    <3> QED BY <3>1
  <2>4. CASE Restart
    BY <2>4 DEF Restart
  <2>5. CASE ReadState \/ CreateContract \/ CallContract \/ CompleteSetup
    BY <2>5 DEF ReadState, CreateContract, CallContract, CompleteSetup
  <2>6. CASE \/ CheckExpectation \/ AnswerYes \/ AnswerNo \/ ProposalScheduled
             \/ ProposalExecuted \/ ProposalReverted \/ FailStep \/ Finish \/ Crash
    BY <2>6 DEF CheckExpectation, AnswerYes, AnswerNo, ProposalScheduled, ProposalExecuted,
                ProposalReverted, FailStep, Finish, Crash
  <2>7. CASE UNCHANGED vars
    BY <2>7 DEF vars
  <2> QED BY <2>1, <2>2, <2>3, <2>4, <2>5, <2>6, <2>7 DEF Next, Step
<1> QED BY MinedInit, MinedStep, GasInit, GasStep, <1>1, PTL DEF Spec, EntriesKept
=============================================================================
