------------------------------ MODULE ExtraData ------------------------------
(***************************************************************************)
(* The extra data of an oracle report: exited validators by node operator, *)
(* in items, in chunks that are linked by hash.  The first half is the     *)
(* side that builds them (lib/oracle.ts), the second the checks of the     *)
(* side that takes them in (AccountingOracle).                             *)
(*                                                                         *)
(* A hash is the value hashed: keccak256 is taken to be injective.  The    *)
(* bytes of an item are the record of what AccountingOracle reads in them. *)
(***************************************************************************)
EXTENDS Integers, Sequences

CONSTANTS
  NoChunk,           \* bytes32(0) in place of the hash of a chunk
  Deposited,         \* <<module, operator>> -> its deposited validators
  KeyBase,           \* bound on module and operator ids, for the sorting key
  MaxOperators,      \* maxNodeOperatorsPerExtraDataItem
  MaxItems           \* maxItemsPerExtraDataTransaction

ASSUME DepositedAssumption == \A o \in DOMAIN Deposited : Deposited[o] \in Nat
ASSUME KeyAssumption ==
  KeyBase \in Nat /\ DOMAIN Deposited \subseteq (1 .. KeyBase - 1) \X (0 .. KeyBase - 1)
ASSUME LimitAssumption == MaxOperators \in Nat /\ MaxItems \in Nat

EXTRA_DATA_FORMAT_EMPTY == 0
EXTRA_DATA_FORMAT_LIST  == 1

EXTRA_DATA_TYPE_EXITED_VALIDATORS == 2

\* One number in the bytes of an item is the length of both lists.
ExtraItem ==
  {item \in [index : Nat, type : Nat, module : Nat, nodeOpIds : Seq(Nat), counts : Seq(Nat)] :
     Len(item.nodeOpIds) = Len(item.counts)}

-----------------------------------------------------------------------------
(* Building extra data.                                                    *)

\* encodeExtraDataItems: one item per entry of `keys', numbered in order.
EncodeItems(keys) ==
  [i \in DOMAIN keys |->
     [index |-> i - 1, type |-> EXTRA_DATA_TYPE_EXITED_VALIDATORS,
      module |-> keys[i].module, nodeOpIds |-> keys[i].nodeOpIds,
      counts |-> keys[i].counts]]

SplitIntoChunks(items, n) ==
  [k \in 1..(IF items = <<>> THEN 0 ELSE (Len(items) + n - 1) \div n) |->
     SubSeq(items, (k - 1) * n + 1, IF k * n < Len(items) THEN k * n ELSE Len(items))]

\* packExtraDataItemsToChunksLinkedByHash: each chunk names the hash of the next.
PackChunks(items, n) ==
  LET parts == SplitIntoChunks(items, n)
      packed[k \in 1..Len(parts)] ==
        [next |-> IF k = Len(parts) THEN NoChunk ELSE packed[k + 1],
         items |-> parts[k]]
  IN  packed

\* prepareExtraData: n = 0 stands for no maxItemsPerChunk.
PrepareExtraData(items, n) ==
  PackChunks(items, IF n # 0 THEN n ELSE Len(items))

-----------------------------------------------------------------------------
(* Taking it in.                                                           *)

SortingKey(type, module, operator) == (type * KeyBase + module) * KeyBase + operator

ItemKeys(item) ==
  [k \in DOMAIN item.nodeOpIds |-> SortingKey(item.type, item.module, item.nodeOpIds[k])]

LastKey(item) == ItemKeys(item)[Len(item.nodeOpIds)]

\* The operators of a chunk come in increasing order, after the last one of
\* the chunk before.
Sorted(items, lastSortingKey) ==
  \A i \in DOMAIN items :
    /\ \A k \in 2..Len(items[i].nodeOpIds) : ItemKeys(items[i])[k] > ItemKeys(items[i])[k - 1]
    /\ ItemKeys(items[i])[1] > (IF i = 1 THEN lastSortingKey ELSE LastKey(items[i - 1]))

\* _processExtraDataItems, but for the calls to the staking router.
ItemsAccepted(items, itemsProcessed, lastSortingKey) ==
  /\ items # <<>>
  /\ Len(items) <= MaxItems
  /\ \A i \in DOMAIN items :
       /\ items[i].index = itemsProcessed + i - 1
       /\ items[i].type = EXTRA_DATA_TYPE_EXITED_VALIDATORS
       /\ items[i].module # 0
       /\ items[i].nodeOpIds # <<>>
       /\ Len(items[i].nodeOpIds) <= MaxOperators
  /\ Sorted(items, lastSortingKey)

\* The operators of a list of items, with the count each is given.
Updates(items) ==
  UNION {{<<items[i].module, items[i].nodeOpIds[k], items[i].counts[k]>> :
            k \in DOMAIN items[i].nodeOpIds} : i \in DOMAIN items}

Updated(items) == {<<u[1], u[2]>> : u \in Updates(items)}

CountFor(items, o) == (CHOOSE u \in Updates(items) : u[1] = o[1] /\ u[2] = o[2])[3]
=============================================================================
