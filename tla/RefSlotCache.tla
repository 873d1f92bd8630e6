---------------------------- MODULE RefSlotCache ----------------------------
(***************************************************************************)
(* contracts/0.8.25/vaults/lib/RefSlotCache.sol: a value that remembers    *)
(* what it was at the last reference slot, or at the last two.  A cache is *)
(* a record; `refSlot' is the reference slot of HashConsensus at the call. *)
(***************************************************************************)
EXTENDS Integers, Sequences

WithNewValue(cache, refSlot, increment) ==      \* faulty: forgets the value so far
  IF cache.refSlot # refSlot
  THEN [value |-> increment, valueOnRefSlot |-> cache.value, refSlot |-> refSlot]
  ELSE [cache EXCEPT !.value = @ + increment]

\* RefSlotCache.Uint104WithCache: the first change after a reference slot keeps
\* the value that held at it.
WithValueIncrease(cache, refSlot, increment) ==
  IF cache.refSlot # refSlot
  THEN [value |-> cache.value + increment, valueOnRefSlot |-> cache.value,
        refSlot |-> refSlot]
  ELSE [cache EXCEPT !.value = @ + increment]

ValueForLastRefSlot(cache, refSlot) ==
  IF cache.refSlot # refSlot THEN cache.value ELSE cache.valueOnRefSlot

-----------------------------------------------------------------------------
(* DoubleRefSlotCache: two of them, of which the one of the later slot is  *)
(* active; the other keeps the slot before it in which the value changed.  *)

InitialDoubleCache(v) ==
  <<[value |-> v, valueOnRefSlot |-> 0, refSlot |-> 0],
    [value |-> 0, valueOnRefSlot |-> 0, refSlot |-> 0]>>

ActiveIndex(caches) == IF caches[1].refSlot >= caches[2].refSlot THEN 1 ELSE 2
Active(caches)   == caches[ActiveIndex(caches)]
Previous(caches) == caches[3 - ActiveIndex(caches)]
CurrentValue(caches) == Active(caches).value

WithDoubleIncrease(caches, refSlot, increment) ==
  IF Active(caches).refSlot # refSlot
  THEN [caches EXCEPT ![3 - ActiveIndex(caches)] =
          [value          |-> CurrentValue(caches) + increment,
           valueOnRefSlot |-> CurrentValue(caches),
           refSlot        |-> refSlot]]
  ELSE [caches EXCEPT ![ActiveIndex(caches)].value = @ + increment]

\* getValueForRefSlot reverts with InOutDeltaCacheIsOverwritten otherwise.
HasValueForRefSlot(caches, refSlot) == refSlot >= Previous(caches).refSlot

ValueOfActive(caches, refSlot) ==     \* faulty: has no use for the older slot
  IF refSlot > Active(caches).refSlot THEN CurrentValue(caches)
  ELSE Active(caches).valueOnRefSlot

ValueForRefSlot(caches, refSlot) ==
  CASE refSlot > Active(caches).refSlot   -> CurrentValue(caches)
    [] refSlot <= Active(caches).refSlot /\ refSlot > Previous(caches).refSlot
                                          -> Active(caches).valueOnRefSlot
    [] OTHER                              -> Previous(caches).valueOnRefSlot
=============================================================================
