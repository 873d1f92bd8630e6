--------------------------- MODULE MCOracleDriver ---------------------------
(***************************************************************************)
(* Two modules with three operators of one or two validators, three        *)
(* members, and frames of one slot.                                        *)
(***************************************************************************)
EXTENDS OracleDriver, TLC

CONSTANTS o1, o2, o3

MCDeposited == (<<1, 0>> :> 2) @@ (<<1, 1>> :> 1) @@ (<<2, 0>> :> 1)

MCOcMember == (0 :> o1) @@ (1 :> o2) @@ (2 :> o3)

MCCommittees == {<<2, 2>>, <<3, 2>>}

MCExits == {{<<1, 0>>, <<1, 1>>}, {<<1, 0>>, <<2, 0>>}}

\* Every report the helpers can build for a reference slot of these frames.
MCRefSlots == {s \in 1..MaxSlot : (s + 1) % SlotsPerEpoch = 0}
MCCounts   == {n \in [Operators -> 0..2] : \A o \in Operators : n[o] <= Deposited[o]}
MCReports  ==
  {ConstructReport(op, s, c, PrepareExtraData(EncodeItems(c.keys), n)) :
     op \in {"report", "reportWithoutExtraData"}, s \in MCRefSlots, n \in ChunkSizes \cup {0},
     c \in UNION {Contents(byModule, r[1], r[2]) :
                  byModule \in [Modules -> 0..3],
                  r \in {p \in MCCounts \X MCCounts : \A o \in Operators : p[1][o] <= p[2][o]}}}

MCVersionOf == [h \in MCReports |-> 1]
=============================================================================
