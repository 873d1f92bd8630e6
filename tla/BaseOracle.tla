----------------------------- MODULE BaseOracle -----------------------------
(***************************************************************************)
(* BaseOracle (contracts/0.8.9/oracle), the report processor under         *)
(* AccountingOracle and ValidatorsExitBusOracle: it stores the report      *)
(* HashConsensus pushes and remembers the last one whose processing began. *)
(* Several processors exist when HashConsensus is moved from one to        *)
(* another; each is an element of Processors.                              *)
(*                                                                         *)
(* Time is the slot number: blocks are made at slot times.                 *)
(***************************************************************************)
EXTENDS Integers

CONSTANTS
  Processors,   \* report processor contracts
  Hashes,       \* report hashes
  ZeroHash,     \* bytes32(0)
  Versions,     \* consensus versions
  VersionOf,    \* hash -> the consensusVersion field of the data behind it
  MaxSlot       \* bound on time

ASSUME HashAssumption == ZeroHash \notin Hashes /\ VersionOf \in [Hashes -> Versions]
ASSUME SlotAssumption == MaxSlot \in Nat

VARIABLES
  consensusReport,        \* processor -> ConsensusReport
  lastProcessingRefSlot,  \* processor -> LAST_PROCESSING_REF_SLOT
  consensusVersion,       \* processor -> CONSENSUS_VERSION
  slot                    \* environment: the current slot

oracleVars == <<consensusReport, lastProcessingRefSlot, consensusVersion>>

Slots == 0..MaxSlot

\* A deadline is the end of a frame and may lie beyond the slots explored.
ConsensusReport ==
  [hash : Hashes \cup {ZeroHash}, refSlot : Slots, processingDeadline : Nat]

-----------------------------------------------------------------------------
(* Calls from HashConsensus, one transaction with its step.                *)

SubmitConsensusReport(p, hash, refSlot, deadline) ==
  /\ refSlot >= consensusReport[p].refSlot     \* else RefSlotCannotDecrease
  /\ refSlot > lastProcessingRefSlot[p]        \* else RefSlotMustBeGreaterThanProcessingOne
  /\ slot <= deadline                          \* else ProcessingDeadlineMissed
  /\ hash # ZeroHash
  /\ consensusReport' = [consensusReport EXCEPT ![p] =
       [hash |-> hash, refSlot |-> refSlot, processingDeadline |-> deadline]]

DiscardConsensusReport(p, refSlot) ==
  /\ refSlot >= consensusReport[p].refSlot     \* else RefSlotCannotDecrease
  /\ IF refSlot > consensusReport[p].refSlot
     THEN UNCHANGED consensusReport
     ELSE /\ refSlot > lastProcessingRefSlot[p]    \* else RefSlotAlreadyProcessing
          /\ consensusReport' = [consensusReport EXCEPT ![p].hash = ZeroHash]

-----------------------------------------------------------------------------
(* The processor's own steps.                                              *)

\* submitReportData: the data behind `hash' passes _checkConsensusData, and
\* _startProcessing marks the report as being processed.
StartProcessing(p, hash) ==
  LET report == consensusReport[p]
  IN  /\ report.hash # ZeroHash
      /\ hash = report.hash
      /\ VersionOf[hash] = consensusVersion[p]
      /\ slot <= report.processingDeadline
      /\ lastProcessingRefSlot[p] # report.refSlot
      /\ lastProcessingRefSlot' = [lastProcessingRefSlot EXCEPT ![p] = report.refSlot]
      /\ UNCHANGED <<consensusReport, consensusVersion>>

SetConsensusVersion(p, version) ==
  /\ version # consensusVersion[p]
  /\ consensusVersion' = [consensusVersion EXCEPT ![p] = version]
  /\ UNCHANGED <<consensusReport, lastProcessingRefSlot>>

\* _initialize with lastProcessingRefSlot 0.
OracleInit ==
  /\ consensusReport = [p \in Processors |->
       [hash |-> ZeroHash, refSlot |-> 0, processingDeadline |-> 0]]
  /\ lastProcessingRefSlot = [p \in Processors |-> 0]
  /\ consensusVersion \in [Processors -> Versions]

OracleTypeOK ==
  /\ consensusReport \in [Processors -> ConsensusReport]
  /\ lastProcessingRefSlot \in [Processors -> Slots]
  /\ consensusVersion \in [Processors -> Versions]
  /\ slot \in Slots
=============================================================================
