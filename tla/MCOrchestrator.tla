--------------------------- MODULE MCOrchestrator ---------------------------
(***************************************************************************)
(* Six invariants for Orchestrator: two that go all the way, and one that  *)
(* each gate or the proof engine turns down.                               *)
(***************************************************************************)
EXTENDS Orchestrator

MCInvariants == {"good", "other", "weak", "illtyped", "untimed", "secretless"}
MCTimed == MCInvariants \ {"untimed"}
MCMentionSecret == MCInvariants \ {"secretless"}
MCElaborates == MCInvariants \ {"illtyped"}
MCProvable == MCInvariants \ {"weak"}
=============================================================================
