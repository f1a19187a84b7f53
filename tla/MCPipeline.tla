----------------------------- MODULE MCPipeline -----------------------------
(***************************************************************************)
(* Five invariants for Pipeline, as in MCOrchestrator: one that goes all   *)
(* the way and one that each gate or the proof engine turns down.          *)
(***************************************************************************)
EXTENDS Pipeline

MCInvariants == {"good", "weak", "illtyped", "untimed", "secretless"}
MCTimed == MCInvariants \ {"untimed"}
MCMentionSecret == MCInvariants \ {"secretless"}
MCElaborates == MCInvariants \ {"illtyped"}
MCProvable == MCInvariants \ {"weak"}
=============================================================================
