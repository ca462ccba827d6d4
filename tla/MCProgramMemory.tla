-------------------------- MODULE MCProgramMemory ---------------------------
(* Two line numbers and texts, two PSRAM slots, an SRAM array of one line.  *)
EXTENDS ProgramMemory, TLC
CONSTANTS a, b

MCClient == {"ProgramStore", "SdCache", "DirectState", "CompiledCache"}
MCFiles == {1 :> a, (1 :> b) @@ (2 :> a)}
=============================================================================
