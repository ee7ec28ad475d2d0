------------------------ MODULE MCSecurityDecisions ------------------------
(***************************************************************************)
(* Facts and derivations for SecurityDecisions: the tools, capabilities and   *)
(* derivations of candidate-generator.ts and search-board.ts for one target,  *)
(* and a command that the model asks for, without a capability.               *)
(***************************************************************************)
EXTENDS SecurityDecisions, TLC

Capabilities ==
  [p \in Path |-> CASE p = "nmap" -> "network-enumeration"
                    [] p \in {"httpx", "ffuf"} -> "web-enumeration"
                    [] p = "curl" -> "web-request-analysis"
                    [] OTHER -> "unknown"]

\* service-observed gives httpx and curl, http-surface gives curl and ffuf, and never the
\* tool it comes from.
Derivations ==
  [p \in Path |-> Path \cap CASE p = "httpx" -> {"curl", "ffuf"}
                              [] p = "ffuf" -> {"curl"}
                              [] p = "curl" -> {"ffuf"}
                              [] OTHER -> {"httpx", "curl"}]

Alike == Permutations(Calls)
=============================================================================
