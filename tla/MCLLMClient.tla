---------------------------- MODULE MCLLMClient ----------------------------
(* Small instances of LLMClient: a state of two samples and one of a       *)
(* single sample compete for two permits.                                  *)
EXTENDS LLMClient

MCCount == [r \in Requests |-> IF r = 1 THEN 2 ELSE 1]
============================================================================
