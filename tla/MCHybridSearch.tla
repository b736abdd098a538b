--------------------------- MODULE MCHybridSearch ---------------------------
(* Small instances of HybridSearch.                                        *)
EXTENDS HybridSearch, TLC

CONSTANTS s0, s1, s2, s3, s4, s5, a, b, bounds

(* A diamond whose cheap way to s2 is the long one, so that s2 is reached  *)
(* again at a lower g.  The goal s3 lies beyond it at real cost 3, and     *)
(* also beyond s4, which violates the global constraint; s5 is a dead end. *)
DiamondStates == {s0, s1, s2, s3, s4, s5}
DiamondOps == {a, b}
Diamond == (<<s0, a>> :> s1) @@ (<<s0, b>> :> s2) @@ (<<s1, a>> :> s2)
           @@ (<<s1, b>> :> s4) @@ (<<s2, a>> :> s3) @@ (<<s2, b>> :> s5)
           @@ (<<s4, a>> :> s3)
DiamondCost == (a :> 1) @@ (b :> 3)

(* cost_type=one.                                                          *)
UnitCost == (a :> 1) @@ (b :> 1)

AllModes == [llm : {"http"}, skip : BOOLEAN, reopen : BOOLEAN,
             initial : {TRUE}, bound : bounds]
            \cup [llm : {"off", "log"}, skip : {TRUE}, reopen : BOOLEAN,
                  initial : {FALSE}, bound : bounds]
FormalModes == [llm : {"http"}, skip : {FALSE}, reopen : {FALSE},
                initial : {FALSE}, bound : bounds]
============================================================================
