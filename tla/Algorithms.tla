----------------------------- MODULE Algorithms ------------------------------
(***************************************************************************)
(* The functions and small objects of the system, each run as a process of *)
(* its own on the inputs the constants name: attention over pages, experts,*)
(* quantization, configurations and checkpoints (ModelRuns), tokens and    *)
(* text (TokenRuns), containers and start-up (StoreRuns).                  *)
(***************************************************************************)
EXTENDS ModelRuns, TokenRuns, StoreRuns

Init == AttentionInit \/ ModelInit \/ TokenInit \/ StoreInit

Next == AttentionNext \/ ModelNext \/ TokenNext \/ StoreNext

Spec == Init /\ [][Next]_st

=============================================================================
