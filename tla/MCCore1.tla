------------------------------ MODULE MCCore1 ------------------------------
(* Two stack contexts, so that a stale one can be told from the live one,  *)
(* the two listener lifecycles a network pass can contain, and two records *)
(* decoded in one foreground pass.                                         *)
EXTENDS Core1

CONSTANTS j1, j2

MCJobs == {j1, j2}
=============================================================================
