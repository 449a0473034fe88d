------------------------------ MODULE Kernels -------------------------------
(***************************************************************************)
(* What the kernel wrappers of crates/rllm-kernels have in common: how a   *)
(* launch answers, and the integer arithmetic of the host references.      *)
(***************************************************************************)
EXTENDS Integers

(* A build without CUDA has stubs that refuse; otherwise a non-zero code   *)
(* is an error.                                                            *)
Launch(cuda, rc) == IF ~cuda THEN "not_available" ELSE IF rc = 0 THEN "ok" ELSE "kernel_error"

Ceil(n, d) == (n + d - 1) \div d

Magnitude(n) == IF n < 0 THEN -n ELSE n

(* n / d rounded half away from zero, for d > 0.                           *)
RoundDiv(n, d) == IF n >= 0 THEN (2 * n + d) \div (2 * d) ELSE -((d - 2 * n) \div (2 * d))

Clamp(n, lo, hi) == IF n < lo THEN lo ELSE IF n > hi THEN hi ELSE n

=============================================================================
