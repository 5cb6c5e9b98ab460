---------------------------- MODULE MCRateLimiter ----------------------------
(***************************************************************************)
(* Instances of RateLimiter: one key of each use, a clock that crosses     *)
(* every window, and two callers in flight.                               *)
(***************************************************************************)
EXTENDS RateLimiter, TLC

CONSTANTS forgot, login, resend, r1, r2

Empty == {}
ForgotKey == {forgot}
LoginKey == {login}
ResendKey == {resend}
TwoCallers == {r1, r2}

(* A guarded key is tried twice in a window that is no whole number of     *)
(* seconds; the others once in a shorter one.                              *)
Limits == [k \in Key |-> IF k \in GuardedKeys THEN 2 ELSE 1]
TickWindow == [k \in Key |-> IF k \in GuardedKeys THEN 5 ELSE 3]

Symmetry == Permutations(Caller)
=============================================================================
