------------------------------ MODULE Backoff ------------------------------
(***************************************************************************)
(* The retry delay of internal/tunnel/backoff.go: exponential, capped, with *)
(* full jitter.  The module is pure: the step "current" is a parameter, and *)
(* the module that retries (Manager) holds it as a variable.  Durations are *)
(* natural numbers of one unnamed tick; the code's are int64 nanoseconds,   *)
(* far from overflow at four times five minutes.                            *)
(***************************************************************************)
EXTENDS Integers

CONSTANTS Base,     \* b.base, the first step (1s in run)
          Cap,      \* b.max, the largest step (5m in run)
          Second    \* time.Second, the floor of a wait

ASSUME BackoffAssumption ==
  /\ Base \in Nat \ {0}
  /\ Cap \in Nat
  /\ Second \in Nat \ {0}
  /\ Base <= Cap

Capped(d) == IF d > Cap THEN Cap ELSE d

\* errClass
Classes == {"retryable", "fatal"}

(* The duration the jitter is drawn below: a fatal error stretches it to four *)
(* steps, still no longer than the cap.                                       *)
Ceiling(current, class) ==
  IF class = "fatal" THEN Capped(4 * current) ELSE current

(* Every wait Next can return for a given step: a draw in [0, ceiling), raised *)
(* to one second.                                                              *)
Waits(current, class) ==
  { IF r < Second THEN Second ELSE r : r \in 0 .. Ceiling(current, class) - 1 }

\* Variant: the step without its cap.
AdvanceUncapped(current) == 2 * current

\* The step Next leaves behind.
Advance(current) == Capped(2 * current)
=============================================================================
