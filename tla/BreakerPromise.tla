--------------------------- MODULE BreakerPromise ---------------------------
(***************************************************************************)
(* What a circuit breaker promises, in terms of the outcomes of the calls  *)
(* it let through and without counters: it opens after Failures failures   *)
(* in a row, stays open until it has cooled, and closes after Successes    *)
(* successes in a row; one failure while it is tested opens it again.      *)
(***************************************************************************)
EXTENDS Naturals, Sequences

CONSTANTS Failures, Successes

VARIABLES state,     \* closed, open, half-open
          recent,    \* the outcomes since the state was entered
          cooling    \* TRUE while an open breaker must reject

vars == <<state, recent, cooling>>

Init == state = "closed" /\ recent = <<>> /\ cooling = FALSE

EndsIn(s, outcome, n) ==
    Len(s) >= n /\ \A i \in (Len(s) - n + 1) .. Len(s) : s[i] = outcome

Enter(s) == state' = s /\ recent' = <<>>
Stay(outcomes) == recent' = outcomes /\ state' = state

Outcome(r) ==
    LET outcomes == Append(recent, r) IN
    \/ /\ state = "closed"
       /\ IF EndsIn(outcomes, "failure", Failures)
          THEN Enter("open") /\ cooling' = TRUE
          ELSE Stay(outcomes) /\ cooling' = cooling
    \/ /\ state = "half-open" /\ r = "failure"
       /\ Enter("open") /\ cooling' = TRUE
    \/ /\ state = "half-open" /\ r = "success"
       /\ IF EndsIn(outcomes, "success", Successes) THEN Enter("closed") ELSE Stay(outcomes)
       /\ cooling' = cooling

Cool == cooling /\ cooling' = FALSE /\ UNCHANGED <<state, recent>>

Probe == state = "open" /\ ~cooling /\ Enter("half-open") /\ cooling' = cooling

Next == Cool \/ Probe \/ \E r \in {"success", "failure"} : Outcome(r)

Spec == Init /\ [][Next]_vars
=============================================================================
