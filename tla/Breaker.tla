------------------------------- MODULE Breaker -------------------------------
(***************************************************************************)
(* The router's pure part (packages/router/src): what a failure says about *)
(* a credential, the health row of a (credential, model) pair, and which   *)
(* pairs a request may be sent to.  Error codes stand for their class:     *)
(* UPSTREAM for NETWORK and MODEL_UNAVAILABLE, RATE_LIMIT for OVERLOADED,  *)
(* BAD_REQUEST for CONFLICT, CONTENT_FILTER and FINGERPRINT_REFUSED.       *)
(***************************************************************************)
EXTENDS Integers

CONSTANTS
    Threshold,      \* settings.breakerThreshold
    Cooldown,       \* settings.breakerCooldownMs
    CooldownCap,    \* an hour: the longest an open breaker waits
    RateLimitPark,  \* DEFAULT_RATE_LIMIT_MS, or what Retry-After said
    QuotaPark       \* QUOTA_PARK_MS

ASSUME BreakerConstants ==
    /\ Threshold \in Nat \ {0}
    /\ Cooldown \in Nat /\ CooldownCap \in Nat
    /\ RateLimitPark \in Nat /\ QuotaPark \in Nat

Codes == {"AUTH", "UPSTREAM", "TIMEOUT", "RATE_LIMIT", "QUOTA_EXHAUSTED",
          "CAPABILITY_MISMATCH", "BAD_REQUEST", "INTERNAL"}

Hard == {"AUTH", "UPSTREAM", "TIMEOUT"}
Soft == {"RATE_LIMIT", "QUOTA_EXHAUSTED"}
Retryable == Hard \cup Soft \cup {"CAPABILITY_MISMATCH"}

Never == -1     \* a null time

Blank == [state |-> "closed", failures |-> 0, openedAt |-> Never, limitedUntil |-> Never]

HealthRow == [state : {"closed", "open", "halfOpen"}, failures : Nat,
              openedAt : Nat \cup {Never}, limitedUntil : Nat \cup {Never}]

SuccessWouldChange(h) == h # Blank

RecordSuccess(h) == Blank

RecordFailure(h, code, at) ==
    CASE code \in Soft ->
            [h EXCEPT !.limitedUntil =
                at + IF code = "QUOTA_EXHAUSTED" THEN QuotaPark ELSE RateLimitPark]
      [] code \in Hard ->
            LET failures == h.failures + 1
                opens == \/ code = "AUTH"
                         \/ h.state = "halfOpen"
                         \/ failures >= Threshold
            IN  [h EXCEPT !.failures = failures,
                          !.state = IF opens THEN "open" ELSE "closed",
                          !.openedAt = IF opens THEN at ELSE @]
      [] OTHER -> h

CooldownOf(failures) ==
    LET over == IF failures > Threshold THEN failures - Threshold ELSE 0
        wait == Cooldown * 2 ^ over
    IN  IF wait < CooldownCap THEN wait ELSE CooldownCap

(* The health arm of eligible(): a rate-limited pair and an open breaker   *)
(* inside its cooldown are passed over.                                    *)
Admits(h, at) ==
    /\ h.limitedUntil <= at
    /\ h.state = "open" => at - h.openedAt >= CooldownOf(h.failures)

(* Probe territory: open past its cooldown, or already marked halfOpen. *)
IsProbe(h) == h.state # "closed"
=============================================================================
