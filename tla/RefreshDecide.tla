---------------------------- MODULE RefreshDecide ----------------------------
(***************************************************************************)
(* The rule of internal/refresh/decide.go: what to do with a presented     *)
(* refresh token.  A pure function of what the database knows about the    *)
(* token, the instant and the grace window.  Instants are naturals.        *)
(***************************************************************************)
EXTENDS Integers

\* refresh_tokens.revoked_at IS NULL: the token has not been consumed.
NotRevoked == -1

Decision == {"Accept", "RejectUnknown", "RejectExpired", "RejectRevoked",
             "ReuseDetected"}

\* refresh.State: what the database knows about a presented token.
StateOf(found, expiresAt, revokedAt, familyActive) ==
    [found |-> found, expiresAt |-> expiresAt, revokedAt |-> revokedAt,
     familyActive |-> familyActive]

\* A token expiring exactly now is expired (Not Before).
Expired(expiresAt, now) == now >= expiresAt

\* Mutant of Decide: revocation is a boolean, the grace window never ends.
DecideGraceUnbounded(state, now, grace) ==
    IF ~state.found THEN "RejectUnknown"
    ELSE IF Expired(state.expiresAt, now) THEN "RejectExpired"
    ELSE IF state.revokedAt # NotRevoked /\ ~state.familyActive
         THEN "RejectRevoked"
    ELSE "Accept"

\* Mutant of Decide: the grace window applies to a dead family too.
DecideGraceRevives(state, now, grace) ==
    IF ~state.found THEN "RejectUnknown"
    ELSE IF Expired(state.expiresAt, now) THEN "RejectExpired"
    ELSE IF state.revokedAt = NotRevoked \/ now - state.revokedAt <= grace
         THEN "Accept"
    ELSE IF state.familyActive THEN "ReuseDetected" ELSE "RejectRevoked"

\* The checks in the order Decide makes them; the order is part of the rule.
Decide(state, now, grace) ==
    IF ~state.found THEN "RejectUnknown"
    ELSE IF Expired(state.expiresAt, now) THEN "RejectExpired"
    ELSE IF state.revokedAt = NotRevoked THEN "Accept"
    ELSE IF ~state.familyActive THEN "RejectRevoked"
    ELSE IF now - state.revokedAt <= grace THEN "Accept"
    ELSE "ReuseDetected"

=============================================================================
