----------------------------- MODULE RestCooldown -----------------------------
(***************************************************************************)
(* BinanceRateLimitCoordinator and the requests BinanceSpotRestAdapter     *)
(* makes through it: acquire(), the HTTP request in a worker thread, and   *)
(* observe_response().  Requests of several callers overlap, so an answer  *)
(* can report a limit to a coordinator that is already in cooldown.        *)
(* Weights and attempt counters are only observed and are left out.        *)
(***************************************************************************)
EXTENDS Clock

CONSTANTS
    Callers,          \* coroutines that make requests
    DefaultCooldown,  \* _default_retry_after_seconds, in ticks
    DefaultBan,       \* _default_ban_seconds, in ticks
    RetryAfters,      \* values of the Retry-After header
    None              \* no block, no header

ASSUME CooldownAssumption ==
    /\ DefaultCooldown \in Nat /\ DefaultBan \in Nat
    /\ RetryAfters \subseteq Int /\ None \notin Int

VARIABLES
    blockedUntil,   \* _blocked_until
    blockedStatus,  \* _blocked_status_code
    request,        \* per caller: "none", or "sent" until it is answered
    owed            \* the latest end of a pause the provider ever asked for: history only

cooldownVars == <<now, blockedUntil, blockedStatus, request, owed>>

Statuses == {200, 429, 418, 503}

CooldownTypeOK ==
    /\ now \in Nat
    /\ blockedUntil \in Nat \union {None}
    /\ blockedStatus \in {None, 429, 418}
    /\ blockedUntil = None <=> blockedStatus = None
    /\ request \in [Callers -> {"none", "sent"}]
    /\ owed \in Nat

CooldownInit ==
    /\ now = 0 /\ blockedUntil = None /\ blockedStatus = None
    /\ request = [c \in Callers |-> "none"] /\ owed = 0

Blocked == blockedUntil # None /\ now < blockedUntil

\* acquire(): refused while the cooldown lasts; the first call after it clears
\* it.  The request leaves without another suspension.
Acquire(c) ==
    /\ request[c] = "none"
    /\ ~Blocked
    /\ blockedUntil' = None /\ blockedStatus' = None
    /\ request' = [request EXCEPT ![c] = "sent"]
    /\ UNCHANGED <<now, owed>>

\* RateLimitBlockedError: the caller gets the end of the cooldown, no state changes.
Refused(c) == request[c] = "none" /\ Blocked /\ UNCHANGED cooldownVars

\* _parse_retry_after(): an absent or unreadable header gives the default of
\* the status, a negative delay counts as none.
Cooldown(status, header) ==
    IF header # None THEN IF header > 0 THEN header ELSE 0
    ELSE IF status = 418 THEN DefaultBan ELSE DefaultCooldown

\* Mutant of Observe: the answer that comes last decides.
ObserveLatest(status, until) ==
    IF status \in {429, 418}
    THEN blockedUntil' = until /\ blockedStatus' = status
    ELSE UNCHANGED <<blockedUntil, blockedStatus>>

\* observe_response(): only a later end replaces the one in force.
Observe(status, until) ==
    IF status \in {429, 418} /\ (blockedUntil = None \/ until > blockedUntil)
    THEN blockedUntil' = until /\ blockedStatus' = status
    ELSE UNCHANGED <<blockedUntil, blockedStatus>>

Answer(c, status, header) ==
    LET until == now + Cooldown(status, header)
    IN  /\ request[c] = "sent"
        /\ Observe(status, until)
        /\ owed' = IF status \in {429, 418} /\ until > owed THEN until ELSE owed
        /\ request' = [request EXCEPT ![c] = "none"]
        /\ UNCHANGED now

\* The transport raises: no response is observed.
Unanswered(c) ==
    /\ request[c] = "sent"
    /\ request' = [request EXCEPT ![c] = "none"]
    /\ UNCHANGED <<now, blockedUntil, blockedStatus, owed>>

CooldownNext ==
    \/ Tick /\ UNCHANGED <<blockedUntil, blockedStatus, request, owed>>
    \/ \E c \in Callers :
          \/ Acquire(c) \/ Refused(c) \/ Unanswered(c)
          \/ \E s \in Statuses, h \in RetryAfters \union {None} : Answer(c, s, h)

CooldownSpec == CooldownInit /\ [][CooldownNext]_cooldownVars

-----------------------------------------------------------------------------
(* Properties *)

\* No request leaves before the end of every pause the provider has asked for,
\* in whatever order the answers of overlapping requests came in.
BanRespected == [][\A c \in Callers : Acquire(c) => now >= owed]_cooldownVars

\* The coordinator does not pause for longer than it was told to.
BlockIsOwed == Blocked => blockedUntil = owed
=============================================================================
