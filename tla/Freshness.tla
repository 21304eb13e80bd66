----------------------------- MODULE Freshness ------------------------------
(***************************************************************************)
(* FreshnessMonitor: which subscriptions have not been heard for too long, *)
(* and when that is said again.  evaluate() does not suspend, so a call is *)
(* one step; it may be made at any time, also long after the moment at     *)
(* which a subscription became stale, and for any state of the connection. *)
(***************************************************************************)
EXTENDS Clock, Sequences

CONSTANTS
    Tickers,        \* subscriptions with a threshold
    Trades,         \* subscriptions that may be quiet while the stream is up
    Threshold,      \* ticker_threshold_seconds, in ticks
    Reminder,       \* reminder_seconds, in ticks
    MaxLag,         \* bound: ticks between receiving a frame and recording it
    Never           \* a time that has not come

ASSUME FreshnessAssumption ==
    /\ Tickers \intersect Trades = {}
    /\ Threshold \in Nat /\ MaxLag \in Nat /\ Reminder \in Nat \ {0} /\ Never \notin Int

VARIABLES
    tracked,        \* _states, by subscription
    alerts          \* the times of a subscription's alerts since it was last heard:
                    \* history only

freshnessVars == <<now, tracked, alerts>>

Subscriptions == Tickers \union Trades
Times == Nat \union {Never}
State == [registered : Nat, valid : Times, episode : Times, emitted : Times, reminders : Nat]
NewState ==
    [registered |-> now, valid |-> Never, episode |-> Never, emitted |-> Never, reminders |-> 0]

FreshnessInit ==
    /\ now = 0 /\ tracked = [s \in {} |-> NewState]
    /\ alerts = [s \in Subscriptions |-> <<>>]

Track(s, state) ==
    [t \in DOMAIN tracked \union {s} |-> IF t = s THEN state ELSE tracked[t]]

Register(s) ==
    /\ s \notin DOMAIN tracked
    /\ tracked' = Track(s, NewState)
    /\ UNCHANGED <<now, alerts>>

Unregister(s) ==
    /\ tracked' = [t \in DOMAIN tracked \ {s} |-> tracked[t]]
    /\ alerts' = [alerts EXCEPT ![s] = <<>>]
    /\ UNCHANGED now

\* Mutant of Heard: the alert of the ended episode is not forgotten.
HeardEmitted(state, received) == [state EXCEPT !.valid = received, !.episode = Never, !.reminders = 0]

Heard(state, received) ==
    [state EXCEPT !.valid = received, !.episode = Never, !.emitted = Never, !.reminders = 0]

\* Frames arrive in order and are looked at some time after they were received.
RecordValid(s) ==
    LET state == IF s \in DOMAIN tracked THEN tracked[s] ELSE NewState
    IN  /\ \E received \in 0..now :
             /\ received >= now - MaxLag
             /\ state.valid # Never => received >= state.valid
             /\ tracked' = Track(s, Heard(state, received))
        /\ alerts' = [alerts EXCEPT ![s] = <<>>]
        /\ UNCHANGED now

-----------------------------------------------------------------------------
Age(s) == now - (IF tracked[s].valid = Never THEN tracked[s].registered ELSE tracked[s].valid)

\* Without a connection every subscription is stale, a quiet one too.
Stale(s, streaming) == streaming => s \in Tickers /\ Age(s) > Threshold

\* Mutant of Due: reminders are counted from the start of the episode.
DueSinceEpisode(s) ==
    tracked[s].emitted = Never \/ now - tracked[s].episode >= Reminder

Due(s) == tracked[s].emitted = Never \/ now - tracked[s].emitted >= Reminder

Emitted(state) ==
    [state EXCEPT !.episode = IF state.emitted = Never THEN now ELSE @,
                  !.reminders = IF state.emitted = Never THEN @ ELSE @ + 1,
                  !.emitted = now]

Evaluate(streaming) ==
    LET reported == {s \in DOMAIN tracked : Stale(s, streaming) /\ Due(s)}
    IN  /\ tracked' = [s \in DOMAIN tracked |->
                         IF s \in reported THEN Emitted(tracked[s]) ELSE tracked[s]]
        /\ alerts' = [s \in Subscriptions |->
                         IF s \in reported THEN Append(alerts[s], now) ELSE alerts[s]]
        /\ UNCHANGED now

FreshnessStep ==
    \/ \E s \in Subscriptions : Register(s) \/ Unregister(s) \/ RecordValid(s)
    \/ \E streaming \in BOOLEAN : Evaluate(streaming)

FreshnessNext == FreshnessStep \/ (Tick /\ UNCHANGED <<tracked, alerts>>)

FreshnessSpec == FreshnessInit /\ [][FreshnessNext]_freshnessVars

-----------------------------------------------------------------------------
\* Since a subscription was last heard, its alerts began with the episode, each
\* was at least the reminder interval after the one before, and each but the
\* first was counted, so that no two carry the same identifier.
EpisodeAlerts ==
    \A s \in DOMAIN tracked :
        /\ alerts[s] = <<>> <=> tracked[s].episode = Never
        /\ alerts[s] # <<>> =>
             /\ Head(alerts[s]) = tracked[s].episode
             /\ tracked[s].reminders = Len(alerts[s]) - 1
        /\ \A i, j \in DOMAIN alerts[s] : i < j => alerts[s][j] - alerts[s][i] >= Reminder

\* "Emit one stale event per episode plus controlled reminders": whenever the
\* monitor is asked, each subscription that is stale has been reported within
\* the reminder interval and since it was last heard, so that an episode that
\* has ended silences no other; and it has not been reported more often.
StaleIsHeard ==
    /\ []EpisodeAlerts
    /\ [][\A streaming \in BOOLEAN : Evaluate(streaming) =>
            \A s \in DOMAIN tracked : Stale(s, streaming) =>
               alerts'[s] # <<>> /\ now - alerts'[s][Len(alerts'[s])] < Reminder]_freshnessVars
=============================================================================
