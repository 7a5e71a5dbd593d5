----------------------------- MODULE RateLimit -----------------------------
(***************************************************************************)
(* RateLimiter: a sliding window of timestamps for every client, pruned    *)
(* when the client comes again and by a timer.                             *)
(***************************************************************************)
EXTENDS Integers, Sequences, FiniteSetsExt

CONSTANTS
    Clients,      \* X-Forwarded-For, X-Real-IP or "unknown", which clients share
    WindowMs,     \* length of the window
    MaxPerWindow  \* maxRequests

ASSUME RateLimitAssumption == WindowMs \in Nat \ {0} /\ MaxPerWindow \in Nat \ {0}

VARIABLES
    now,
    windows,  \* key -> timestamps
    allowed   \* history: when each client was let through

limiterVars == <<windows, allowed>>

\* variant: the window is a tick too short
ShortWindow(stamps) ==
    SubSeq(stamps, Cardinality({i \in DOMAIN stamps : stamps[i] <= now - WindowMs + 1}) + 1,
           Len(stamps))

Expired(stamps) == {i \in DOMAIN stamps : stamps[i] <= now - WindowMs}

\* The filter that keeps what has not expired: stamps are in the order of time,
\* so it drops a prefix.
InWindow(stamps) == SubSeq(stamps, Cardinality(Expired(stamps)) + 1, Len(stamps))

Allows(key) == Len(InWindow(windows[key])) < MaxPerWindow

\* What Retry-After says to a client that is refused, at least one second
RetryAfter(key) == Max({Head(InWindow(windows[key])) + WindowMs - now, 1})

\* check
Admit(key) ==
    /\ Allows(key)
    /\ windows' = [windows EXCEPT ![key] = Append(InWindow(@), now)]
    /\ allowed' = [allowed EXCEPT ![key] = Append(@, now)]

Refuse(key) ==
    /\ ~Allows(key)
    /\ windows' = [windows EXCEPT ![key] = InWindow(@)]
    /\ UNCHANGED allowed

Cleanup ==
    /\ windows' = [key \in Clients |-> InWindow(windows[key])]
    /\ UNCHANGED allowed

LimiterInit ==
    /\ windows = [key \in Clients |-> <<>>]
    /\ allowed = [key \in Clients |-> <<>>]

-----------------------------------------------------------------------------
(* Properties *)

\* The requests of a client that were let through after from and up to to
Within(key, from, to) == {i \in DOMAIN allowed[key] : /\ from < allowed[key][i]
                                                     /\ allowed[key][i] <= to}

\* However requests, refusals and the cleanup alternate: no client is let
\* through more often than its share in any stretch of time as long as the
\* window, and a client that is refused, and told when to come again, has had
\* its share and has a free place at that time.
LimiterIsFair ==
    \A key \in Clients :
        /\ \A i \in DOMAIN allowed[key] :
              Cardinality(Within(key, allowed[key][i] - WindowMs, allowed[key][i])) <= MaxPerWindow
        /\ ~Allows(key) =>
              /\ Cardinality(Within(key, now - WindowMs, now)) >= MaxPerWindow
              /\ Cardinality(Within(key, now + RetryAfter(key) - WindowMs, now)) < MaxPerWindow
=============================================================================
