----------------------------- MODULE RateLimiter -----------------------------
(***************************************************************************)
(* internal/ratelimit: a counter in Redis for each principal and window.   *)
(* The counter's name holds the time of day at which the window begins, so *)
(* the same name comes back a day later; INCR and EXPIRE are two commands. *)
(***************************************************************************)
EXTENDS Integers

CONSTANTS
    Limit,     \* rate_limit_per_min
    Window,    \* Limiter.window, in ticks
    Day        \* the ticks of a day

ASSUME LimiterAssumption ==
    /\ Limit \in Nat /\ Window \in Nat \ {0} /\ Day \in Nat
    /\ Day % Window = 0 /\ Day >= 2 * Window

VARIABLE counters   \* Redis: by name, [n, expires]

Never == -1

\* The start of the window, formatted as a time of day.
Bucket(key, t) == <<key, ((t \div Window) * Window) % Day>>

LimiterInit == counters = <<>>

Put(b, c) == [i \in DOMAIN counters \cup {b} |-> IF i = b THEN c ELSE counters[i]]

After1(b) == IF b \in DOMAIN counters THEN counters[b].n + 1 ELSE 1

Incr(b) ==
    counters' = Put(b, [n |-> After1(b),
                        expires |-> IF b \in DOMAIN counters THEN counters[b].expires
                                    ELSE Never])

\* Mutant: the counter lives for less than its window.
ExpireEarly(b, t) ==
    counters' = IF b \in DOMAIN counters
                THEN Put(b, [counters[b] EXCEPT !.expires = t + Window - 1])
                ELSE counters

Expire(b, t) ==
    counters' = IF b \in DOMAIN counters
                THEN Put(b, [counters[b] EXCEPT !.expires = t + Window])
                ELSE counters

\* The clock reaches t.
Evict(t) ==
    counters' = [b \in {i \in DOMAIN counters : counters[i].expires \notin 0..t}
                    |-> counters[b]]

Allowed(n) == n <= Limit
=============================================================================
