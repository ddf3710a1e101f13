----------------------------- MODULE RateLimit -----------------------------
(***************************************************************************)
(* The guard in front of every route: one counter in Redis per route,       *)
(* address and window of time.  The clock is read to name the counter, INCR *)
(* follows when Redis gets to it, and EXPIRE is a command of its own: the   *)
(* window may end, and the process die, between any two of them.  The model *)
(* follows one route and one address: different ones share no key.          *)
(***************************************************************************)
EXTENDS Common, Naturals, FiniteSets

CONSTANTS
    Callers,     \* requests from the address that the guard handles at once
    Limit,       \* requests let through in a window
    WindowSec,   \* seconds in a window
    MaxWindow,   \* the last window of the model (a bound)
    MaxCalls     \* calls in a window (a bound)

ASSUME LimitType  == Limit \in Nat /\ WindowSec \in Nat \ {0}
ASSUME CallsBound == MaxWindow \in Nat /\ MaxCalls \in Nat
ASSUME CallerType == IsFiniteSet(Callers)

VARIABLES
    win, sec,  \* the clock: the number of the window, and the second within it
    count,     \* count[k]: the value of key k, 0 when there is no such key
    ttl,       \* ttl[k]: when the key goes, if EXPIRE has reached it
    guard,     \* guard[c]: the local state of the guard for each caller
    gone,      \* history: the keys that have expired, once at least
    calls,     \* history: calls made in each window
    passed     \* history: calls let through that a key had counted before it first expired

lvars == <<win, sec, count, ttl, guard, gone, calls, passed>>

Windows   == 0..MaxWindow
Deadlines == [win : Nat, sec : 0..(WindowSec - 1)]
GuardRows == [pc : {"idle", "count", "expire", "decide"}, at : Windows, n : Nat, again : BOOLEAN]
IdleGuard == [pc |-> "idle", at |-> 0, n |-> 0, again |-> FALSE]

RateLimitTypeOK ==
    /\ win \in Windows /\ sec \in 0..(WindowSec - 1)
    /\ count \in [Windows -> Nat]
    /\ ttl \in [Windows -> Deadlines \cup {None}]
    /\ guard \in [Callers -> GuardRows]
    /\ gone \subseteq Windows
    /\ calls \in [Windows -> Nat]
    /\ passed \in [Windows -> Nat]

RateLimitInit ==
    /\ win = 0 /\ sec = 0
    /\ count = [k \in Windows |-> 0]
    /\ ttl = [k \in Windows |-> None]
    /\ guard = [c \in Callers |-> IdleGuard]
    /\ gone = {}
    /\ calls = [k \in Windows |-> 0]
    /\ passed = [k \in Windows |-> 0]

\* Mutant: the key does not name the window.
KeyForEver(w) == 0

\* The key of a window: Math.floor(now / windowSec).
Key(w) == w

\* A call: the clock is read, and INCR is on its way to Redis.
Stamp(c) ==
    /\ guard[c].pc = "idle"
    /\ calls[win] < MaxCalls
    /\ guard' = [guard EXCEPT ![c] = [IdleGuard EXCEPT !.pc = "count", !.at = win]]
    /\ calls' = [calls EXCEPT ![win] = @ + 1]
    /\ UNCHANGED <<win, sec, count, ttl, gone, passed>>

\* INCR, in whatever window, and whether it has made the key.
Incr(c) ==
    LET k == Key(guard[c].at)
        n == count[k] + 1
    IN
    /\ guard[c].pc = "count"
    /\ count' = [count EXCEPT ![k] = n]
    /\ guard' = [guard EXCEPT ![c] =
                   [pc |-> IF n = 1 THEN "expire" ELSE "decide", at |-> guard[c].at,
                    n |-> n, again |-> k \in gone]]
    /\ UNCHANGED <<win, sec, ttl, gone, calls, passed>>

\* Mutant: the key goes with the second in which it was made.
ExpireNow(c) ==
    LET k == Key(guard[c].at) IN
    /\ guard[c].pc = "expire"
    /\ ttl' = IF count[k] = 0 THEN ttl
              ELSE [ttl EXCEPT ![k] = [win |-> win, sec |-> sec]]
    /\ guard' = [guard EXCEPT ![c] = [@ EXCEPT !.pc = "decide"]]
    /\ UNCHANGED <<win, sec, count, gone, calls, passed>>

\* EXPIRE: a whole window from now.  It does nothing to a key that is not there.
Expire(c) ==
    LET k == Key(guard[c].at) IN
    /\ guard[c].pc = "expire"
    /\ ttl' = IF count[k] = 0 THEN ttl
              ELSE [ttl EXCEPT ![k] = [win |-> win + 1, sec |-> sec]]
    /\ guard' = [guard EXCEPT ![c] = [@ EXCEPT !.pc = "decide"]]
    /\ UNCHANGED <<win, sec, count, gone, calls, passed>>

Pass(c) ==
    /\ guard[c].pc = "decide"
    /\ guard[c].n <= Limit
    /\ passed' = [passed EXCEPT ![Key(guard[c].at)] = IF guard[c].again THEN @ ELSE @ + 1]
    /\ guard' = [guard EXCEPT ![c] = IdleGuard]
    /\ UNCHANGED <<win, sec, count, ttl, gone, calls>>

\* 429.
Refuse(c) ==
    /\ guard[c].pc = "decide"
    /\ guard[c].n > Limit
    /\ guard' = [guard EXCEPT ![c] = IdleGuard]
    /\ UNCHANGED <<win, sec, count, ttl, gone, calls, passed>>

\* Redis drops a key whose time has come.
Due(k) == /\ ttl[k] # None
          /\ \/ win > ttl[k].win
             \/ win = ttl[k].win /\ sec >= ttl[k].sec

KeyGone(k) ==
    /\ Due(k)
    /\ count' = [count EXCEPT ![k] = 0]
    /\ ttl' = [ttl EXCEPT ![k] = None]
    /\ gone' = gone \cup {k}
    /\ UNCHANGED <<win, sec, guard, calls, passed>>

Second ==
    /\ IF sec + 1 < WindowSec THEN win' = win /\ sec' = sec + 1
                              ELSE win' = win + 1 /\ sec' = 0
    /\ win' \in Windows
    /\ UNCHANGED <<count, ttl, guard, gone, calls, passed>>

\* The process dies, whatever its guards were about to do; Redis goes on.
Crash ==
    /\ Faults
    /\ guard' = [c \in Callers |-> IdleGuard]
    /\ UNCHANGED <<win, sec, count, ttl, gone, calls, passed>>

RateLimitNext ==
    \/ \E c \in Callers : Stamp(c) \/ Incr(c) \/ Expire(c) \/ Pass(c) \/ Refuse(c)
    \/ \E k \in Windows : KeyGone(k)
    \/ Second
    \/ Crash

RateLimitSpec == RateLimitInit /\ [][RateLimitNext]_lvars

-----------------------------------------------------------------------------
(* Safety.                                                                 *)

\* A key outlives its window, and of the calls it counts no more than Limit are let
\* through, however the guards overlap, and even across a restart (rate-limit.guard.ts
\* 44-57).  Not limited is a call of the window whose INCR reaches Redis only after
\* the key has expired, in a later window: it makes the key anew.
WithinLimit ==
    \A k \in Windows : passed[k] <= Limit /\ (k \in gone => k < win)

\* An address is refused only for a window in which it has made more calls than the
\* limit: neither earlier windows, nor INCRs that come late, nor a key that never
\* expires, because the process died before EXPIRE (48-50), can lock it out.
NeverLockedOut ==
    [][\A c \in Callers :
          /\ guard[c].pc = "count" /\ guard'[c].pc \in {"expire", "decide"} /\ guard'[c].n > Limit
          => calls[guard[c].at] > Limit]_lvars
=============================================================================
