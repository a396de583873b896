----------------------------- MODULE RateLimiter ------------------------------
(***************************************************************************)
(* RedisRateLimiter.consume for one key, with the in-memory limiter of     *)
(* each API process to fall back on.  The counter lives in Redis, which    *)
(* may fail between two commands of one request; so may the process.       *)
(***************************************************************************)
EXTENDS Naturals, FiniteSets

CONSTANTS
  Slots,         \* requests in flight at once
  Processes,
  Limit, Window, \* of the key, positive numbers
  FallbackLimit, \* 5 in the code
  MaxRequests, MaxTime

ASSUME LimiterConstants ==
  /\ {Limit, Window, FallbackLimit, MaxRequests, MaxTime} \subseteq Nat \ {0}
  /\ IsFiniteSet(Slots) /\ "redis" \notin Processes

VARIABLES
  now,
  up,       \* Redis answers
  key,      \* [count, expires]: the counter in Redis; expires 0 is a key without expiry
  counter,  \* [count, resetAt] of the in-memory limiter of each process
  slot,     \* each request: where it is, its process, the count it was given and when
  admitted, \* how many were let through, by whom, of those that were counted up to each tick
  sent      \* requests sent so far

limiterVars == <<now, up, key, counter, slot, admitted, sent>>

NoKey == [count |-> 0, expires |-> 0]
NoEntry == [count |-> 0, resetAt |-> 0]
Free == [pc |-> "free", process |-> CHOOSE p \in Processes : TRUE, n |-> 0, at |-> 0]
Counters == {"redis"} \cup Processes
NoneYet == [t \in 0..MaxTime |-> 0]
LimiterInit ==
  /\ now = 1 /\ up = TRUE /\ key = NoKey /\ sent = 0
  /\ admitted = [who \in Counters |-> NoneYet]
  /\ counter = [p \in Processes |-> NoEntry]
  /\ slot = [s \in Slots |-> Free]

Smaller(a, b) == IF a < b THEN a ELSE b
Admitted(at, by) ==
  admitted' = [admitted EXCEPT ![by] = [t \in 0..MaxTime |-> IF t >= at THEN @[t] + 1 ELSE @[t]]]
-----------------------------------------------------------------------------
Ask(s, p) ==
  /\ slot[s].pc = "free" /\ sent < MaxRequests
  /\ sent' = sent + 1
  /\ slot' = [slot EXCEPT ![s] = [Free EXCEPT !.pc = "incr", !.process = p]]
  /\ UNCHANGED <<now, up, key, counter, admitted>>

Incr(s) ==
  /\ slot[s].pc = "incr" /\ up
  /\ key' = [key EXCEPT !.count = @ + 1]
  /\ slot' = [slot EXCEPT ![s] = [pc |-> IF key.count = 0 THEN "pexpire" ELSE "decide",
                                   process |-> @.process, n |-> key.count + 1, at |-> now]]
  /\ UNCHANGED <<now, up, counter, admitted, sent>>

PExpire(s) ==
  /\ slot[s].pc = "pexpire" /\ up
  /\ key' = IF key.count = 0 THEN key ELSE [key EXCEPT !.expires = now + Window]
  /\ slot' = [slot EXCEPT ![s].pc = "decide"]
  /\ UNCHANGED <<now, up, counter, admitted, sent>>

WithinLimit(n) == n <= Limit
\* A request over the limit asks for the time to live before it is refused.
Decide(s) ==
  /\ slot[s].pc = "decide"
  /\ IF WithinLimit(slot[s].n)
     THEN Admitted(slot[s].at, "redis") /\ slot' = [slot EXCEPT ![s] = Free]
     ELSE slot' = [slot EXCEPT ![s].pc = "pttl"] /\ UNCHANGED admitted
  /\ UNCHANGED <<now, up, key, counter, sent>>

Refuse(s) ==
  /\ slot[s].pc = "pttl" /\ up
  /\ slot' = [slot EXCEPT ![s] = Free]
  /\ UNCHANGED <<now, up, key, counter, admitted, sent>>

\* InMemoryRateLimiter.consume: the entry after the request, and whether it is let through.
Consumed(entry, limit) ==
  IF entry.count = 0 \/ entry.resetAt <= now THEN [count |-> 1, resetAt |-> now + Window]
  ELSE [entry EXCEPT !.count = Smaller(@ + 1, limit)]
Allows_OneMore(entry, limit) == entry.count = 0 \/ entry.resetAt <= now \/ entry.count <= limit
Allows(entry, limit) == entry.count = 0 \/ entry.resetAt <= now \/ entry.count < limit

\* Any error of Redis, whichever command it answers.
FallBack(s) ==
  LET p == slot[s].process  limit == Smaller(Limit, FallbackLimit) IN
  /\ slot[s].pc \in {"incr", "pexpire", "pttl"} /\ ~up
  /\ counter' = [counter EXCEPT ![p] = Consumed(@, limit)]
  /\ IF Allows(counter[p], limit) THEN Admitted(now, p) ELSE UNCHANGED admitted
  /\ slot' = [slot EXCEPT ![s] = Free]
  /\ UNCHANGED <<now, up, key, sent>>

\* A process restarts: its requests are gone and its own counters with them.
Restart(p) ==
  /\ \E s \in Slots : slot[s].pc # "free" /\ slot[s].process = p
  /\ slot' = [s \in Slots |-> IF slot[s].process = p THEN Free ELSE slot[s]]
  /\ counter' = [counter EXCEPT ![p] = NoEntry]
  /\ admitted' = [admitted EXCEPT ![p] = NoneYet]   \* that process is another one
  /\ UNCHANGED <<now, up, key, sent>>

Toggle ==
  /\ up' = ~up
  /\ UNCHANGED <<now, key, counter, slot, admitted, sent>>
Tick ==
  /\ now < MaxTime
  /\ now' = now + 1
  /\ key' = IF key.expires = now + 1 THEN NoKey ELSE key
  /\ UNCHANGED <<up, counter, slot, admitted, sent>>
-----------------------------------------------------------------------------
Consume(s) == Incr(s) \/ PExpire(s) \/ Decide(s) \/ Refuse(s) \/ FallBack(s)
LimiterNext ==
  \/ \E s \in Slots : (\E p \in Processes : Ask(s, p)) \/ Consume(s)
  \/ \E p \in Processes : Restart(p)
  \/ Toggle \/ Tick
LimiterSpec == LimiterInit /\ [][LimiterNext]_limiterVars

LimiterTypeOK ==
  /\ now \in 1..MaxTime /\ up \in BOOLEAN
  /\ key \in [count : Nat, expires : Nat]
  /\ counter \in [Processes -> [count : Nat, resetAt : Nat]]

\* Windows are fixed and not sliding, so a burst may straddle two of them; but no stretch of
\* Window ticks lets through twice the limit, through Redis or through one process's fallback,
\* whatever fails in between: the request that opened a window is out of the stretch before
\* the window ends (rate-limiter.ts:86-106).
LimitOf(who) == IF who = "redis" THEN Limit ELSE Smaller(Limit, FallbackLimit)
WindowBound ==
  \A who \in Counters : \A before, last \in 0..MaxTime :
    before <= last /\ last <= before + Window =>
      admitted[who][last] - admitted[who][before] < 2 * LimitOf(who)

\* A counter that exists will expire: the request that created it is still about to say when.
\* The comment above the limiter calls it fail-closed; a request that fails between incr and
\* pexpire (rate-limiter.ts:86-88) closes it for good.
CountersExpire ==
  key.count > 0 /\ key.expires = 0 => \E s \in Slots : slot[s].pc = "pexpire"
===============================================================================
