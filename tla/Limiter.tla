------------------------------- MODULE Limiter -------------------------------
(***************************************************************************)
(* The token bucket connections share (ratelimit/ratelimit.go): what is    *)
(* asked for is debited at once and the caller waits out the debt; a       *)
(* caller that gives up is refunded, and the rate may change meanwhile.    *)
(***************************************************************************)
EXTENDS Integers, FiniteSets, FiniteSetsExt

CONSTANTS Waiter,      \* callers, each asking over and over
          Rates,       \* bound: rates in bytes a second, 0 for no limit
          Sizes,       \* bound: what callers ask for
          MinBurst,    \* minBurst
          MaxTime,     \* bound: seconds
          MaxChanges   \* bound: SetLimit

ASSUME LimiterAssumption ==
    /\ Rates \cup Sizes \subseteq Nat /\ MinBurst \in Nat \ {0} /\ MaxTime \in Nat /\ MaxChanges \in Nat
    /\ IsFiniteSet(Waiter) /\ IsFiniteSet(Sizes)

VARIABLES
    rate,     \* limit
    tokens, last,
    now,      \* the clock
    waits,    \* each caller: when its timer fires, what it asked for, and under which SetLimit
    changes,  \* counter for the bound, and which SetLimit is in force
    since,    \* when it began
    grantedBytes   \* bytes grantedBytes of what was asked for since, less what may be refunded of before

limiterVars == <<rate, tokens, last, now, waits, changes, since, grantedBytes>>

NotWaiting == [until |-> -1, n |-> 0, under |-> 0]
Burst == IF rate < MinBurst THEN MinBurst ELSE rate
AtMost(a, b) == IF a < b THEN a ELSE b

\* reserve: refill for the time elapsed, which is little but never nothing,
\* debit, and how long to wait.
Refilled == AtMost(tokens + (now - last) * rate, Burst)
CeilDiv(a, b) == (a + b - 1) \div b
Reserve(w, n) ==
    /\ waits[w] = NotWaiting
    /\ IF rate = 0 THEN UNCHANGED <<tokens, last, waits, grantedBytes>>
       ELSE LET left == Refilled - n IN
            /\ tokens' = left /\ last' = now
            /\ IF left >= 0
               THEN grantedBytes' = grantedBytes + n /\ UNCHANGED waits
               ELSE /\ waits' = [waits EXCEPT ![w] = [until |-> now + CeilDiv(-left, rate), n |-> n, under |-> changes]]
                    /\ UNCHANGED grantedBytes
    /\ UNCHANGED <<rate, now, changes, since>>

\* Wait ends: the timer has fired, or the connection is gone and the debit is
\* undone.  When both are so it is either.  Mutant: nothing is undone.
Fired(w) == waits[w] # NotWaiting /\ now >= waits[w].until
Granted(w) ==
    /\ Fired(w)
    /\ grantedBytes' = IF waits[w].under = changes THEN grantedBytes + waits[w].n ELSE grantedBytes
    /\ waits' = [waits EXCEPT ![w] = NotWaiting]
    /\ UNCHANGED <<rate, tokens, last, now, changes, since>>
RefundForgotten(w) ==
    /\ waits[w] # NotWaiting
    /\ waits' = [waits EXCEPT ![w] = NotWaiting]
    /\ UNCHANGED <<rate, tokens, last, now, changes, since, grantedBytes>>
Refund(w) ==
    /\ waits[w] # NotWaiting
    /\ tokens' = tokens + waits[w].n
    /\ waits' = [waits EXCEPT ![w] = NotWaiting]
    /\ UNCHANGED <<rate, last, now, changes, since, grantedBytes>>

\* SetLimit: who waits already goes on waiting for the old rate.
OwedBy(ws) == MapThenSumSet(LAMBDA w : ws[w].n, Waiter)
SetLimit(r) ==
    /\ changes < MaxChanges /\ changes' = changes + 1
    /\ rate' = r /\ tokens' = AtMost(tokens, IF r < MinBurst THEN MinBurst ELSE r)
    /\ since' = now /\ grantedBytes' = 0 - OwedBy(waits)
    /\ UNCHANGED <<last, now, waits>>

\* Time passes, no further than the next timer.
Tick ==
    /\ now < MaxTime /\ now' = now + 1 /\ \A w \in Waiter : ~Fired(w)
    /\ UNCHANGED <<rate, tokens, last, waits, changes, since, grantedBytes>>

LimiterInit ==
    /\ rate \in Rates /\ tokens = Burst /\ last = 0 /\ now = 0
    /\ waits = [w \in Waiter |-> NotWaiting] /\ changes = 0 /\ since = 0 /\ grantedBytes = 0
LimiterNext ==
    \/ Tick \/ \E r \in Rates : SetLimit(r)
    \/ \E w \in Waiter : Granted(w) \/ Refund(w) \/ \E n \in Sizes : Reserve(w, n)
LimiterSpec == LimiterInit /\ [][LimiterNext]_limiterVars

-----------------------------------------------------------------------------
(* Properties *)

(***************************************************************************)
(* The aggregate of all connections stays within the rate from any         *)
(* SetLimit on: no more than a burst ahead of it, however callers overlap, *)
(* whoever gives up, whatever was owed before.                             *)
(***************************************************************************)
RateIsHeld == rate > 0 => grantedBytes <= Burst + rate * (now - since)

\* Under a rate that does not change nobody waits for more than one thing of every
\* caller's, so that those who gave up are not waited for.
NobodyWaitsForMore == \A w \in Waiter : waits[w] # NotWaiting /\ changes = 0 =>
    waits[w].until - now <= CeilDiv(Max(Sizes) * Cardinality(Waiter), rate)

\* The rate is kept to, and nobody waits for more than it takes.
LimiterInv == RateIsHeld /\ NobodyWaitsForMore
=============================================================================
