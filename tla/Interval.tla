------------------------------- MODULE Interval ------------------------------
(***************************************************************************)
(* The interval helper (src/time.rs): tick sleeps until the next instant   *)
(* of a fixed period, or finds that it is late and does what the           *)
(* MissedTickBehavior says.                                                *)
(***************************************************************************)
EXTENDS Clock

CONSTANTS
    Period,    \* Interval.period
    TicksMod,  \* 2^w, the range of the Wrapping counter
    MaxCalls   \* bound on the calls of tick

\* A period of zero makes the loop of Skip endless.
ASSUME IntervalAssumption ==
    /\ Period \in Nat \ {0} /\ TicksMod \in Nat \ {0} /\ MaxCalls \in Nat

MissedTickBehavior == {"Burst", "Delay", "Skip"}

NoTick == -1

VARIABLES
    nextTick,  \* Interval.next_tick
    behavior,  \* Interval.missing_tick_behavior
    ticks,     \* Interval.ticks
    start,     \* history: the clock at the first call
    calls,     \* history: the calls so far
    exact,     \* history: the calls that met nextTick exactly
    last       \* the last call: what it met, and the clock it read

intervalVars == <<nextTick, behavior, ticks, start, calls, exact, last>>

\* Mutant: one period is added, however late the call is.
SkippedOne(n, t) == n + Period

\* while next_tick <= now { next_tick += self.period; }
Skipped(n, t) == n + Period * ((t - n) \div Period + 1)

\* What tick meets when it reads the clock at t; it returns false if "late".
Met(t) ==
    IF nextTick = NoTick THEN "first"
    ELSE IF t < nextTick THEN "early"
    ELSE IF t = nextTick THEN "exact"
    ELSE "late"

Tick ==
    \E t \in Later :
        /\ calls < MaxCalls
        /\ ticks' = (ticks + 1) % TicksMod
        /\ calls' = calls + 1
        /\ last' = [met |-> Met(t), at |-> t]
        /\ start' = IF nextTick = NoTick THEN t ELSE start
        /\ exact' = IF Met(t) = "exact" THEN exact + 1 ELSE exact
        /\ \/ /\ Met(t) = "first"
              /\ nextTick' = t + Period /\ now' = t
           \/ /\ Met(t) = "early"
              /\ nextTick' = nextTick + Period
              /\ now' \in nextTick..MaxTime \* thread::sleep(next_tick - now), or longer
           \/ /\ Met(t) = "exact"
              /\ nextTick' = nextTick /\ now' = t
           \/ /\ Met(t) = "late"
              /\ nextTick' = CASE behavior = "Burst" -> nextTick + Period
                               [] behavior = "Delay" -> t + Period
                               [] behavior = "Skip" -> Skipped(nextTick, t)
              /\ now' = t
        /\ UNCHANGED behavior

\* Interval::new, set_missing_tick_behavior
IntervalInit ==
    /\ nextTick = NoTick
    /\ behavior \in MissedTickBehavior
    /\ ticks = 0 /\ start = 0 /\ calls = 0 /\ exact = 0
    /\ last = [met |-> "none", at |-> 0]

IntervalNext == Tick

-----------------------------------------------------------------------------
\* A loop on tick runs at the period in the long run, whatever it is late by:
\* it never gets ahead of one pass per period, except by passes that meet
\* nextTick exactly, which do not advance it; Burst makes up for every missed
\* tick; Burst and Skip stay on the instants start + k * period; and with Delay
\* and Skip no backlog is left, nextTick is ahead of the clock that was read.
IntervalKeepsPace ==
    nextTick # NoTick =>
        /\ (calls - exact - 1) * Period <= now - start
        /\ behavior = "Burst" => nextTick = start + (calls - exact) * Period
        /\ behavior # "Delay" => (nextTick - start) % Period = 0
        /\ behavior # "Burst" => nextTick > last.at \/ last.met = "exact"

=============================================================================
