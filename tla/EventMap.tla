------------------------------- MODULE EventMap ------------------------------
(***************************************************************************)
(* The map of events at key points (src/event_map.rs).  Keys are signed    *)
(* integers of a fixed width, and so are the distances between them: a     *)
(* subtraction wraps around as it does in a release build.                 *)
(***************************************************************************)
EXTENDS Integers, FiniteSetsExt

CONSTANTS
    Half,       \* 2^(w - 1) for keys of w bits
    Events,     \* the values
    MaxDeltas,  \* the limits with_max_delta is given
    NoDelta     \* no limit

ASSUME EventAssumption == Half \in Nat \ {0} /\ NoDelta \notin MaxDeltas

Keys == -Half..(Half - 1)

NoEvent == <<>>

VARIABLES
    data,     \* EventMap.data, a function on the keys that have an event
    maxDelta  \* EventMap.max_delta

eventVars == <<data, maxDelta>>

\* K::sub
Sub(x, y) == ((x - y + Half) % (2 * Half)) - Half

LowerKeys(key) == {k \in DOMAIN data : k <= key}
UpperKeys(key) == {k \in DOMAIN data : k >= key}

\* Mutant: the upper neighbour wins a tie.
ClosestUpper(key) ==
    LET l == Max(LowerKeys(key))
        u == Min(UpperKeys(key))
    IN  IF LowerKeys(key) # {}
            /\ (UpperKeys(key) # {} => Sub(key, l) < Sub(u, key))
        THEN [key |-> l, delta |-> Sub(key, l)]
        ELSE [key |-> u, delta |-> Sub(u, key)]

\* The neighbour get_closest_to chooses, if there is one.
Closest(key) ==
    LET l == Max(LowerKeys(key))
        u == Min(UpperKeys(key))
    IN  IF LowerKeys(key) # {}
            /\ (UpperKeys(key) # {} => Sub(key, l) <= Sub(u, key))
        THEN [key |-> l, delta |-> Sub(key, l)]
        ELSE [key |-> u, delta |-> Sub(u, key)]

GetClosestTo(key) ==
    IF \/ DOMAIN data = {}
       \/ maxDelta # NoDelta /\ Closest(key).delta > maxDelta
    THEN NoEvent
    ELSE [key |-> Closest(key).key, delta |-> Closest(key).delta,
          value |-> data[Closest(key).key]]

Insert(key, v) ==
    /\ data' = [k \in DOMAIN data \cup {key} |-> IF k = key THEN v ELSE data[k]]
    /\ UNCHANGED maxDelta

\* split_off
Cleanup(key) ==
    /\ data' = [k \in UpperKeys(key) |-> data[k]]
    /\ UNCHANGED maxDelta

ClearAll ==
    /\ data' = <<>>
    /\ UNCHANGED maxDelta

WithMaxDelta(d) ==
    /\ maxDelta' = d
    /\ UNCHANGED data

EventInit == data = <<>> /\ maxDelta = NoDelta

EventNext ==
    \/ \E key \in Keys : Cleanup(key) \/ \E v \in Events : Insert(key, v)
    \/ ClearAll
    \/ \E d \in MaxDeltas : WithMaxDelta(d)

-----------------------------------------------------------------------------
Distance(k, key) == IF k > key THEN k - key ELSE key - k

\* The event nearest to key, the earlier of two: the reference definition.
Nearest(key) ==
    CHOOSE k \in DOMAIN data :
        \A j \in DOMAIN data \ {k} :
            \/ Distance(k, key) < Distance(j, key)
            \/ Distance(k, key) = Distance(j, key) /\ k < j

\* get_closest_to finds the nearest event within the limit and its true
\* distance, from every key whose distance to both of its neighbours the key
\* type can hold; of two equally near ones it finds the earlier.
ClosestIsNearest ==
    \A key \in Keys :
        (\A S \in {LowerKeys(key), UpperKeys(key)} \ {{}} :
            \E k \in S : Distance(k, key) \in Keys)
        =>  GetClosestTo(key) =
                IF \/ DOMAIN data = {}
                   \/ maxDelta # NoDelta /\ Distance(Nearest(key), key) > maxDelta
                THEN NoEvent
                ELSE [key |-> Nearest(key), delta |-> Distance(Nearest(key), key),
                      value |-> data[Nearest(key)]]

=============================================================================
