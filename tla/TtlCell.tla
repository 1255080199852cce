------------------------------- MODULE TtlCell -------------------------------
(***************************************************************************)
(* Cells whose value expires (src/cell/ttlcell.rs) and the two methods     *)
(* that couple a pair of them.  A cell belongs to one thread at a time, so *)
(* a call is one step; what can happen inside it is that time passes       *)
(* between its reads of the clock.                                         *)
(***************************************************************************)
EXTENDS Clock

CONSTANTS
    Cells,     \* a pair of cells
    Ttl,       \* Ttl[c]: TtlCell.ttl
    Val, NoVal,
    MaxDelta   \* the parameter max_time_delta of the couplers

ASSUME TtlAssumption ==
    /\ \E c, o \in Cells : c # o /\ Cells = {c, o}
    /\ Ttl \in [Cells -> Nat] /\ MaxDelta \in Nat
    /\ NoVal \notin Val

VARIABLES
    value,  \* value[c]: TtlCell.value
    setAt,  \* setAt[c]: TtlCell.set_at
    ttlOut  \* the last call: its name and what it handed out of each cell

ttlVars == <<value, setAt, ttlOut>>

Nothing == [c \in Cells |-> NoVal]
Only(c, v) == [Nothing EXCEPT ![c] = v]

Returns(op, out, t) == ttlOut' = [op |-> op, out |-> out] /\ now' = t

\* is_expired at the instant t
IsExpired(c, t) == t - setAt[c] > Ttl[c] \/ value[c] = NoVal

\* as_ref, as_deref at the instant t
AsRef(c, t) == IF IsExpired(c, t) THEN NoVal ELSE value[c]

\* Mutant: the cell is touched before it is asked whether it is expired.
ReplaceTouchFirst(c, v) ==
    \E t \in Later :
        /\ Returns("replace", Only(c, value[c]), t)
        /\ value' = [value EXCEPT ![c] = v]
        /\ setAt' = [setAt EXCEPT ![c] = t]

Replace(c, v) ==
    \E t \in Later : \E u \in t..MaxTime :
        /\ Returns("replace", Only(c, AsRef(c, t)), u)
        /\ value' = [value EXCEPT ![c] = v]
        /\ setAt' = [setAt EXCEPT ![c] = u]

Set(c, v) ==
    \E t \in Later :
        /\ Returns("set", Nothing, t)
        /\ value' = [value EXCEPT ![c] = v]
        /\ setAt' = [setAt EXCEPT ![c] = t]

Clear(c) ==
    /\ Returns("clear", Nothing, now)
    /\ value' = [value EXCEPT ![c] = NoVal]
    /\ UNCHANGED setAt

\* touch, also of a value that has expired, which it brings back
Touch(c) ==
    \E t \in Later :
        /\ Returns("touch", Nothing, t)
        /\ setAt' = [setAt EXCEPT ![c] = t]
        /\ UNCHANGED value

Read(c) ==
    \E t \in Later :
        /\ Returns("as_ref", Only(c, AsRef(c, t)), t)
        /\ UNCHANGED <<value, setAt>>

\* take leaves an expired value where it is
Taken(c, t) == IF IsExpired(c, t) THEN value[c] ELSE NoVal

Take(c) ==
    \E t \in Later :
        /\ Returns("take", Only(c, AsRef(c, t)), t)
        /\ value' = [value EXCEPT ![c] = Taken(c, t)]
        /\ UNCHANGED setAt

\* What the couplers return of c, asked at t, and o, asked at u.
Couple(c, t, o, u) ==
    IF /\ AsRef(c, t) # NoVal /\ AsRef(o, u) # NoVal
       /\ AbsDiff(setAt[c], setAt[o]) <= MaxDelta
    THEN [Only(c, value[c]) EXCEPT ![o] = value[o]]
    ELSE Nothing

AsRefWith(c, o) ==
    \E t \in Later : \E u \in t..MaxTime :
        /\ Returns("as_ref_with", Couple(c, t, o, u), u)
        /\ UNCHANGED <<value, setAt>>

\* Both values are taken before anything is compared.
TakeWith(c, o) ==
    \E t \in Later : \E u \in t..MaxTime :
        /\ Returns("take_with", Couple(c, t, o, u), u)
        /\ value' = [value EXCEPT ![c] = Taken(c, t), ![o] = Taken(o, u)]
        /\ UNCHANGED setAt

\* new, new_with_value
TtlInit ==
    /\ value \in [Cells -> Val \cup {NoVal}]
    /\ setAt = [c \in Cells |-> now]
    /\ ttlOut = [op |-> "new", out |-> Nothing]

TtlNext ==
    \E c \in Cells :
        \/ \E v \in Val : Replace(c, v) \/ Set(c, v)
        \/ Clear(c) \/ Touch(c) \/ Read(c) \/ Take(c)
        \/ \E o \in Cells \ {c} : AsRefWith(c, o) \/ TakeWith(c, o)

-----------------------------------------------------------------------------
\* What a call leaves, in terms of the cells it found.
TtlStep ==
    LET op == ttlOut'.op
        out == ttlOut'.out
        handed == {c \in Cells : out[c] # NoVal}
        pair == {"as_ref_with", "take_with"}
    IN  /\ \A c \in handed :
              /\ out[c] = value[c] /\ now - setAt[c] <= Ttl[c]
              /\ op \in {"take", "take_with"} => value'[c] = NoVal
        /\ op \in pair /\ handed # {} =>
              handed = Cells /\ \A c, o \in Cells : AbsDiff(setAt[c], setAt[o]) <= MaxDelta
        /\ op \in pair /\ handed = {} =>
              \/ \E c \in Cells : IsExpired(c, now')
              \/ \E c, o \in Cells : AbsDiff(setAt[c], setAt[o]) > MaxDelta
        /\ \A c \in Cells :
              /\ IsExpired(c, now) /\ ~IsExpired(c, now)'
                    => op \in {"set", "replace", "touch"}
              /\ ~IsExpired(c, now') /\ c \notin handed /\ value'[c] # value[c]
                    => op \in {"set", "replace", "clear", "take_with"}

\* Whatever time passes inside the calls: what a call hands out was in the cell
\* and had not outlived its ttl when the call began, and leaves the cell if it
\* was taken; a pair was set within MaxDelta, and a pair that is
\* still fresh when the call ends is not refused; a value that has expired
\* comes back by set, replace or touch only; and an unexpired value is lost
\* only by clear, by being overwritten, or by a take_with that found no pair.
TtlHonoured == [][TtlStep]_ttlVars

=============================================================================
