----------------------------- MODULE SystemGuards ----------------------------
(***************************************************************************)
(* The guards that change settings of the system and restore them when     *)
(* they are dropped (src/system.rs): SystemConfig on /proc/sys, and        *)
(* CpuGovernor on the scaling_governor files.  The files are external and  *)
(* shared by all guards, so a step is one read or write of a file, and     *)
(* every one of them may fail.                                             *)
(***************************************************************************)
EXTENDS Integers, Sequences, SequencesExt

CONSTANTS
    Scopes,   \* the users of a guard
    Files,    \* number of files a guard sets, 1..Files in the map's order
    Wants     \* Wants[s][k]: what the guard of s writes to file k

ASSUME GuardsAssumption ==
    Files \in Nat \ {0} /\ Wants \in [Scopes -> [1..Files -> Int]]

\* What the files hold before any guard: a value nobody wants.
Original == [k \in 1..Files |-> 0]

VARIABLES
    kind,     \* "config" for SystemConfig, "governor" for CpuGovernor
    file,     \* the contents of the files
    phase,    \* phase[s]: where s stands
    pos,      \* pos[s]: the file of the loop s is in
    prev,     \* prev[s]: prev_values, prev_governor
    stack,    \* history: while nested, the scopes that have begun and not ended
    nested,   \* history: only the innermost scope has acted so far
    spoiled   \* history: some write was made and could not be undone

guardVars == <<kind, file, phase, pos, prev, stack, nested, spoiled>>

Goto(s, p, i) ==
    /\ phase' = [phase EXCEPT ![s] = p]
    /\ pos' = [pos EXCEPT ![s] = i]

\* A step of s, which ends its scope or not.
Acts(s, ends) ==
    /\ nested' = (nested /\ Last(stack) = s)
    /\ stack' = IF ends THEN Front(stack) ELSE stack

\* SystemConfig::apply and CpuGovernor::performance begin.
Apply(s) ==
    /\ phase[s] = "new"
    /\ Goto(s, "reading", 1)
    /\ stack' = Append(stack, s)
    /\ UNCHANGED <<kind, file, prev, nested, spoiled>>

\* Mutant: the value is remembered after it was overwritten.
ReadFileLate(s) ==
    LET i == pos[s] IN
    /\ phase[s] = "reading"
    /\ prev' = [prev EXCEPT ![s][i] = Wants[s][i]]
    /\ IF kind = "governor" /\ i < Files THEN Goto(s, "reading", i + 1)
       ELSE Goto(s, "writing", IF kind = "governor" THEN 1 ELSE i)
    /\ Acts(s, FALSE)
    /\ UNCHANGED <<kind, file, spoiled>>

\* fs::read_to_string: apply writes the file next, performance reads them all
\* first.
ReadFile(s) ==
    LET i == pos[s] IN
    /\ phase[s] = "reading"
    /\ prev' = [prev EXCEPT ![s][i] = file[i]]
    /\ IF kind = "governor" /\ i < Files THEN Goto(s, "reading", i + 1)
       ELSE Goto(s, "writing", IF kind = "governor" THEN 1 ELSE i)
    /\ Acts(s, FALSE)
    /\ UNCHANGED <<kind, file, spoiled>>

\* fs::write; after the last file the guard exists.
WriteFile(s) ==
    LET i == pos[s] IN
    /\ phase[s] = "writing"
    /\ file' = [file EXCEPT ![i] = Wants[s][i]]
    /\ IF i = Files THEN Goto(s, "on", 1)
       ELSE Goto(s, IF kind = "governor" THEN "writing" ELSE "reading", i + 1)
    /\ Acts(s, FALSE)
    /\ UNCHANGED <<kind, prev, spoiled>>

\* The ? of a failed read or write: no guard is returned, nothing restored.
Fail(s) ==
    /\ phase[s] \in {"reading", "writing"}
    /\ Goto(s, "failed", 1)
    /\ Acts(s, TRUE)
    /\ spoiled' = (spoiled \/ (pos[s] > 1 /\ (kind = "config" \/ phase[s] = "writing")))
    /\ UNCHANGED <<kind, file, prev>>

DropGuard(s) ==
    /\ phase[s] = "on"
    /\ Goto(s, "restoring", 1)
    /\ Acts(s, FALSE)
    /\ UNCHANGED <<kind, file, prev, spoiled>>

\* One pass of the loop of drop; a failed write is logged and the loop goes on.
Restore(s) ==
    LET i == pos[s] IN
    /\ phase[s] = "restoring"
    /\ \/ file' = [file EXCEPT ![i] = prev[s][i]] /\ UNCHANGED spoiled
       \/ spoiled' = TRUE /\ UNCHANGED file
    /\ IF i = Files THEN Goto(s, "off", 1) ELSE Goto(s, "restoring", i + 1)
    /\ Acts(s, i = Files)
    /\ UNCHANGED <<kind, prev>>

GuardsInit ==
    /\ kind \in {"config", "governor"}
    /\ file = Original
    /\ phase = [s \in Scopes |-> "new"]
    /\ pos = [s \in Scopes |-> 1]
    /\ prev = [s \in Scopes |-> Original]
    /\ stack = <<>> /\ nested = TRUE /\ spoiled = FALSE

GuardsNext ==
    \E s \in Scopes :
        \/ Apply(s) \/ ReadFile(s) \/ WriteFile(s) \/ Fail(s)
        \/ DropGuard(s) \/ Restore(s)

-----------------------------------------------------------------------------
\* "The governor is restored when the returned guard object is dropped", "system
\* config is restored at the end of the scope": as long as scopes are nested
\* and no write had to be left as it is, the settings in force are those of the
\* innermost guard, and the original ones when there is none, also after an
\* apply that failed before its first write.
GuardsRestore ==
    nested /\ ~spoiled =>
        /\ stack = <<>> => file = Original
        /\ stack # <<>> /\ phase[Last(stack)] = "on" => file = Wants[Last(stack)]

=============================================================================
