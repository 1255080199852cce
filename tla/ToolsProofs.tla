----------------------------- MODULE ToolsProofs ------------------------------
(***************************************************************************)
(* Proofs about the stand-alone tools, for every value of their constants. *)
(* A behaviour of Tools uses one tool, so what is proved of a tool holds   *)
(* of it alone.                                                            *)
(***************************************************************************)
EXTENDS Tools, SequenceTheorems, WellFoundedInduction, TLAPS

-----------------------------------------------------------------------------
\* TtlCell

TtlType ==
    /\ value \in [Cells -> Val \cup {NoVal}]
    /\ setAt \in [Cells -> Int]
    /\ now \in Int

\* What the calls on one cell hand out.
LEMMA OnlyFacts ==
    ASSUME NEW c \in Cells, NEW v
    PROVE  \A u \in Cells : Only(c, v)[u] = IF u = c THEN v ELSE NoVal
BY DEF Only, Nothing

\* The instants a call may read.
LEMMA LaterFacts ==
    ASSUME now \in Int, NEW t \in Later
    PROVE  t \in Int /\ now <= t /\ \A u \in t..MaxTime : u \in Int /\ t <= u
BY ClockAssumption DEF Later

\* Calls that hand out nothing: set, clear, touch.
LEMMA TtlHandsNothing ==
    ASSUME TtlType, NEW op \in {"set", "clear", "touch"}, NEW t \in Int,
           NEW c \in Cells, now <= t, ttlOut' = [op |-> op, out |-> Nothing], now' = t,
           \/ op = "set"
           \/ op = "clear" /\ setAt' = setAt /\ value' = [value EXCEPT ![c] = NoVal]
           \/ op = "touch" /\ value' = value
    PROVE  TtlStep
<1>1. ttlOut'.op = op /\ ttlOut'.out = Nothing
  OBVIOUS
<1>2. {u \in Cells : Nothing[u] # NoVal} = {}
  BY DEF Nothing
<1>3. op \notin {"as_ref_with", "take_with"}
  OBVIOUS
<1>4. ASSUME NEW u \in Cells, IsExpired(u, now), ~IsExpired(u, now)'
      PROVE  op \in {"set", "replace", "touch"}
  BY <1>4, TtlAssumption DEF TtlType, IsExpired
<1>5. \A u \in Cells : value'[u] # value[u] => op \in {"set", "replace", "clear", "take_with"}
  OBVIOUS
<1> QED BY <1>1, <1>2, <1>3, <1>4, <1>5 DEF TtlStep

\* Calls that hand out the value of one cell, read at t: replace, take, as_ref.
LEMMA TtlHandsOne ==
    ASSUME TtlType, NEW op \in {"replace", "take", "as_ref"}, NEW t \in Int, NEW v \in Int,
           NEW c \in Cells, now <= t, t <= v,
           ttlOut' = [op |-> op, out |-> Only(c, AsRef(c, t))], now' = v,
           \/ op = "replace"
           \/ /\ op = "take" /\ setAt' = setAt /\ v = t
              /\ value' = [value EXCEPT ![c] = Taken(c, t)]
           \/ op = "as_ref" /\ setAt' = setAt /\ value' = value
    PROVE  TtlStep
<1> DEFINE handed == {u \in Cells : Only(c, AsRef(c, t))[u] # NoVal}
<1>1. ttlOut'.op = op /\ ttlOut'.out = Only(c, AsRef(c, t))
  OBVIOUS
<1>2. op \notin {"as_ref_with", "take_with"}
  OBVIOUS
<1>3. handed = IF AsRef(c, t) = NoVal THEN {} ELSE {c}
  BY OnlyFacts
<1>4. ASSUME AsRef(c, t) # NoVal
      PROVE  /\ Only(c, AsRef(c, t))[c] = value[c] /\ now - setAt[c] <= Ttl[c]
             /\ op \in {"take", "take_with"} => value'[c] = NoVal
  <2>1. ~IsExpired(c, t) /\ AsRef(c, t) = value[c]
    BY <1>4 DEF AsRef
  <2>2. now - setAt[c] <= Ttl[c]
    BY <2>1, TtlAssumption DEF TtlType, IsExpired
  <2>3. op \in {"take", "take_with"} => value'[c] = NoVal
    BY <2>1 DEF TtlType, Taken
  <2> QED BY <2>1, <2>2, <2>3, OnlyFacts
<1>5. ASSUME NEW u \in Cells, IsExpired(u, now), ~IsExpired(u, now)'
      PROVE  op \in {"set", "replace", "touch"}
  BY <1>5, TtlAssumption DEF TtlType, IsExpired, Taken
<1>6. ASSUME NEW u \in Cells, ~IsExpired(u, now'), u \notin handed, value'[u] # value[u]
      PROVE  op \in {"set", "replace", "clear", "take_with"}
  <2> SUFFICES ASSUME op = "take" PROVE FALSE
    BY <1>6
  <2>1. u = c /\ ~IsExpired(c, t) /\ now' = t
    BY <1>6 DEF TtlType
  <2>2. AsRef(c, t) = value[c] /\ value[c] # NoVal
    BY <2>1 DEF AsRef, IsExpired
  <2> QED BY <1>3, <1>6, <2>1, <2>2
<1> QED BY <1>1, <1>2, <1>3, <1>4, <1>5, <1>6 DEF TtlStep

\* The couplers, which read one cell at t and the other at v.
LEMMA TtlHandsPair ==
    ASSUME TtlType, NEW op \in {"as_ref_with", "take_with"}, NEW t \in Int, NEW v \in Int,
           NEW c \in Cells, NEW o \in Cells \ {c}, now <= t, t <= v,
           ttlOut' = [op |-> op, out |-> Couple(c, t, o, v)], now' = v, setAt' = setAt,
           \/ /\ op = "take_with"
              /\ value' = [value EXCEPT ![c] = Taken(c, t), ![o] = Taken(o, v)]
           \/ op = "as_ref_with" /\ value' = value
    PROVE  TtlStep
<1> DEFINE out == Couple(c, t, o, v)
           handed == {u \in Cells : out[u] # NoVal}
           both == /\ AsRef(c, t) # NoVal /\ AsRef(o, v) # NoVal
                   /\ AbsDiff(setAt[c], setAt[o]) <= MaxDelta
<1>0. Cells = {c, o} /\ c # o /\ setAt[c] \in Int /\ setAt[o] \in Int
      /\ Ttl[c] \in Nat /\ Ttl[o] \in Nat /\ MaxDelta \in Nat
  BY TtlAssumption DEF TtlType
<1>1. ttlOut'.op = op /\ ttlOut'.out = out
  OBVIOUS
<1>2. AbsDiff(setAt[c], setAt[o]) = AbsDiff(setAt[o], setAt[c])
      /\ AbsDiff(setAt[c], setAt[c]) = 0 /\ AbsDiff(setAt[o], setAt[o]) = 0
      /\ AbsDiff(setAt[c], setAt[o]) \in Int
  BY <1>0 DEF AbsDiff
<1>3. value'[c] = (IF op = "take_with" THEN Taken(c, t) ELSE value[c])
      /\ value'[o] = (IF op = "take_with" THEN Taken(o, v) ELSE value[o])
  BY <1>0 DEF TtlType
<1>4. CASE both
  <2>1. /\ ~IsExpired(c, t) /\ ~IsExpired(o, v)
        /\ value[c] # NoVal /\ value[o] # NoVal
    BY <1>4 DEF AsRef, IsExpired
  <2>2. out[c] = value[c] /\ out[o] = value[o]
    BY <1>0, <1>4 DEF Couple, Only, Nothing
  <2>3. handed = Cells
    BY <1>0, <2>1, <2>2
  <2>4. now - setAt[c] <= Ttl[c] /\ now - setAt[o] <= Ttl[o]
    BY <1>0, <2>1 DEF IsExpired, TtlType
  <2>5. op = "take_with" => value'[c] = NoVal /\ value'[o] = NoVal
    BY <1>3, <2>1 DEF Taken
  <2>6. \A a, b \in Cells : AbsDiff(setAt[a], setAt[b]) <= MaxDelta
    BY <1>0, <1>2, <1>4
  <2>7. \A u \in Cells : IsExpired(u, now) => IsExpired(u, now)'
    BY <1>0, <1>3, <2>4, <2>5 DEF IsExpired, TtlType
  <2> HIDE DEF out
  <2> QED BY <1>0, <1>1, <2>2, <2>3, <2>4, <2>5, <2>6, <2>7 DEF TtlStep
<1>5. CASE ~both
  <2>1. \A u \in Cells : out[u] = NoVal
    BY <1>5 DEF Couple, Nothing
  <2>2. handed = {}
    BY <2>1
  <2>3. \/ \E u \in Cells : IsExpired(u, now')
        \/ \E a, b \in Cells : AbsDiff(setAt[a], setAt[b]) > MaxDelta
    <3>1. CASE AsRef(c, t) = NoVal
      <4>1. IsExpired(c, t)
        BY <3>1 DEF AsRef, IsExpired
      <4>2. IsExpired(c, now')
        BY <1>0, <4>1 DEF IsExpired
      <4> QED BY <4>2
    <3>2. CASE AsRef(o, v) = NoVal
      <4>1. IsExpired(o, now')
        BY <3>2 DEF AsRef, IsExpired
      <4> QED BY <4>1
    <3>3. CASE ~(AbsDiff(setAt[c], setAt[o]) <= MaxDelta)
      BY <1>0, <1>2, <3>3
    <3> QED BY <1>5, <3>1, <3>2, <3>3
  <2>4. \A u \in Cells : IsExpired(u, now) => IsExpired(u, now)'
    BY <1>0, <1>3 DEF IsExpired, TtlType, Taken
  <2>5. \A u \in Cells : value'[u] # value[u] => op = "take_with"
    BY <1>0, <1>3
  <2> HIDE DEF out
  <2> QED BY <1>1, <2>2, <2>3, <2>4, <2>5 DEF TtlStep
<1> QED BY <1>4, <1>5

\* The values stay what they are, whatever tool is used.
LEMMA TtlTypeKept == TtlType /\ [Next]_vars => TtlType'
<1> SUFFICES ASSUME TtlType, [Next]_vars PROVE TtlType'
  OBVIOUS
<1>0. \A t \in Later : t \in Int /\ \A u \in t..MaxTime : u \in Int
  BY LaterFacts DEF TtlType
<1>1. CASE tool = "TtlCell" /\ TtlNext
  <2> SUFFICES ASSUME NEW c \in Cells,
                      \/ \E v \in Val : Replace(c, v) \/ Set(c, v)
                      \/ Clear(c) \/ Touch(c) \/ Read(c) \/ Take(c)
                      \/ \E o \in Cells \ {c} : AsRefWith(c, o) \/ TakeWith(c, o)
               PROVE  TtlType'
    BY <1>1 DEF TtlNext
  <2>1. ASSUME NEW v \in Val, Replace(c, v) PROVE TtlType'
    BY <1>0, <2>1 DEF Replace, Returns, TtlType
  <2>2. ASSUME NEW v \in Val, Set(c, v) PROVE TtlType'
    BY <1>0, <2>2 DEF Set, Returns, TtlType
  <2>3. CASE Clear(c)
    BY <2>3 DEF Clear, Returns, TtlType
  <2>4. CASE Touch(c)
    BY <1>0, <2>4 DEF Touch, Returns, TtlType
  <2>5. CASE Read(c)
    BY <1>0, <2>5 DEF Read, Returns, TtlType
  <2>6. CASE Take(c)
    BY <1>0, <2>6 DEF Take, Taken, Returns, TtlType
  <2>7. ASSUME NEW o \in Cells \ {c}, AsRefWith(c, o) PROVE TtlType'
    BY <1>0, <2>7 DEF AsRefWith, Returns, TtlType
  <2>8. ASSUME NEW o \in Cells \ {c}, TakeWith(c, o) PROVE TtlType'
    BY <1>0, <2>8 DEF TakeWith, Taken, Returns, TtlType
  <2> QED BY <2>1, <2>2, <2>3, <2>4, <2>5, <2>6, <2>7, <2>8
<1>2. CASE tool = "Interval" /\ IntervalNext /\ UNCHANGED ttlVars
  <2>1. now' \in Int
    BY <1>0, <1>2, ClockAssumption DEF IntervalNext, Tick
  <2> QED BY <1>2, <2>1 DEF ttlVars, TtlType
<1>3. CASE UNCHANGED <<now, ttlVars>>
  BY <1>3 DEF ttlVars, TtlType
<1> QED BY <1>1, <1>2, <1>3 DEF Next, vars

\* Every step on the cells is as TtlStep says.
LEMMA TtlSteps ==
    ASSUME TtlType, NEW c \in Cells,
           \/ \E v \in Val : Replace(c, v) \/ Set(c, v)
           \/ Clear(c) \/ Touch(c) \/ Read(c) \/ Take(c)
           \/ \E o \in Cells \ {c} : AsRefWith(c, o) \/ TakeWith(c, o)
    PROVE  TtlStep
<1>0. /\ now \in Int /\ now <= now
      /\ \A t \in Later : /\ t \in Int /\ now <= t /\ t <= t
                          /\ \A u \in t..MaxTime : u \in Int /\ t <= u
  BY LaterFacts DEF TtlType
<1>1. ASSUME NEW v \in Val, Replace(c, v) PROVE TtlStep
  <2>1. PICK t \in Later : \E u \in t..MaxTime : Returns("replace", Only(c, AsRef(c, t)), u)
    BY <1>1 DEF Replace
  <2>2. PICK u \in t..MaxTime : Returns("replace", Only(c, AsRef(c, t)), u)
    BY <2>1
  <2> QED BY <1>0, <2>2, TtlHandsOne DEF Returns
<1>2. ASSUME NEW v \in Val, Set(c, v) PROVE TtlStep
  <2>1. PICK t \in Later : Returns("set", Nothing, t)
    BY <1>2 DEF Set
  <2> QED BY <1>0, <2>1, TtlHandsNothing DEF Returns
<1>3. CASE Clear(c)
  BY <1>0, <1>3, TtlHandsNothing DEF Clear, Returns
<1>4. CASE Touch(c)
  <2>1. PICK t \in Later : Returns("touch", Nothing, t) /\ value' = value
    BY <1>4 DEF Touch
  <2> QED BY <1>0, <2>1, TtlHandsNothing DEF Returns
<1>5. CASE Read(c)
  <2>1. PICK t \in Later : /\ Returns("as_ref", Only(c, AsRef(c, t)), t)
                           /\ UNCHANGED <<value, setAt>>
    BY <1>5 DEF Read
  <2> QED BY <1>0, <2>1, TtlHandsOne DEF Returns
<1>6. CASE Take(c)
  <2>1. PICK t \in Later : /\ Returns("take", Only(c, AsRef(c, t)), t)
                           /\ value' = [value EXCEPT ![c] = Taken(c, t)]
                           /\ setAt' = setAt
    BY <1>6 DEF Take
  <2> QED BY <1>0, <2>1, TtlHandsOne DEF Returns
<1>7. ASSUME NEW o \in Cells \ {c}, AsRefWith(c, o) PROVE TtlStep
  <2>1. PICK t \in Later : \E u \in t..MaxTime : /\ Returns("as_ref_with", Couple(c, t, o, u), u)
                                                 /\ UNCHANGED <<value, setAt>>
    BY <1>7 DEF AsRefWith
  <2>2. PICK u \in t..MaxTime : /\ Returns("as_ref_with", Couple(c, t, o, u), u)
                                /\ UNCHANGED <<value, setAt>>
    BY <2>1
  <2> QED BY <1>0, <2>2, TtlHandsPair DEF Returns
<1>8. ASSUME NEW o \in Cells \ {c}, TakeWith(c, o) PROVE TtlStep
  <2>1. PICK t \in Later : \E u \in t..MaxTime :
           /\ Returns("take_with", Couple(c, t, o, u), u)
           /\ value' = [value EXCEPT ![c] = Taken(c, t), ![o] = Taken(o, u)]
           /\ setAt' = setAt
    BY <1>8 DEF TakeWith
  <2>2. PICK u \in t..MaxTime :
           /\ Returns("take_with", Couple(c, t, o, u), u)
           /\ value' = [value EXCEPT ![c] = Taken(c, t), ![o] = Taken(o, u)]
           /\ setAt' = setAt
    BY <2>1
  <2> QED BY <1>0, <2>2, TtlHandsPair DEF Returns
<1> QED BY <1>1, <1>2, <1>3, <1>4, <1>5, <1>6, <1>7, <1>8

\* Whatever time passes inside a call, an expired value is not handed out, a
\* pair was set within MaxDelta, and no fresh value disappears in silence.
THEOREM TtlHonouredCorrect == Spec => TtlHonoured
<1>1. Init => TtlType
  BY DEF Init, TtlInit, TtlType
<1>2. TtlType /\ [Next]_vars => [TtlStep]_ttlVars
  <2> SUFFICES ASSUME TtlType, [Next]_vars PROVE [TtlStep]_ttlVars
    OBVIOUS
  <2>1. CASE TtlNext
    BY <2>1, TtlSteps DEF TtlNext
  <2>2. CASE UNCHANGED ttlVars
    BY <2>2
  <2> QED BY <2>1, <2>2 DEF Next, vars
<1> QED BY <1>1, <1>2, TtlTypeKept, PTL DEF Spec, TtlHonoured

-----------------------------------------------------------------------------
\* SystemGuards

\* GuardsRestore speaks of the innermost scope; it is inductive once one knows
\* what each scope of the stack found when it began.  B is the sequence of these
\* bases, B[i] for the scope stack[i], and after them what the files hold now.

Phases == {"new", "reading", "writing", "on", "restoring", "failed", "off"}
Active == {"reading", "writing", "on", "restoring"}
Contents == [1..Files -> Int]

\* What a scope that found the contents b has made of them so far ...
Effect(s, b) ==
    [k \in 1..Files |->
        CASE phase[s] = "reading" -> IF kind = "config" /\ k < pos[s] THEN Wants[s][k] ELSE b[k]
          [] phase[s] = "writing" -> IF k < pos[s] THEN Wants[s][k] ELSE b[k]
          [] phase[s] = "on" -> Wants[s][k]
          [] phase[s] = "restoring" -> IF k < pos[s] THEN b[k] ELSE Wants[s][k]
          [] OTHER -> b[k]]

\* ... and remembers of them.
Saved(s, b) ==
    \A k \in 1..Files :
        \/ phase[s] \in {"on", "restoring"}
        \/ k < pos[s]
        \/ phase[s] = "writing" /\ (kind = "governor" \/ k = pos[s])
        => prev[s][k] = b[k]

\* The pairs of what a scope may have found and what it has made of it.
Links ==
    [s \in Scopes |-> {l \in Contents \X Contents : l[2] = Effect(s, l[1]) /\ Saved(s, l[1])}]

\* B leads from the original contents to f, along the links L of the scopes st.
Chain(B, st, f, L) ==
    /\ B \in [1..(Len(st) + 1) -> Contents]
    /\ B[1] = Original /\ B[Len(st) + 1] = f
    /\ \A i \in 1..Len(st) : <<B[i], B[i + 1]>> \in L[st[i]]

Distinct(st) == \A i, j \in DOMAIN st : st[i] = st[j] => i = j

\* The scopes of a stack that does not change keep their part of the chain, if
\* only the innermost one moves.
LEMMA ChainTop ==
    ASSUME NEW st \in Seq(Scopes), st # <<>>, Distinct(st), NEW s, s = st[Len(st)],
           NEW f, NEW g \in Contents, NEW L, NEW M, \A u \in Scopes \ {s} : M[u] = L[u],
           NEW B, Chain(B, st, f, L), <<B[Len(st)], g>> \in M[s]
    PROVE  \E C : Chain(C, st, g, M)
<1> DEFINE n == Len(st)
           C == [B EXCEPT ![n + 1] = g]
<1>0. /\ n \in Nat \ {0} /\ DOMAIN st = 1..n
      /\ \A i \in 1..n : st[i] \in Scopes
  BY LenProperties, EmptySeq, ElementOfSeq
<1>1. /\ B \in [1..(n + 1) -> Contents] /\ B[1] = Original
      /\ \A i \in 1..n : <<B[i], B[i + 1]>> \in L[st[i]]
  BY DEF Chain
<1>2. s = st[n] /\ <<B[n], g>> \in M[s]
  OBVIOUS
<1> HIDE DEF n
<1>3. \A i \in 1..n : i # n => st[i] # st[n]
  BY <1>0 DEF Distinct
<1>4. /\ C \in [1..(n + 1) -> Contents] /\ C[n + 1] = g
      /\ \A i \in 1..n : C[i] = B[i]
  BY <1>0, <1>1
<1>5. C[1] = Original
  BY <1>0, <1>1, <1>4
<1> HIDE DEF C
<1>6. ASSUME NEW i \in 1..n
      PROVE  <<C[i], C[i + 1]>> \in M[st[i]]
  <2>1. CASE i = n
    BY <1>0, <1>2, <1>4, <2>1
  <2>2. CASE i # n
    <3>1. i + 1 \in 1..n
      BY <1>0, <2>2
    <3>2. C[i + 1] = B[i + 1] /\ C[i] = B[i]
      BY <1>4, <3>1
    <3>3. st[i] \in Scopes \ {s}
      BY <1>0, <1>3, <1>2, <2>2
    <3> QED BY <1>1, <3>2, <3>3
  <2> QED BY <2>1, <2>2
<1>7. Chain(C, st, g, M)
  BY <1>4, <1>5, <1>6 DEF Chain, n
<1> QED BY <1>7

\* A scope begins, and finds the files as they are.
LEMMA ChainPush ==
    ASSUME NEW st \in Seq(Scopes), NEW s \in Scopes, \A i \in DOMAIN st : st[i] # s,
           NEW f \in Contents, NEW L, NEW M, \A u \in Scopes \ {s} : M[u] = L[u],
           NEW B, Chain(B, st, f, L), <<f, f>> \in M[s]
    PROVE  \E C : Chain(C, Append(st, s), f, M)
<1> DEFINE n == Len(st)
           w == Append(st, s)
           C == [i \in 1..(n + 2) |-> IF i = n + 2 THEN f ELSE B[i]]
<1>0. /\ n \in Nat /\ DOMAIN st = 1..n /\ Len(w) = n + 1
      /\ w[n + 1] = s /\ \A i \in 1..n : w[i] = st[i] /\ st[i] \in Scopes \ {s}
  BY LenProperties, AppendProperties, ElementOfSeq
<1>1. /\ B \in [1..(n + 1) -> Contents] /\ B[1] = Original /\ B[n + 1] = f
      /\ \A i \in 1..n : <<B[i], B[i + 1]>> \in L[st[i]]
  BY DEF Chain
<1> HIDE DEF n, w
<1>2. /\ C \in [1..(n + 2) -> Contents] /\ C[n + 2] = f
      /\ \A i \in 1..(n + 1) : C[i] = B[i]
  BY <1>0, <1>1
<1> HIDE DEF C
<1>3. C[1] = Original /\ C[n + 1] = f
  BY <1>0, <1>1, <1>2
<1>4. ASSUME NEW i \in 1..(n + 1)
      PROVE  <<C[i], C[i + 1]>> \in M[w[i]]
  <2>1. CASE i = n + 1
    <3>1. i + 1 = n + 2
      BY <1>0, <2>1
    <3> QED BY <1>0, <1>2, <1>3, <2>1, <3>1
  <2>2. CASE i # n + 1
    <3>1. i \in 1..n /\ i + 1 \in 1..(n + 1)
      BY <1>0, <2>2
    <3>2. C[i + 1] = B[i + 1] /\ C[i] = B[i]
      BY <1>2, <3>1
    <3> QED BY <1>0, <1>1, <3>1, <3>2
  <2> QED BY <2>1, <2>2
<1>5. Len(w) + 1 = n + 2
  BY <1>0
<1>6. Chain(C, w, f, M)
  BY <1>0, <1>2, <1>3, <1>4, <1>5 DEF Chain
<1> QED BY <1>6 DEF w

\* What is left of a sequence without its last element.
LEMMA FrontFacts ==
    ASSUME NEW st \in Seq(Scopes), st # <<>>
    PROVE  /\ Front(st) \in Seq(Scopes) /\ Len(Front(st)) = Len(st) - 1
           /\ \A i \in 1..(Len(st) - 1) : Front(st)[i] = st[i]
<1> DEFINE n == Len(st)
<1>1. n \in Nat \ {0}
  BY LenProperties, EmptySeq
<1>2. \A i \in 1..n : st[i] \in Scopes
  BY LenProperties, ElementOfSeq
<1>3. Front(st) = [i \in 1..(n - 1) |-> st[i]]
  BY DEF Front
<1> HIDE DEF n
<1> DEFINE w == [i \in 1..(n - 1) |-> st[i]]
<1>4. n - 1 \in Nat /\ w \in [1..(n - 1) -> Scopes] /\ \A i \in 1..(n - 1) : w[i] = st[i]
  BY <1>1, <1>2
<1> HIDE DEF w
<1>5. w \in Seq(Scopes) /\ Len(w) = n - 1
  BY <1>4
<1> QED BY <1>3, <1>4, <1>5 DEF n, w

\* The innermost scope ends and leaves what it found.
LEMMA ChainPop ==
    ASSUME NEW st \in Seq(Scopes), st # <<>>, Distinct(st), NEW s, s = st[Len(st)],
           NEW f, NEW L, NEW M, \A u \in Scopes \ {s} : M[u] = L[u],
           NEW B, Chain(B, st, f, L)
    PROVE  \E C : Chain(C, Front(st), B[Len(st)], M)
<1> DEFINE n == Len(st)
           w == Front(st)
           C == [i \in 1..n |-> B[i]]
<1>0. /\ n \in Nat \ {0} /\ DOMAIN st = 1..n
      /\ \A i \in 1..n : st[i] \in Scopes
  BY LenProperties, EmptySeq, ElementOfSeq
<1>1. s = st[n]
  BY SMTT(60)
<1>2. Len(w) = n - 1 /\ \A i \in 1..(n - 1) : w[i] = st[i]
  BY <1>0, FrontFacts
<1>3. /\ B \in [1..(n + 1) -> Contents] /\ B[1] = Original
      /\ \A i \in 1..n : <<B[i], B[i + 1]>> \in L[st[i]]
  BY DEF Chain
<1> HIDE DEF n, w
<1>4. C \in [1..n -> Contents] /\ \A i \in 1..n : C[i] = B[i]
  BY <1>0, <1>3
<1> HIDE DEF C
<1>5. C[1] = Original /\ C[n] = B[n]
  BY <1>0, <1>3, <1>4
<1>6. \A i \in 1..n : i # n => st[i] # s
  BY <1>0, <1>1 DEF Distinct
<1>7. ASSUME NEW i \in 1..(n - 1)
      PROVE  <<C[i], C[i + 1]>> \in M[w[i]]
  <2>1. i \in 1..n /\ i # n /\ i + 1 \in 1..n
    BY <1>0
  <2>2. C[i + 1] = B[i + 1] /\ C[i] = B[i]
    BY <1>4, <2>1
  <2>3. st[i] \in Scopes \ {s} /\ w[i] = st[i]
    BY <1>0, <1>6, <1>2, <2>1
  <2> QED BY <1>3, <2>1, <2>2, <2>3
<1>8. Len(w) + 1 = n
  BY <1>0, <1>2
<1>9. Chain(C, w, B[n], M)
  BY <1>2, <1>4, <1>5, <1>7, <1>8 DEF Chain
<1> QED BY <1>9 DEF n, w

GuardsType ==
    /\ kind \in {"config", "governor"} /\ file \in Contents
    /\ phase \in [Scopes -> Phases] /\ pos \in [Scopes -> 1..Files]
    /\ prev \in [Scopes -> Contents]

\* While scopes are nested, the stack holds those that are active, each once.
StackOK ==
    nested => /\ stack \in Seq(Scopes) /\ Distinct(stack)
              /\ \A s \in Scopes : phase[s] \in Active <=> \E i \in DOMAIN stack : stack[i] = s

BasesOK == nested /\ ~spoiled => \E B : Chain(B, stack, file, Links)

GuardsInv == GuardsType /\ StackOK /\ BasesOK

\* The other scopes stay where they are, and so do their links.
Alone(s) ==
    /\ kind' = kind
    /\ \A u \in Scopes \ {s} : phase'[u] = phase[u] /\ pos'[u] = pos[u] /\ prev'[u] = prev[u]

LEMMA LinksFrame ==
    ASSUME NEW s \in Scopes, Alone(s)
    PROVE  \A u \in Scopes \ {s} : Links'[u] = Links[u]
<1> SUFFICES ASSUME NEW u \in Scopes \ {s} PROVE Links'[u] = Links[u]
  OBVIOUS
<1>1. kind' = kind /\ phase'[u] = phase[u] /\ pos'[u] = pos[u] /\ prev'[u] = prev[u]
  BY DEF Alone
<1>2. \A b : Effect(u, b)' = Effect(u, b)
  BY <1>1 DEF Effect
<1>3. \A b : Saved(u, b)' <=> Saved(u, b)
  BY <1>1 DEF Saved
<1>4. Links[u] = {l \in Contents \X Contents : l[2] = Effect(u, l[1]) /\ Saved(u, l[1])}
  BY DEF Links
<1>5. Links'[u] = {l \in Contents \X Contents : l[2] = Effect(u, l[1])' /\ Saved(u, l[1])'}
  BY DEF Links, Contents
<1> QED BY <1>2, <1>3, <1>4, <1>5

LEMMA LinkMember ==
    ASSUME NEW s \in Scopes, NEW b, NEW c
    PROVE  /\ <<b, c>> \in Links[s] <=>
                b \in Contents /\ c \in Contents /\ c = Effect(s, b) /\ Saved(s, b)
           /\ <<b, c>> \in Links'[s] <=>
                b \in Contents /\ c \in Contents /\ c = Effect(s, b)' /\ Saved(s, b)'
<1> DEFINE l == <<b, c>>
<1>1. l[1] = b /\ l[2] = c /\ (l \in Contents \X Contents <=> b \in Contents /\ c \in Contents)
  OBVIOUS
<1>2. Links[s] = {m \in Contents \X Contents : m[2] = Effect(s, m[1]) /\ Saved(s, m[1])}
  BY DEF Links
<1>3. Links'[s] = {m \in Contents \X Contents : m[2] = Effect(s, m[1])' /\ Saved(s, m[1])'}
  BY DEF Links, Contents
<1> HIDE DEF l
<1>4. /\ l \in Links[s] <=> l \in Contents \X Contents /\ l[2] = Effect(s, l[1]) /\ Saved(s, l[1])
      /\ l \in Links'[s] <=> l \in Contents \X Contents /\ l[2] = Effect(s, l[1])' /\ Saved(s, l[1])'
  BY <1>2, <1>3
<1> QED BY <1>1, <1>4 DEF l

\* An active scope that is the last of the stack.
LEMMA Innermost ==
    ASSUME StackOK, nested, NEW s \in Scopes, phase[s] \in Active, Last(stack) = s
    PROVE  /\ stack \in Seq(Scopes) /\ stack # <<>> /\ Distinct(stack)
           /\ Len(stack) \in Nat \ {0} /\ Len(stack) \in DOMAIN stack
           /\ s = stack[Len(stack)]
<1>1. /\ stack \in Seq(Scopes) /\ Distinct(stack)
      /\ \E i \in DOMAIN stack : stack[i] = s
  BY DEF StackOK
<1>2. stack # <<>>
  BY <1>1
<1> QED BY <1>1, <1>2, LenProperties, EmptySeq DEF Last

\* The innermost scope moves on, and what it has made of its base is again what
\* its new place says.
LEMMA InnerMoves ==
    ASSUME GuardsInv, GuardsType', NEW s \in Scopes, Alone(s), Acts(s, FALSE),
           phase[s] \in Active, phase'[s] \in Active,
           ~spoiled' => /\ ~spoiled
                        /\ \A b \in Contents : file = Effect(s, b) /\ Saved(s, b) =>
                               file' = Effect(s, b)' /\ Saved(s, b)'
    PROVE  StackOK' /\ BasesOK'
<1> SUFFICES ASSUME nested' PROVE StackOK' /\ BasesOK'
  BY Zenon DEF StackOK, BasesOK
<1>1. nested /\ Last(stack) = s /\ stack' = stack
  BY Zenon DEF Acts
<1>2. /\ stack \in Seq(Scopes) /\ stack # <<>> /\ Distinct(stack)
      /\ Len(stack) \in Nat \ {0} /\ Len(stack) \in DOMAIN stack
      /\ s = stack[Len(stack)]
  BY <1>1, Innermost DEF GuardsInv
<1>3. StackOK'
  <2>1. \A u \in Scopes : phase'[u] \in Active <=> phase[u] \in Active
    BY DEF Alone
  <2>2. \A u \in Scopes : phase[u] \in Active <=> \E i \in DOMAIN stack : stack[i] = u
    BY <1>1 DEF GuardsInv, StackOK
  <2>3. \A u \in Scopes : phase'[u] \in Active <=> \E i \in DOMAIN stack' : stack'[i] = u
    BY <1>1, <2>1, <2>2
  <2>4. stack' \in Seq(Scopes) /\ Distinct(stack')
    BY <1>1, <1>2
  <2> QED BY <2>3, <2>4 DEF StackOK, Distinct, Active
<1>4. ASSUME ~spoiled'
      PROVE  \E C : Chain(C, stack, file', Links')
  <2>1. ~spoiled
    BY <1>4
  <2>2. PICK B : Chain(B, stack, file, Links)
    BY <1>1, <2>1 DEF GuardsInv, BasesOK
  <2>3. <<B[Len(stack)], file>> \in Links[s]
    <3> DEFINE m == Len(stack)
    <3>1. /\ m \in Nat \ {0} /\ B[m + 1] = file /\ s = stack[m]
          /\ \A i \in 1..m : <<B[i], B[i + 1]>> \in Links[stack[i]]
      BY <1>2, <2>2 DEF Chain
    <3> HIDE DEF m
    <3>2. m \in 1..m
      BY <3>1
    <3>3. <<B[m], file>> \in Links[s]
      BY <3>1, <3>2
    <3> QED BY <3>3 DEF m
  <2>4. /\ B[Len(stack)] \in Contents
        /\ file = Effect(s, B[Len(stack)]) /\ Saved(s, B[Len(stack)])
    BY <2>3, LinkMember
  <2>5. PICK b : b = B[Len(stack)]
    OBVIOUS
  <2>6. b \in Contents /\ file' = Effect(s, b)' /\ Saved(s, b)' /\ file' \in Contents
    BY <1>4, <2>4, <2>5 DEF GuardsType, Contents
  <2>7. <<b, file'>> \in Links'[s]
    BY <2>6, LinkMember
  <2> QED BY <1>2, <2>2, <2>5, <2>6, <2>7, LinksFrame, ChainTop
<1>5. BasesOK'
  BY <1>1, <1>4, Zenon DEF BasesOK, Chain, Contents, Original
<1> QED BY <1>3, <1>5

\* The innermost scope ends, and leaves what it found.
LEMMA InnerEnds ==
    ASSUME GuardsInv, GuardsType', NEW s \in Scopes, Alone(s), Acts(s, TRUE),
           phase[s] \in Active, phase'[s] \notin Active,
           ~spoiled' => /\ ~spoiled
                        /\ \A b \in Contents : file = Effect(s, b) /\ Saved(s, b) => file' = b
    PROVE  StackOK' /\ BasesOK'
<1> SUFFICES ASSUME nested' PROVE StackOK' /\ BasesOK'
  BY Zenon DEF StackOK, BasesOK
<1>1. nested /\ Last(stack) = s /\ stack' = Front(stack)
  BY Zenon DEF Acts
<1>2. /\ stack \in Seq(Scopes) /\ stack # <<>> /\ Distinct(stack)
      /\ Len(stack) \in Nat \ {0} /\ Len(stack) \in DOMAIN stack
      /\ s = stack[Len(stack)]
  BY <1>1, Innermost DEF GuardsInv
<1> DEFINE n == Len(stack)
<1>3. /\ stack' \in Seq(Scopes) /\ n \in Nat \ {0}
      /\ DOMAIN stack = 1..n /\ DOMAIN stack' = 1..(n - 1) /\ s = stack[n]
      /\ \A i \in 1..(n - 1) : stack'[i] = stack[i]
  BY <1>1, <1>2, FrontFacts, LenProperties
<1>4. StackOK'
  <2> HIDE DEF n
  <2>1. \A u \in Scopes : phase[u] \in Active <=> \E i \in DOMAIN stack : stack[i] = u
    BY <1>1 DEF GuardsInv, StackOK
  <2>2. \A i \in 1..n : i \in 1..(n - 1) <=> i # n
    BY <1>3
  <2>3. \A i \in 1..(n - 1) : i \in 1..n
    BY <1>3
  <2>4. n \in 1..n
    BY <1>3
  <2>5. \A i \in 1..(n - 1) : stack'[i] # s
    BY <1>2, <1>3, <2>2, <2>3, <2>4 DEF Distinct
  <2>6. ASSUME NEW u \in Scopes
        PROVE  phase'[u] \in Active <=> \E i \in DOMAIN stack' : stack'[i] = u
    <3>1. CASE u = s
      BY <1>3, <2>5, <3>1
    <3>2. CASE u # s
      <4>1. phase'[u] \in Active <=> phase[u] \in Active
        BY <3>2 DEF Alone
      <4>2. (\E i \in 1..n : stack[i] = u) <=> \E i \in 1..(n - 1) : stack'[i] = u
        BY <1>3, <2>2, <2>3, <3>2
      <4> QED BY <1>3, <2>1, <4>1, <4>2
    <3> QED BY <3>1, <3>2
  <2>7. Distinct(stack')
    BY <1>2, <1>3, <2>3 DEF Distinct
  <2> QED BY <1>3, <2>6, <2>7 DEF StackOK, Distinct, Active
<1>5. ASSUME ~spoiled'
      PROVE  \E C : Chain(C, stack', file', Links')
  <2>1. ~spoiled
    BY <1>5
  <2>2. PICK B : Chain(B, stack, file, Links)
    BY <1>1, <2>1 DEF GuardsInv, BasesOK
  <2>3. <<B[Len(stack)], file>> \in Links[s]
    <3> DEFINE m == Len(stack)
    <3>1. /\ m \in Nat \ {0} /\ B[m + 1] = file /\ s = stack[m]
          /\ \A i \in 1..m : <<B[i], B[i + 1]>> \in Links[stack[i]]
      BY <1>2, <2>2 DEF Chain
    <3> HIDE DEF m
    <3>2. m \in 1..m
      BY <3>1
    <3>3. <<B[m], file>> \in Links[s]
      BY <3>1, <3>2
    <3> QED BY <3>3 DEF m
  <2>4. /\ B[Len(stack)] \in Contents
        /\ file = Effect(s, B[Len(stack)]) /\ Saved(s, B[Len(stack)])
    BY <2>3, LinkMember
  <2>5. file' = B[Len(stack)]
    BY <1>5, <2>4
  <2> QED BY <1>1, <1>2, <2>2, <2>5, LinksFrame, ChainPop
<1>6. BasesOK'
  BY <1>5, Zenon DEF BasesOK, Chain, Contents, Original
<1> QED BY <1>4, <1>6

LEMMA ApplyKeeps ==
    ASSUME GuardsInv, NEW s \in Scopes, Apply(s)
    PROVE  GuardsInv'
<1>1. /\ phase[s] = "new" /\ phase' = [phase EXCEPT ![s] = "reading"]
      /\ pos' = [pos EXCEPT ![s] = 1] /\ stack' = Append(stack, s)
      /\ UNCHANGED <<kind, file, prev>>
  BY DEF Apply, Goto
<1>2. 1 \in 1..Files
  BY GuardsAssumption
<1>3. GuardsType'
  BY <1>1, <1>2 DEF GuardsInv, GuardsType, Phases, Contents
<1>4. phase'[s] = "reading" /\ pos'[s] = 1 /\ Alone(s)
  BY <1>1, <1>2 DEF GuardsInv, GuardsType, Alone
<1>5. nested' = nested /\ spoiled' = spoiled
  BY DEF Apply
<1> SUFFICES ASSUME nested' PROVE StackOK' /\ BasesOK'
  BY <1>3, Zenon DEF GuardsInv, StackOK, BasesOK
<1>6. nested
  BY <1>5, Zenon
<1>7. /\ stack \in Seq(Scopes) /\ Distinct(stack)
      /\ \A u \in Scopes : phase[u] \in Active <=> \E i \in DOMAIN stack : stack[i] = u
  BY <1>6 DEF GuardsInv, StackOK
<1>8. \A i \in DOMAIN stack : stack[i] # s
  BY <1>1, <1>7 DEF Active
<1>9. StackOK'
  <2> DEFINE n == Len(stack)
  <2>1. /\ n \in Nat /\ DOMAIN stack = 1..n /\ DOMAIN stack' = 1..(n + 1)
        /\ stack' \in Seq(Scopes) /\ stack'[n + 1] = s
        /\ \A i \in 1..n : stack'[i] = stack[i]
    BY <1>1, <1>7, LenProperties, AppendProperties
  <2> HIDE DEF n
  <2>2. \A i \in 1..(n + 1) : i \in 1..n \/ i = n + 1
    BY <2>1
  <2>3. n + 1 \in 1..(n + 1) /\ \A i \in 1..n : i \in 1..(n + 1)
    BY <2>1
  <2>4. Distinct(stack')
    BY <1>7, <1>8, <2>1, <2>2 DEF Distinct
  <2>5. ASSUME NEW u \in Scopes
        PROVE  phase'[u] \in Active <=> \E i \in DOMAIN stack' : stack'[i] = u
    <3>1. CASE u = s
      BY <1>4, <2>1, <2>3, <3>1 DEF Active
    <3>2. CASE u # s
      <4>1. phase'[u] \in Active <=> phase[u] \in Active
        BY <1>4, <3>2 DEF Alone
      <4>2. (\E i \in 1..n : stack[i] = u) <=> \E i \in 1..(n + 1) : stack'[i] = u
        BY <2>1, <2>2, <2>3, <3>2
      <4> QED BY <1>7, <2>1, <4>1, <4>2
    <3> QED BY <3>1, <3>2
  <2> QED BY <2>1, <2>4, <2>5 DEF StackOK, Distinct, Active
<1>10. ASSUME ~spoiled'
       PROVE  \E C : Chain(C, stack', file', Links')
  <2>1. ~spoiled
    BY <1>5, <1>10
  <2>2. PICK B : Chain(B, stack, file, Links)
    BY <1>6, <2>1 DEF GuardsInv, BasesOK
  <2>3. PICK f : f = file
    OBVIOUS
  <2>4. f \in Contents /\ file' = f
    BY <1>1, <2>3 DEF GuardsInv, GuardsType
  <2>5. \A k \in 1..Files : ~(k < 1)
    OBVIOUS
  <2>6. Effect(s, f)' = f
    <3>1. Effect(s, f)' = [k \in 1..Files |-> f[k]]
      BY <1>4, <2>5 DEF Effect
    <3> QED BY <2>4, <3>1 DEF Contents
  <2>7. Saved(s, f)'
    BY <1>4, <2>5 DEF Saved
  <2>8. <<f, f>> \in Links'[s]
    BY <2>4, <2>6, <2>7, LinkMember
  <2>9. \E C : Chain(C, Append(stack, s), f, Links')
    BY <1>4, <1>7, <1>8, <2>2, <2>3, <2>4, <2>8, LinksFrame, ChainPush
  <2> QED BY <1>1, <2>4, <2>9
<1>11. BasesOK'
  BY <1>10, Zenon DEF BasesOK, Chain, Contents, Original
<1> QED BY <1>9, <1>11

LEMMA ReadFileKeeps ==
    ASSUME GuardsInv, NEW s \in Scopes, ReadFile(s)
    PROVE  GuardsInv'
<1> DEFINE i == pos[s]
           j == pos'[s]
<1>1. /\ phase[s] = "reading" /\ file' = file /\ kind' = kind /\ i \in 1..Files
      /\ prev' = [prev EXCEPT ![s][i] = file[i]] /\ Acts(s, FALSE)
      /\ file[i] \in Int
      /\ phase'[s] \in {"reading", "writing"} /\ j \in 1..Files
      /\ phase' = [phase EXCEPT ![s] = phase'[s]] /\ pos' = [pos EXCEPT ![s] = j]
      /\ \/ kind = "governor" /\ phase'[s] = "reading" /\ j = i + 1
         \/ kind = "governor" /\ phase'[s] = "writing" /\ j = 1 /\ i = Files
         \/ kind = "config" /\ phase'[s] = "writing" /\ j = i
  <2>1. /\ phase[s] = "reading" /\ file' = file /\ kind' = kind
        /\ prev' = [prev EXCEPT ![s][i] = file[i]] /\ Acts(s, FALSE)
    BY DEF ReadFile
  <2>2. /\ i \in 1..Files /\ file[i] \in Int /\ kind \in {"config", "governor"}
        /\ phase \in [Scopes -> Phases] /\ pos \in [Scopes -> 1..Files]
    BY DEF GuardsInv, GuardsType, Contents
  <2>3. \/ kind = "governor" /\ i < Files /\ Goto(s, "reading", i + 1)
        \/ kind = "governor" /\ i = Files /\ Goto(s, "writing", 1)
        \/ kind = "config" /\ Goto(s, "writing", i)
    BY <2>2, GuardsAssumption DEF ReadFile
  <2>4. i + 1 \in Int /\ (i < Files => i + 1 \in 1..Files) /\ 1 \in 1..Files
    BY <2>2, GuardsAssumption
  <2> HIDE DEF i
  <2> QED BY <2>1, <2>2, <2>3, <2>4 DEF Goto
<1>2. GuardsType'
  BY <1>1 DEF GuardsInv, GuardsType, Phases, Contents
<1>3. Alone(s) /\ phase[s] \in Active /\ phase'[s] \in Active
  BY <1>1 DEF GuardsInv, GuardsType, Alone, Active
<1>4. ~spoiled' => ~spoiled
  BY Zenon DEF ReadFile
<1>5. ASSUME NEW b \in Contents, file = Effect(s, b), Saved(s, b)
      PROVE  file' = Effect(s, b)' /\ Saved(s, b)'
  <2>1. kind \in {"config", "governor"} /\ i \in Int /\ j \in Int
    BY <1>1 DEF GuardsInv, GuardsType
  <2>2. Effect(s, b)' = Effect(s, b)
    BY <1>1, <2>1 DEF Effect
  <2>3. file[i] = b[i]
    BY <1>1, <1>5 DEF Effect
  <2>4. prev'[s] = [prev[s] EXCEPT ![i] = b[i]] /\ prev[s] \in Contents
    BY <1>1, <2>3 DEF GuardsInv, GuardsType
  <2>5. \A k \in 1..Files : k < i => prev[s][k] = b[k]
    BY <1>5 DEF Saved
  <2>6. \A k \in 1..Files : k < i \/ k = i => prev'[s][k] = b[k]
    BY <2>4, <2>5 DEF Contents
  <2>7. Saved(s, b)'
    BY <1>1, <2>1, <2>6 DEF Saved
  <2> QED BY <1>1, <1>5, <2>2, <2>7
<1> QED BY <1>1, <1>2, <1>3, <1>4, <1>5, InnerMoves DEF GuardsInv

LEMMA WriteFileKeeps ==
    ASSUME GuardsInv, NEW s \in Scopes, WriteFile(s)
    PROVE  GuardsInv'
<1> DEFINE i == pos[s]
           j == pos'[s]
<1>1. /\ phase[s] = "writing" /\ kind' = kind /\ prev' = prev /\ i \in 1..Files
      /\ file' = [file EXCEPT ![i] = Wants[s][i]] /\ Acts(s, FALSE)
      /\ phase'[s] \in {"reading", "writing", "on"} /\ j \in 1..Files
      /\ phase' = [phase EXCEPT ![s] = phase'[s]] /\ pos' = [pos EXCEPT ![s] = j]
      /\ \/ phase'[s] = "on" /\ i = Files
         \/ kind = "governor" /\ phase'[s] = "writing" /\ j = i + 1
         \/ kind = "config" /\ phase'[s] = "reading" /\ j = i + 1
  <2>1. /\ phase[s] = "writing" /\ kind' = kind /\ prev' = prev
        /\ file' = [file EXCEPT ![i] = Wants[s][i]] /\ Acts(s, FALSE)
    BY DEF WriteFile
  <2>2. /\ i \in 1..Files /\ kind \in {"config", "governor"}
        /\ phase \in [Scopes -> Phases] /\ pos \in [Scopes -> 1..Files]
    BY DEF GuardsInv, GuardsType
  <2>3. \/ i = Files /\ Goto(s, "on", 1)
        \/ kind = "governor" /\ i < Files /\ Goto(s, "writing", i + 1)
        \/ kind = "config" /\ i < Files /\ Goto(s, "reading", i + 1)
    BY <2>2, GuardsAssumption DEF WriteFile
  <2>4. i + 1 \in Int /\ (i < Files => i + 1 \in 1..Files) /\ 1 \in 1..Files
    BY <2>2, GuardsAssumption
  <2> HIDE DEF i
  <2> QED BY <2>1, <2>2, <2>3, <2>4 DEF Goto
<1>2. Wants[s] \in Contents /\ Wants[s][i] \in Int /\ file \in Contents
  <2>1. Wants[s] \in Contents
    BY GuardsAssumption DEF Contents
  <2>2. file \in Contents
    BY DEF GuardsInv, GuardsType
  <2> QED BY <1>1, <2>1, <2>2 DEF Contents
<1>3. GuardsType'
  BY <1>1, <1>2 DEF GuardsInv, GuardsType, Phases, Contents
<1>4. Alone(s) /\ phase[s] \in Active /\ phase'[s] \in Active
  BY <1>1 DEF GuardsInv, GuardsType, Alone, Active
<1>5. ~spoiled' => ~spoiled
  BY Zenon DEF WriteFile
<1>6. ASSUME NEW b \in Contents, file = Effect(s, b), Saved(s, b)
      PROVE  file' = Effect(s, b)' /\ Saved(s, b)'
  <2>1. kind \in {"config", "governor"} /\ i \in Int /\ j \in Int
    BY <1>1 DEF GuardsInv, GuardsType
  <2>2. \A k \in 1..Files : file[k] = IF k < i THEN Wants[s][k] ELSE b[k]
    BY <1>1, <1>6 DEF Effect
  <2>3. \A k \in 1..Files : file'[k] = IF k <= i THEN Wants[s][k] ELSE b[k]
    BY <1>1, <1>2, <2>1, <2>2 DEF Contents
  <2>4. \A k \in 1..Files : k <= i <=> phase'[s] = "on" \/ k < j
    BY <1>1, <2>1, GuardsAssumption
  <2>5. \A k \in 1..Files : Effect(s, b)'[k] = IF phase'[s] = "on" \/ k < j THEN Wants[s][k] ELSE b[k]
    BY <1>1, <2>1 DEF Effect
  <2>6. DOMAIN Effect(s, b)' = 1..Files /\ Effect(s, b)' = [k \in 1..Files |-> Effect(s, b)'[k]]
    BY DEF Effect
  <2>7. file' = [k \in 1..Files |-> file'[k]]
    BY <1>3 DEF GuardsType, Contents
  <2>8. file' = Effect(s, b)'
    BY <2>3, <2>4, <2>5, <2>6, <2>7
  <2>9. \A k \in 1..Files : k <= i \/ kind = "governor" => prev[s][k] = b[k]
    BY <1>1, <1>6, <2>1 DEF Saved
  <2>10. Saved(s, b)'
    BY <1>1, <2>1, <2>9, GuardsAssumption DEF Saved
  <2> QED BY <2>8, <2>10
<1> QED BY <1>1, <1>3, <1>4, <1>5, <1>6, InnerMoves DEF GuardsInv

LEMMA FailKeeps ==
    ASSUME GuardsInv, NEW s \in Scopes, Fail(s)
    PROVE  GuardsInv'
<1>1. /\ phase[s] \in {"reading", "writing"} /\ kind' = kind /\ file' = file /\ prev' = prev
      /\ phase' = [phase EXCEPT ![s] = "failed"] /\ pos' = [pos EXCEPT ![s] = 1]
      /\ Acts(s, TRUE)
  BY DEF Fail, Goto
<1>2. GuardsType'
  BY <1>1, GuardsAssumption DEF GuardsInv, GuardsType, Phases, Contents
<1>3. Alone(s) /\ phase[s] \in Active /\ phase'[s] \notin Active
  BY <1>1 DEF GuardsInv, GuardsType, Alone, Active
<1>4. ~spoiled' => ~spoiled /\ ~(pos[s] > 1 /\ (kind = "config" \/ phase[s] = "writing"))
  BY Zenon DEF Fail
<1>5. ASSUME ~spoiled', NEW b \in Contents, file = Effect(s, b)
      PROVE  file' = b
  <2>1. pos[s] \in 1..Files
    BY DEF GuardsInv, GuardsType
  <2>2. ~(pos[s] > 1 /\ (kind = "config" \/ phase[s] = "writing"))
    BY <1>4, <1>5
  <2>3. Effect(s, b) = [k \in 1..Files |-> b[k]]
    BY <1>1, <2>1, <2>2 DEF Effect
  <2> QED BY <1>1, <1>5, <2>3 DEF Contents
<1> QED BY <1>1, <1>2, <1>3, <1>4, <1>5, InnerEnds DEF GuardsInv

LEMMA DropGuardKeeps ==
    ASSUME GuardsInv, NEW s \in Scopes, DropGuard(s)
    PROVE  GuardsInv'
<1>1. /\ phase[s] = "on" /\ kind' = kind /\ file' = file /\ prev' = prev
      /\ phase' = [phase EXCEPT ![s] = "restoring"] /\ pos' = [pos EXCEPT ![s] = 1]
      /\ Acts(s, FALSE)
  BY DEF DropGuard, Goto
<1>2. GuardsType'
  BY <1>1, GuardsAssumption DEF GuardsInv, GuardsType, Phases, Contents
<1>3. phase'[s] = "restoring" /\ pos'[s] = 1
  BY <1>1 DEF GuardsInv, GuardsType
<1>4. Alone(s) /\ phase[s] \in Active /\ phase'[s] \in Active
  BY <1>1 DEF GuardsInv, GuardsType, Alone, Active
<1>5. ~spoiled' => ~spoiled
  BY Zenon DEF DropGuard
<1>6. ASSUME NEW b \in Contents, file = Effect(s, b), Saved(s, b)
      PROVE  file' = Effect(s, b)' /\ Saved(s, b)'
  <2>1. \A k \in 1..Files : ~(k < 1)
    OBVIOUS
  <2>2. Effect(s, b)' = Effect(s, b)
    BY <1>1, <1>3, <2>1 DEF Effect
  <2>3. Saved(s, b)'
    BY <1>1, <1>3, <1>6 DEF Saved
  <2> QED BY <1>1, <1>6, <2>2, <2>3
<1> QED BY <1>1, <1>2, <1>4, <1>5, <1>6, InnerMoves DEF GuardsInv

LEMMA RestoreKeeps ==
    ASSUME GuardsInv, NEW s \in Scopes, Restore(s)
    PROVE  GuardsInv'
<1> DEFINE i == pos[s]
<1>1. /\ phase[s] = "restoring" /\ kind' = kind /\ prev' = prev
      /\ Acts(s, i = Files)
      /\ IF i = Files THEN Goto(s, "off", 1) ELSE Goto(s, "restoring", i + 1)
  BY DEF Restore
<1>2. /\ i \in 1..Files /\ prev[s] \in Contents /\ prev[s][i] \in Int /\ file \in Contents
      /\ phase \in [Scopes -> Phases] /\ pos \in [Scopes -> 1..Files]
  BY DEF GuardsInv, GuardsType, Contents
<1>3. file' = file \/ file' = [file EXCEPT ![i] = prev[s][i]]
  BY DEF Restore
<1>4. ~spoiled' => ~spoiled /\ file' = [file EXCEPT ![i] = prev[s][i]]
  BY Zenon DEF Restore
<1>5. file' \in Contents
  BY <1>2, <1>3 DEF Contents
<1>6. ASSUME NEW b \in Contents, file = Effect(s, b), Saved(s, b), ~spoiled'
      PROVE  file' = [k \in 1..Files |-> IF k <= i THEN b[k] ELSE Wants[s][k]]
  <2>1. \A k \in 1..Files : file[k] = IF k < i THEN b[k] ELSE Wants[s][k]
    BY <1>1, <1>6 DEF Effect
  <2>2. prev[s][i] = b[i]
    BY <1>1, <1>2, <1>6 DEF Saved
  <2>3. \A k \in 1..Files : file'[k] = IF k <= i THEN b[k] ELSE Wants[s][k]
    <3>1. file' = [file EXCEPT ![i] = b[i]]
      BY <1>4, <1>6, <2>2
    <3> HIDE DEF i
    <3>2. \A k \in 1..Files : file'[k] = IF k = i THEN b[i] ELSE file[k]
      BY <1>2, <3>1 DEF Contents
    <3>3. \A k \in 1..Files : k <= i <=> k < i \/ k = i
      BY <1>2
    <3> QED BY <2>1, <3>2, <3>3
  <2>4. file' = [k \in 1..Files |-> file'[k]]
    BY <1>5 DEF Contents
  <2> QED BY <2>3, <2>4
<1>7. CASE i = Files
  <2>1. /\ Acts(s, TRUE) /\ phase' = [phase EXCEPT ![s] = "off"]
        /\ pos' = [pos EXCEPT ![s] = 1]
    <3>1. phase' = [phase EXCEPT ![s] = "off"] /\ pos' = [pos EXCEPT ![s] = 1]
      BY <1>1, <1>7 DEF Goto
    <3>2. Acts(s, TRUE)
      BY <1>1, <1>7, Zenon DEF Acts
    <3> QED BY <3>1, <3>2
  <2>2. GuardsType'
    BY <1>1, <1>5, <2>1, GuardsAssumption DEF GuardsInv, GuardsType, Phases
  <2>3. Alone(s) /\ phase[s] \in Active /\ phase'[s] \notin Active
    BY <1>1, <1>2, <2>1 DEF Alone, Active
  <2>4. ASSUME ~spoiled', NEW b \in Contents, file = Effect(s, b), Saved(s, b)
        PROVE  file' = b
    <3>1. file' = [k \in 1..Files |-> b[k]]
      BY <1>6, <1>7, <2>4, GuardsAssumption
    <3> QED BY <3>1 DEF Contents
  <2> QED BY <1>4, <2>1, <2>2, <2>3, <2>4, InnerEnds DEF GuardsInv
<1>8. CASE i # Files
  <2>1. /\ Acts(s, FALSE) /\ phase' = [phase EXCEPT ![s] = "restoring"]
        /\ pos' = [pos EXCEPT ![s] = i + 1]
    <3>1. phase' = [phase EXCEPT ![s] = "restoring"] /\ pos' = [pos EXCEPT ![s] = i + 1]
      BY <1>1, <1>8 DEF Goto
    <3>2. Acts(s, FALSE)
      BY <1>1, <1>8, Zenon DEF Acts
    <3> QED BY <3>1, <3>2
  <2>2. i + 1 \in 1..Files
    BY <1>2, <1>8, GuardsAssumption
  <2>3. phase'[s] = "restoring" /\ pos'[s] = i + 1
    BY <1>2, <2>1
  <2>4. GuardsType'
    BY <1>1, <1>5, <2>1, <2>2 DEF GuardsInv, GuardsType, Phases
  <2>5. Alone(s) /\ phase[s] \in Active /\ phase'[s] \in Active
    BY <1>1, <1>2, <2>1 DEF Alone, Active
  <2>6. ASSUME ~spoiled', NEW b \in Contents, file = Effect(s, b), Saved(s, b)
        PROVE  file' = Effect(s, b)' /\ Saved(s, b)'
    <3>1. \A k \in 1..Files : k <= i <=> k < i + 1
      BY <1>2
    <3>2. Effect(s, b)' = [k \in 1..Files |-> IF k < i + 1 THEN b[k] ELSE Wants[s][k]]
      BY <2>3 DEF Effect
    <3>3. Saved(s, b)'
      BY <1>1, <2>3, <2>6 DEF Saved
    <3> QED BY <1>6, <2>6, <3>1, <3>2, <3>3
  <2> QED BY <1>4, <2>1, <2>4, <2>5, <2>6, InnerMoves DEF GuardsInv
<1> QED BY <1>7, <1>8

LEMMA GuardsInitially ==
    ASSUME GuardsInit
    PROVE  GuardsInv
<1>1. GuardsType
  BY GuardsAssumption DEF GuardsInit, GuardsType, Contents, Original, Phases
<1>2. stack = <<>> /\ file = Original /\ Original \in Contents
  BY DEF GuardsInit, Contents, Original
<1>3. Len(stack) = 0 /\ DOMAIN stack = {}
  BY <1>2
<1>4. StackOK
  BY <1>2, <1>3 DEF StackOK, Distinct, GuardsInit, Active
<1>5. Chain([i \in 1..1 |-> Original], stack, file, Links)
  BY <1>2, <1>3 DEF Chain
<1> QED BY <1>1, <1>4, <1>5 DEF GuardsInv, BasesOK

\* Tools that are not the guards leave them as they are.
LEMMA GuardsStutter ==
    ASSUME GuardsInv, UNCHANGED guardVars
    PROVE  GuardsInv'
<1>1. UNCHANGED <<kind, file, phase, pos, prev, stack, nested, spoiled>>
  BY DEF guardVars
<1>2. GuardsType'
  BY <1>1 DEF GuardsInv, GuardsType, Contents, Phases
<1>3. StackOK'
  BY <1>1, Zenon DEF GuardsInv, StackOK, Distinct, Active
<1>4. \A s, b : Effect(s, b)' = Effect(s, b) /\ (Saved(s, b)' <=> Saved(s, b))
  BY <1>1 DEF Effect, Saved
<1>5. Links' = Links
  BY <1>4 DEF Links, Contents
<1>6. ASSUME nested', ~spoiled'
      PROVE  \E C : Chain(C, stack', file', Links')
  <2>1. nested /\ ~spoiled
    BY <1>1, <1>6, Zenon
  <2> QED BY <1>1, <1>5, <2>1 DEF GuardsInv, BasesOK
<1>7. BasesOK'
  BY <1>6, Zenon DEF BasesOK, Chain, Contents, Original
<1> QED BY <1>2, <1>3, <1>7 DEF GuardsInv

LEMMA GuardsImplied ==
    ASSUME GuardsInv
    PROVE  GuardsRestore
<1> SUFFICES ASSUME nested, ~spoiled
             PROVE  /\ stack = <<>> => file = Original
                    /\ stack # <<>> /\ phase[Last(stack)] = "on" => file = Wants[Last(stack)]
  BY Zenon DEF GuardsRestore
<1>1. PICK B : Chain(B, stack, file, Links)
  BY DEF GuardsInv, BasesOK
<1>2. ASSUME stack = <<>> PROVE file = Original
  <2>1. Len(stack) + 1 = 1
    BY <1>2
  <2> QED BY <1>1, <2>1 DEF Chain
<1>3. ASSUME stack # <<>>, phase[Last(stack)] = "on"
      PROVE  file = Wants[Last(stack)]
  <2> DEFINE n == Len(stack)
             s == Last(stack)
  <2>1. /\ n \in Nat \ {0} /\ B[n + 1] = file /\ s = stack[n] /\ s \in Scopes
        /\ \A i \in 1..n : <<B[i], B[i + 1]>> \in Links[stack[i]]
    <3>1. stack \in Seq(Scopes)
      BY DEF GuardsInv, StackOK
    <3>2. n \in Nat \ {0} /\ n \in DOMAIN stack /\ s = stack[n]
      BY <1>3, <3>1, LenProperties, EmptySeq DEF Last
    <3>3. s \in Scopes
      BY <3>1, <3>2, LenProperties, ElementOfSeq
    <3>4. B[n + 1] = file /\ \A i \in 1..n : <<B[i], B[i + 1]>> \in Links[stack[i]]
      BY <1>1 DEF Chain
    <3> QED BY <3>2, <3>3, <3>4
  <2> HIDE DEF n
  <2>2. n \in 1..n
    BY <2>1
  <2>3. <<B[n], file>> \in Links[s]
    BY <2>1, <2>2
  <2>4. file = Effect(s, B[n])
    BY <2>1, <2>3, LinkMember
  <2>5. Effect(s, B[n]) = [k \in 1..Files |-> Wants[s][k]]
    BY <1>3 DEF Effect
  <2>6. Wants[s] \in [1..Files -> Int]
    BY <2>1, GuardsAssumption
  <2> QED BY <2>4, <2>5, <2>6
<1> QED BY <1>2, <1>3

\* The settings in force are those of the innermost guard, and the original ones
\* when there is none, for any number of scopes and files: GuardsRestore is an
\* invariant (SystemGuard and CpuGovernor, apply and drop).
THEOREM GuardsRestoreCorrect == Spec => []GuardsRestore
<1>1. Init => GuardsInv
  BY GuardsInitially DEF Init
<1>2. GuardsInv /\ [Next]_vars => GuardsInv'
  <2> SUFFICES ASSUME GuardsInv, [Next]_vars PROVE GuardsInv'
    OBVIOUS
  <2>1. CASE GuardsNext
    <3>1. PICK s \in Scopes : \/ Apply(s) \/ ReadFile(s) \/ WriteFile(s) \/ Fail(s)
                              \/ DropGuard(s) \/ Restore(s)
      BY <2>1 DEF GuardsNext
    <3> QED BY <3>1, ApplyKeeps, ReadFileKeeps, WriteFileKeeps, FailKeeps, DropGuardKeeps,
               RestoreKeeps
  <2>2. CASE UNCHANGED guardVars
    BY <2>2, GuardsStutter
  <2> QED BY <2>1, <2>2 DEF Next, vars
<1>3. GuardsInv => GuardsRestore
  BY GuardsImplied
<1> QED BY <1>1, <1>2, <1>3, PTL DEF Spec

-----------------------------------------------------------------------------
\* Interval

\* Facts of arithmetic about multiples of the period.
LEMMA MultipleMod ==
    ASSUME NEW m \in Int, NEW p \in Nat \ {0}
    PROVE  (m * p) % p = 0
OBVIOUS

LEMMA Distributes ==
    ASSUME NEW a \in Int, NEW b \in Int, NEW p \in Int
    PROVE  a * p \in Int /\ (a + b) * p = a * p + b * p
OBVIOUS

LEMMA NextMultiple ==
    ASSUME NEW d \in Nat, NEW p \in Nat \ {0}
    PROVE  d \div p \in Nat /\ d < ((d \div p) + 1) * p
OBVIOUS

\* Skip passes whole periods, one at least, and ends after the instant read.
LEMMA SkippedFacts ==
    ASSUME NEW n \in Int, NEW t \in Int, n <= t
    PROVE  \E k \in Nat \ {0} : Skipped(n, t) = n + k * Period /\ t < n + k * Period
<1> DEFINE q == (t - n) \div Period
<1>1. t - n \in Nat /\ Period \in Nat \ {0}
  BY IntervalAssumption
<1>2. q \in Nat /\ t - n < (q + 1) * Period
  BY <1>1, NextMultiple
<1>3. Skipped(n, t) = n + Period * (q + 1)
  BY DEF Skipped
<1> HIDE DEF q
<1>4. q + 1 \in Nat \ {0} /\ (q + 1) * Period \in Int /\ Period * (q + 1) = (q + 1) * Period
  BY <1>1, <1>2
<1>5. Skipped(n, t) = n + (q + 1) * Period /\ t < n + (q + 1) * Period
  BY <1>2, <1>3, <1>4
<1> QED BY <1>4, <1>5

\* The passes that have moved nextTick.
Passes == calls - exact

\* IntervalKeepsPace is inductive with two more facts: nextTick is never behind
\* the passes made, for each behaviour, and lies whole periods after the start
\* unless it was set to the clock by Delay.
OnPace ==
    /\ Passes * Period <= nextTick - start
    /\ (Passes - 1) * Period <= now - start
    /\ behavior = "Burst" => nextTick = start + Passes * Period
    /\ behavior # "Delay" => \E m \in Int : nextTick = start + m * Period
    /\ behavior # "Burst" => nextTick > last.at \/ last.met = "exact"

IntervalInv ==
    /\ nextTick \in Int /\ start \in Int /\ calls \in Nat /\ exact \in Nat
    /\ tool = "Interval" => now \in Nat
    /\ behavior \in MissedTickBehavior
    /\ nextTick = NoTick => calls = 0 /\ exact = 0
    /\ nextTick # NoTick => tool = "Interval" /\ 0 <= start /\ 0 <= nextTick /\ OnPace

\* A pass that moves nextTick by k periods, k = 1 with Burst, at a clock that has
\* reached it.
LEMMA PassKeeps ==
    ASSUME IntervalInv, nextTick # NoTick, NEW k \in Nat \ {0},
           calls' = calls + 1, UNCHANGED <<exact, start, behavior, tool>>,
           nextTick' = nextTick + k * Period, behavior = "Burst" => k = 1,
           now' \in Nat, nextTick <= now',
           behavior # "Burst" => nextTick' > last'.at
    PROVE  IntervalInv'
<1> DEFINE a == Passes
<1>0. /\ nextTick \in Int /\ start \in Int /\ calls \in Nat /\ exact \in Nat
      /\ Period \in Nat \ {0} /\ 0 <= start /\ 0 <= nextTick /\ OnPace /\ tool = "Interval"
      /\ behavior \in MissedTickBehavior
  BY IntervalAssumption DEF IntervalInv
<1>1. /\ a \in Int /\ Passes' = a + 1 /\ Passes' - 1 = a
  BY <1>0 DEF Passes
<1>2. /\ a * Period <= nextTick - start
      /\ behavior = "Burst" => nextTick = start + a * Period
      /\ behavior # "Delay" => \E m \in Int : nextTick = start + m * Period
  BY <1>0 DEF OnPace
<1> HIDE DEF a
<1>3. /\ a * Period \in Int /\ k * Period \in Int /\ Period <= k * Period
      /\ (a + 1) * Period = a * Period + Period
      /\ (k = 1 => k * Period = Period)
  BY <1>0, <1>1
<1>4. nextTick' \in Int /\ 0 <= nextTick'
  BY <1>0, <1>3
<1>5. (a + 1) * Period <= nextTick' - start'
  BY <1>0, <1>2, <1>3
<1>6. a * Period <= now' - start'
  BY <1>0, <1>2, <1>3
<1>7. behavior' = "Burst" => nextTick' = start' + (a + 1) * Period
  BY <1>0, <1>2, <1>3
<1>8. behavior' # "Delay" => \E m \in Int : nextTick' = start' + m * Period
  <2> SUFFICES ASSUME behavior # "Delay" PROVE \E m \in Int : nextTick' = start + m * Period
    OBVIOUS
  <2>1. PICK m \in Int : nextTick = start + m * Period
    BY <1>2
  <2>2. m * Period \in Int /\ (m + k) * Period = m * Period + k * Period /\ m + k \in Int
    BY <1>0, Distributes
  <2>3. nextTick' = start + (m + k) * Period
    BY <1>0, <1>3, <2>1, <2>2
  <2> QED BY <2>2, <2>3
<1>9. OnPace'
  BY <1>1, <1>5, <1>6, <1>7, <1>8 DEF OnPace
<1> QED BY <1>0, <1>4, <1>9 DEF IntervalInv, NoTick

LEMMA TickKeeps ==
    ASSUME IntervalInv, Tick, tool = "Interval", tool' = tool
    PROVE  IntervalInv'
<1>0. /\ nextTick \in Int /\ start \in Int /\ calls \in Nat /\ exact \in Nat /\ now \in Nat
      /\ Period \in Nat \ {0} /\ MaxTime \in Nat /\ behavior \in MissedTickBehavior
      /\ NoTick = -1
  BY IntervalAssumption, ClockAssumption DEF IntervalInv, NoTick
<1>1. PICK t \in Later :
        /\ calls' = calls + 1
        /\ last' = [met |-> Met(t), at |-> t]
        /\ start' = IF nextTick = NoTick THEN t ELSE start
        /\ exact' = IF Met(t) = "exact" THEN exact + 1 ELSE exact
        /\ \/ Met(t) = "first" /\ nextTick' = t + Period /\ now' = t
           \/ Met(t) = "early" /\ nextTick' = nextTick + Period /\ now' \in nextTick..MaxTime
           \/ Met(t) = "exact" /\ nextTick' = nextTick /\ now' = t
           \/ /\ Met(t) = "late" /\ now' = t
              /\ nextTick' = CASE behavior = "Burst" -> nextTick + Period
                               [] behavior = "Delay" -> t + Period
                               [] behavior = "Skip" -> Skipped(nextTick, t)
        /\ behavior' = behavior
  BY DEF Tick
<1>2. t \in Nat /\ now <= t /\ last'.at = t /\ last'.met = Met(t)
  BY <1>0, <1>1 DEF Later
<1>3. 1 * Period = Period
  BY <1>0
<1>4. CASE Met(t) = "first"
  <2>1. nextTick = NoTick /\ calls = 0 /\ exact = 0
    BY <1>4 DEF Met, IntervalInv
  <2>2. /\ nextTick' = t + Period /\ now' = t /\ start' = t /\ calls' = 1 /\ exact' = 0
        /\ behavior' = behavior
    BY <1>1, <1>4, <2>1
  <2>3. Passes' = 1
    BY <2>2 DEF Passes
  <2>4. nextTick' = start' + 1 * Period /\ (1 - 1) * Period = 0
    BY <1>0, <1>3, <2>2
  <2>5. OnPace'
    BY <1>0, <1>2, <1>3, <2>2, <2>3, <2>4 DEF OnPace
  <2> QED BY <1>0, <1>2, <2>2, <2>5 DEF IntervalInv
<1>5. CASE Met(t) = "early"
  <2>1. nextTick # NoTick /\ t < nextTick
    BY <1>0, <1>2, <1>5 DEF Met
  <2>2. /\ nextTick' = nextTick + 1 * Period /\ nextTick <= now' /\ now' \in Int
        /\ start' = start /\ exact' = exact /\ calls' = calls + 1 /\ behavior' = behavior
    BY <1>0, <1>1, <1>3, <1>5, <2>1
  <2>3. now' \in Nat /\ nextTick' > last'.at
    BY <1>0, <1>2, <1>3, <2>1, <2>2
  <2> QED BY <2>1, <2>2, <2>3, PassKeeps
<1>6. CASE Met(t) = "exact"
  <2>1. nextTick # NoTick /\ t = nextTick
    BY <1>0, <1>2, <1>6 DEF Met
  <2>2. /\ nextTick' = nextTick /\ now' = t /\ start' = start /\ exact' = exact + 1
        /\ calls' = calls + 1 /\ behavior' = behavior /\ last'.met = "exact"
    BY <1>1, <1>2, <1>6, <2>1
  <2>3. Passes' = Passes /\ Passes \in Int
    BY <1>0, <2>2 DEF Passes
  <2>4. OnPace /\ 0 <= start /\ 0 <= nextTick
    BY <2>1 DEF IntervalInv
  <2>5. (Passes - 1) * Period <= now' - start
    <3>1. (Passes - 1) * Period <= now - start
      BY <2>4 DEF OnPace
    <3>2. (Passes - 1) * Period \in Int
      BY <1>0, <2>3
    <3> QED BY <1>0, <1>2, <2>2, <3>1, <3>2
  <2>6. OnPace'
    BY <2>2, <2>3, <2>4, <2>5 DEF OnPace
  <2> QED BY <1>0, <1>2, <2>1, <2>2, <2>4, <2>6 DEF IntervalInv
<1>7. CASE Met(t) = "late"
  <2>1. nextTick # NoTick /\ nextTick < t
    BY <1>0, <1>2, <1>7 DEF Met
  <2>0. nextTick' = CASE behavior = "Burst" -> nextTick + Period
                       [] behavior = "Delay" -> t + Period
                       [] behavior = "Skip" -> Skipped(nextTick, t)
    BY <1>1, <1>7
  <2>2. /\ start' = start /\ exact' = exact /\ calls' = calls + 1 /\ behavior' = behavior
        /\ now' = t /\ now' \in Nat /\ nextTick <= t
    <3>1. now' = t
      BY <1>1, <1>7
    <3>2. start' = start /\ exact' = exact /\ calls' = calls + 1 /\ behavior' = behavior
      BY <1>1, <1>7, <2>1
    <3>3. nextTick <= t
      BY <1>0, <1>2, <2>1
    <3> QED BY <1>2, <3>1, <3>2, <3>3
  <2>3. CASE behavior = "Burst"
    <3>1. nextTick' = nextTick + 1 * Period
      BY <1>3, <2>0, <2>3
    <3> QED BY <2>1, <2>2, <2>3, <3>1, PassKeeps
  <2>4. CASE behavior = "Skip"
    <3>1. nextTick' = Skipped(nextTick, t)
      BY <2>0, <2>4
    <3>2. PICK k \in Nat \ {0} : /\ Skipped(nextTick, t) = nextTick + k * Period
                                 /\ t < nextTick + k * Period
      <4>1. t \in Int /\ nextTick \in Int /\ nextTick <= t
        BY <1>0, <1>2, <2>2
      <4> QED BY <4>1, SkippedFacts
    <3>3. nextTick' = nextTick + k * Period /\ nextTick' > last'.at
      BY <1>0, <1>2, <3>1, <3>2
    <3> QED BY <2>1, <2>2, <2>4, <3>3, PassKeeps
  <2>5. CASE behavior = "Delay"
    <3>1. nextTick' = t + Period
      BY <2>0, <2>5
    <3>2. OnPace /\ 0 <= start
      BY <2>1 DEF IntervalInv
    <3> DEFINE a == Passes
    <3>3. a \in Int /\ Passes' = a + 1 /\ Passes' - 1 = a
      BY <1>0, <2>2 DEF Passes
    <3>4. a * Period <= nextTick - start
      BY <3>2 DEF OnPace
    <3> HIDE DEF a
    <3>5. a * Period \in Int /\ (a + 1) * Period = a * Period + Period
      BY <1>0, <3>3
    <3>6. (a + 1) * Period <= nextTick' - start /\ a * Period <= now' - start
      BY <1>0, <1>2, <2>1, <2>2, <3>1, <3>4, <3>5
    <3>7. nextTick' > last'.at
      BY <1>0, <1>2, <3>1
    <3>8. OnPace'
      BY <2>2, <2>5, <3>3, <3>6, <3>7 DEF OnPace
    <3>9. nextTick' \in Int /\ 0 <= nextTick'
      BY <1>0, <1>2, <3>1
    <3> QED BY <1>0, <2>2, <3>2, <3>8, <3>9 DEF IntervalInv, NoTick
  <2> QED BY <1>0, <2>3, <2>4, <2>5 DEF MissedTickBehavior
<1> QED BY <1>1, <1>4, <1>5, <1>6, <1>7

\* A loop on tick runs at the period, for every period and every behaviour:
\* IntervalKeepsPace is an invariant (Interval::tick).
THEOREM IntervalKeepsPaceCorrect == Spec => []IntervalKeepsPace
<1>1. Init => IntervalInv
  BY DEF Init, IntervalInit, IntervalInv, NoTick
<1>2. IntervalInv /\ [Next]_vars => IntervalInv'
  <2> SUFFICES ASSUME IntervalInv, [Next]_vars PROVE IntervalInv'
    OBVIOUS
  <2>1. CASE tool = "Interval" /\ IntervalNext /\ UNCHANGED tool
    BY <2>1, TickKeeps DEF IntervalNext
  <2>2. CASE tool = "TtlCell" /\ TtlNext /\ UNCHANGED <<tool, intervalVars>>
    <3>1. nextTick = NoTick
      BY <2>2 DEF IntervalInv
    <3> QED BY <2>2, <3>1 DEF IntervalInv, intervalVars
  <2>3. CASE UNCHANGED <<tool, now, intervalVars>>
    BY <2>3 DEF IntervalInv, intervalVars, OnPace, Passes
  <2> QED BY <2>1, <2>2, <2>3 DEF Next, vars
<1>3. IntervalInv => IntervalKeepsPace
  <2> SUFFICES ASSUME IntervalInv, nextTick # NoTick
               PROVE  /\ (calls - exact - 1) * Period <= now - start
                      /\ behavior = "Burst" => nextTick = start + (calls - exact) * Period
                      /\ behavior # "Delay" => (nextTick - start) % Period = 0
                      /\ behavior # "Burst" => nextTick > last.at \/ last.met = "exact"
    BY DEF IntervalKeepsPace
  <2>1. OnPace
    BY DEF IntervalInv
  <2>2. ASSUME behavior # "Delay" PROVE (nextTick - start) % Period = 0
    <3>1. PICK m \in Int : nextTick = start + m * Period
      BY <2>1, <2>2 DEF OnPace
    <3>2. Period \in Nat \ {0} /\ start \in Int
      BY IntervalAssumption DEF IntervalInv
    <3>3. m * Period \in Int
      BY <3>2
    <3>4. nextTick - start = m * Period
      BY <3>1, <3>2, <3>3
    <3> QED BY <3>2, <3>4, MultipleMod
  <2> QED BY <2>1, <2>2 DEF OnPace, Passes
<1> QED BY <1>1, <1>2, <1>3, PTL DEF Spec

-----------------------------------------------------------------------------
\* EventMap

LEMMA LeastNatural ==
    ASSUME NEW T \in SUBSET Nat, T # {}
    PROVE  \E n \in T : \A m \in T : n <= m
<1> DEFINE R == OpToRel(<, Nat)
<1>1. \A n, m \in Nat : <<m, n>> \in R <=> m < n
  BY DEF OpToRel
<1>2. \E n \in T : \A m \in T : ~(<<m, n>> \in R)
  BY NatLessThanWellFounded, WFMin
<1> HIDE DEF R
<1>3. PICK n \in T : \A m \in T : ~(<<m, n>> \in R)
  BY <1>2
<1>4. \A m \in T : m \in Nat /\ n \in Nat /\ ~(m < n)
  BY <1>1, <1>3
<1>5. \A m \in T : n <= m
  BY <1>4
<1> QED BY <1>5

\* A set of keys has a first and a last one.
LEMMA KeysHaveMin ==
    ASSUME NEW S \in SUBSET Keys, S # {}
    PROVE  Min(S) \in S /\ \A k \in S : Min(S) <= k
<1> DEFINE T == {k + Half : k \in S}
<1>0. Half \in Nat /\ \A k \in S : k \in Int /\ k + Half \in Nat
  BY EventAssumption DEF Keys
<1>1. T \in SUBSET Nat /\ T # {}
  BY <1>0
<1>2. PICK n \in T : \A m \in T : n <= m
  BY <1>1, LeastNatural
<1>3. PICK x \in S : n = x + Half
  BY <1>2
<1>4. \A k \in S : x + Half <= k + Half
  BY <1>2, <1>3
<1>5. \A k \in S : x <= k
  BY <1>0, <1>4
<1> QED BY <1>5 DEF Min

LEMMA KeysHaveMax ==
    ASSUME NEW S \in SUBSET Keys, S # {}
    PROVE  Max(S) \in S /\ \A k \in S : k <= Max(S)
<1> DEFINE T == {Half - k : k \in S}
<1>0. Half \in Nat /\ \A k \in S : k \in Int /\ Half - k \in Nat
  BY EventAssumption DEF Keys
<1>1. T \in SUBSET Nat /\ T # {}
  BY <1>0
<1>2. PICK n \in T : \A m \in T : n <= m
  BY <1>1, LeastNatural
<1>3. PICK x \in S : n = Half - x
  BY <1>2
<1>4. \A k \in S : Half - x <= Half - k
  BY <1>2, <1>3
<1>5. \A k \in S : x >= k
  BY <1>0, <1>4
<1>6. Max(S) \in S /\ \A k \in S : Max(S) >= k
  BY <1>5 DEF Max
<1> QED BY <1>0, <1>6

\* A difference the key type can hold is computed as it is.
LEMMA SubExact ==
    ASSUME NEW x \in Int, NEW y \in Int, 0 <= x - y, x - y < Half
    PROVE  Sub(x, y) = x - y
<1> DEFINE a == x - y + Half
<1>1. a \in Int /\ 0 <= a /\ a < 2 * Half /\ Half \in Nat \ {0}
  BY EventAssumption
<1> HIDE DEF a
<1>2. a % (2 * Half) = a
  BY <1>1
<1>3. Sub(x, y) = a - Half
  BY <1>2 DEF Sub, a
<1> QED BY <1>1, <1>3 DEF a

\* k is nearer to key than every other event, or as near and earlier.
IsNearest(k, key) ==
    \A j \in DOMAIN data \ {k} :
        \/ Distance(k, key) < Distance(j, key)
        \/ Distance(k, key) = Distance(j, key) /\ k < j

EventInv == DOMAIN data \subseteq Keys

LEMMA NearestIs ==
    ASSUME EventInv, NEW key \in Keys, NEW k \in DOMAIN data, IsNearest(k, key)
    PROVE  Nearest(key) = k
<1>1. DOMAIN data \subseteq Int /\ key \in Int
  BY EventAssumption DEF EventInv, Keys
<1>2. \A j \in DOMAIN data : Distance(j, key) \in Int
  BY <1>1 DEF Distance
<1>3. ASSUME NEW j \in DOMAIN data, IsNearest(j, key) PROVE j = k
  BY <1>1, <1>2, <1>3 DEF IsNearest
<1>4. Nearest(key) = CHOOSE j \in DOMAIN data : IsNearest(j, key)
  BY DEF Nearest, IsNearest
<1> QED BY <1>3, <1>4

\* What get_closest_to chooses among the neighbours of key is the nearest event,
\* at its true distance.
LEMMA ClosestFacts ==
    ASSUME EventInv, NEW key \in Keys, DOMAIN data # {},
           \A S \in {LowerKeys(key), UpperKeys(key)} \ {{}} :
               \E k \in S : Distance(k, key) \in Keys
    PROVE  /\ Closest(key).key = Nearest(key)
           /\ Closest(key).delta = Distance(Nearest(key), key)
<1> DEFINE L == LowerKeys(key)
           U == UpperKeys(key)
           l == Max(L)
           u == Min(U)
<1>0. /\ DOMAIN data \subseteq Int /\ key \in Int /\ Half \in Nat \ {0}
      /\ L \in SUBSET Keys /\ U \in SUBSET Keys
      /\ \A d \in Keys : d < Half
  BY EventAssumption DEF EventInv, Keys, LowerKeys, UpperKeys
<1>1. /\ \A k \in L : k \in DOMAIN data /\ k <= key
      /\ \A k \in U : k \in DOMAIN data /\ key <= k
      /\ \A k \in DOMAIN data : k \in L \/ k \in U
  BY <1>0 DEF LowerKeys, UpperKeys
<1>2. \A k \in L : Distance(k, key) = key - k
  BY <1>0, <1>1 DEF Distance
<1>3. \A k \in U : Distance(k, key) = k - key
  BY <1>0, <1>1 DEF Distance
<1>4. ASSUME L # {}
      PROVE  /\ l \in L /\ l \in Int /\ l <= key /\ \A k \in L : k <= l
             /\ Sub(key, l) = key - l
  <2>1. l \in L /\ \A k \in L : k <= l
    BY <1>0, <1>4, KeysHaveMax
  <2>2. PICK k \in L : Distance(k, key) \in Keys
    BY <1>4
  <2>3. l \in Int /\ k \in Int /\ l <= key /\ k <= l /\ key - k < Half
    BY <1>0, <1>1, <1>2, <2>1, <2>2
  <2>4. 0 <= key - l /\ key - l < Half
    BY <1>0, <2>3
  <2> QED BY <1>0, <2>1, <2>3, <2>4, SubExact
<1>5. ASSUME U # {}
      PROVE  /\ u \in U /\ u \in Int /\ key <= u /\ \A k \in U : u <= k
             /\ Sub(u, key) = u - key
  <2>1. u \in U /\ \A k \in U : u <= k
    BY <1>0, <1>5, KeysHaveMin
  <2>2. PICK k \in U : Distance(k, key) \in Keys
    BY <1>5
  <2>3. u \in Int /\ k \in Int /\ key <= u /\ u <= k /\ k - key < Half
    BY <1>0, <1>1, <1>3, <2>1, <2>2
  <2>4. 0 <= u - key /\ u - key < Half
    BY <1>0, <2>3
  <2> QED BY <1>0, <2>1, <2>3, <2>4, SubExact
<1>6. Closest(key) = IF L # {} /\ (U # {} => Sub(key, l) <= Sub(u, key))
                     THEN [key |-> l, delta |-> Sub(key, l)]
                     ELSE [key |-> u, delta |-> Sub(u, key)]
  BY DEF Closest
<1>7. L # {} \/ U # {}
  BY <1>1
<1> HIDE DEF L, U, l, u
<1>8. CASE L # {} /\ (U # {} => Sub(key, l) <= Sub(u, key))
  <2>1. Closest(key).key = l /\ Closest(key).delta = key - l
    BY <1>4, <1>6, <1>8
  <2>2. ASSUME NEW j \in DOMAIN data \ {l}
        PROVE  \/ Distance(l, key) < Distance(j, key)
               \/ Distance(l, key) = Distance(j, key) /\ l < j
    <3>1. CASE j \in L
      BY <1>0, <1>2, <1>4, <1>8, <2>2, <3>1
    <3>2. CASE j \in U
      <4>1. u <= j /\ key - l <= u - key
        BY <1>4, <1>5, <1>8, <3>2
      <4>2. Distance(j, key) = j - key /\ Distance(l, key) = key - l
        BY <1>2, <1>3, <1>4, <1>8, <3>2
      <4>3. j \in Int /\ u \in Int /\ l \in Int /\ l <= key /\ key <= j /\ l # j
        BY <1>0, <1>1, <1>4, <1>5, <1>8, <3>2
      <4> QED BY <1>0, <4>1, <4>2, <4>3
    <3> QED BY <1>1, <3>1, <3>2
  <2>3. l \in DOMAIN data /\ IsNearest(l, key) /\ Distance(l, key) = key - l
    BY <1>1, <1>2, <1>4, <1>8, <2>2 DEF IsNearest
  <2> QED BY <2>1, <2>3, NearestIs
<1>9. CASE U # {} /\ (L # {} => Sub(u, key) < Sub(key, l))
  <2>1. Closest(key).key = u /\ Closest(key).delta = u - key
    <3>1. ~(L # {} /\ (U # {} => Sub(key, l) <= Sub(u, key)))
      BY <1>0, <1>4, <1>5, <1>9
    <3> QED BY <1>5, <1>6, <1>9, <3>1
  <2>2. ASSUME NEW j \in DOMAIN data \ {u}
        PROVE  \/ Distance(u, key) < Distance(j, key)
               \/ Distance(u, key) = Distance(j, key) /\ u < j
    <3>1. CASE j \in U
      BY <1>0, <1>3, <1>5, <1>9, <2>2, <3>1
    <3>2. CASE j \in L
      <4>1. j <= l /\ u - key < key - l
        BY <1>4, <1>5, <1>9, <3>2
      <4>2. Distance(j, key) = key - j /\ Distance(u, key) = u - key
        BY <1>2, <1>3, <1>5, <1>9, <3>2
      <4>3. j \in Int /\ u \in Int /\ l \in Int
        BY <1>0, <1>4, <1>5, <1>9, <3>2
      <4> QED BY <1>0, <4>1, <4>2, <4>3
    <3> QED BY <1>1, <3>1, <3>2
  <2>3. u \in DOMAIN data /\ IsNearest(u, key) /\ Distance(u, key) = u - key
    BY <1>1, <1>3, <1>5, <1>9, <2>2 DEF IsNearest
  <2> QED BY <2>1, <2>3, NearestIs
<1> QED BY <1>0, <1>4, <1>5, <1>7, <1>8, <1>9

\* For keys of every width, get_closest_to finds the nearest event and its true
\* distance wherever the key type can hold it: ClosestIsNearest is an invariant
\* (EventMap::get_closest_to with insert, cleanup, clear and with_max_delta).
THEOREM ClosestIsNearestCorrect == Spec => []ClosestIsNearest
<1>1. Init => EventInv
  BY DEF Init, EventInit, EventInv
<1>2. EventInv /\ [Next]_vars => EventInv'
  <2> SUFFICES ASSUME EventInv, [Next]_vars PROVE EventInv'
    OBVIOUS
  <2>1. CASE EventNext
    <3>1. ASSUME NEW key \in Keys, Cleanup(key) PROVE EventInv'
      BY <3>1 DEF EventInv, Cleanup, UpperKeys, Keys
    <3>2. ASSUME NEW key \in Keys, NEW v \in Events, Insert(key, v) PROVE EventInv'
      BY <3>2 DEF EventInv, Insert, Keys
    <3>3. CASE ClearAll
      BY <3>3 DEF EventInv, ClearAll
    <3>4. ASSUME NEW d \in MaxDeltas, WithMaxDelta(d) PROVE EventInv'
      BY <3>4 DEF EventInv, WithMaxDelta, Keys
    <3> QED BY <2>1, <3>1, <3>2, <3>3, <3>4 DEF EventNext
  <2>2. CASE UNCHANGED eventVars
    BY <2>2 DEF eventVars, EventInv, Keys
  <2> QED BY <2>1, <2>2 DEF Next, vars
<1>3. EventInv => ClosestIsNearest
  BY ClosestFacts DEF ClosestIsNearest, GetClosestTo
<1> QED BY <1>1, <1>2, <1>3, PTL DEF Spec

-----------------------------------------------------------------------------
\* DataBuffer

BufferType ==
    /\ buf \in Seq(Nat) /\ gone \in Seq(Nat) /\ pushes \in Nat
    /\ refused \subseteq 1..pushes /\ reported \in Nat

BufferInv == BufferType /\ BufferAccounts

\* The values of s are the pushes of P, in order.
Pushes(s, P) ==
    /\ \A i, j \in DOMAIN s : i < j => s[i] < s[j]
    /\ {s[i] : i \in DOMAIN s} = P

\* The newest push goes to the end.
LEMMA PushesAppend ==
    ASSUME NEW s \in Seq(Nat), NEW n \in Nat, NEW P \in SUBSET (1..n), Pushes(s, P)
    PROVE  Pushes(Append(s, n + 1), P \cup {n + 1})
<1> DEFINE t == Append(s, n + 1)
<1>1. /\ Len(s) \in Nat /\ DOMAIN s = 1..Len(s) /\ DOMAIN t = 1..(Len(s) + 1)
      /\ \A i \in DOMAIN s : t[i] = s[i] /\ s[i] \in Nat
      /\ t[Len(s) + 1] = n + 1
  BY AppendProperties, LenProperties, ElementOfSeq
<1>2. \A i \in DOMAIN s : s[i] \in P /\ s[i] <= n
  BY DEF Pushes
<1> HIDE DEF t
<1>3. \A i \in DOMAIN t : i \in DOMAIN s \/ i = Len(s) + 1
  BY <1>1
<1>4. \A i, j \in DOMAIN t : i < j => t[i] < t[j]
  <2> SUFFICES ASSUME NEW i \in DOMAIN t, NEW j \in DOMAIN t, i < j PROVE t[i] < t[j]
    OBVIOUS
  <2>1. i \in DOMAIN s
    BY <1>1
  <2>2. CASE j \in DOMAIN s
    BY <1>1, <2>1, <2>2 DEF Pushes
  <2>3. CASE j = Len(s) + 1
    BY <1>1, <1>2, <2>1, <2>3
  <2> QED BY <1>3, <2>2, <2>3
<1>5. {t[i] : i \in DOMAIN t} \subseteq P \cup {n + 1}
  BY <1>1, <1>2, <1>3
<1>6. P \cup {n + 1} \subseteq {t[i] : i \in DOMAIN t}
  <2>1. n + 1 \in {t[i] : i \in DOMAIN t}
    BY <1>1
  <2>2. ASSUME NEW m \in P PROVE m \in {t[i] : i \in DOMAIN t}
    <3>1. PICK i \in DOMAIN s : s[i] = m
      BY DEF Pushes
    <3>2. i \in DOMAIN t /\ t[i] = m
      BY <1>1, <3>1
    <3> QED BY <3>2
  <2> QED BY <2>1, <2>2
<1>7. Pushes(t, P \cup {n + 1})
  BY <1>4, <1>5, <1>6 DEF Pushes
<1> QED BY <1>7 DEF t

\* Parts of the buffer move over and m comes in: the whole grows by m.
LEMMA WholeGrows ==
    ASSUME NEW S, NEW g \in Seq(S), NEW u \in Seq(S), NEW w \in Seq(S), NEW m \in S
    PROVE  (g \o u) \o Append(w, m) = Append(g \o (u \o w), m)
<1> DEFINE h == g \o u
<1>1. h \in Seq(S)
  BY ConcatProperties
<1>2. h \o w = g \o (u \o w)
  BY ConcatAssociative
<1> HIDE DEF h
<1>3. h \o Append(w, m) = Append(h \o w, m)
  BY <1>1
<1> QED BY <1>2, <1>3 DEF h

\* The buffer without its first k values.
LEMMA SplitBuffer ==
    ASSUME NEW S, NEW b \in Seq(S), NEW k \in 0..Len(b)
    PROVE  /\ SubSeq(b, 1, k) \in Seq(S) /\ Len(SubSeq(b, 1, k)) = k
           /\ SubSeq(b, k + 1, Len(b)) \in Seq(S)
           /\ Len(SubSeq(b, k + 1, Len(b))) = Len(b) - k
           /\ SubSeq(b, 1, k) \o SubSeq(b, k + 1, Len(b)) = b
<1>1. /\ Len(b) \in Nat /\ k \in Nat /\ k <= Len(b)
      /\ \A i \in 1..Len(b) : b[i] \in S
  BY LenProperties, ElementOfSeq
<1>2. SubSeq(b, 1, k) \in Seq(S) /\ Len(SubSeq(b, 1, k)) = k
  BY <1>1, SubSeqProperties
<1>3. SubSeq(b, k + 1, Len(b)) \in Seq(S) /\ Len(SubSeq(b, k + 1, Len(b))) = Len(b) - k
  BY <1>1, SubSeqProperties
<1> DEFINE one == 1
           n == Len(b)
<1>4. one \in 1..(Len(b) + 1) /\ k \in (one - 1)..Len(b) /\ n \in k..Len(b)
  BY <1>1
<1> HIDE DEF one, n
<1>5. SubSeq(b, one, k) \o SubSeq(b, k + 1, n) = SubSeq(b, one, n)
  BY <1>4, ConcatAdjacentSubSeq, SMTT(60)
<1>6. SubSeq(b, 1, Len(b)) = b
  BY SubSeqFull
<1>7. SubSeq(b, 1, k) \o SubSeq(b, k + 1, Len(b)) = b
  BY <1>5, <1>6 DEF one, n
<1> QED BY <1>2, <1>3, <1>7

\* A step of the buffer keeps the account.
LEMMA BufferKeeps ==
    ASSUME BufferInv, BufferNext
    PROVE  BufferInv'
<1>0. /\ buf \in Seq(Nat) /\ gone \in Seq(Nat) /\ pushes \in Nat /\ reported \in Nat
      /\ refused \subseteq 1..pushes /\ Len(buf) \in Nat /\ Len(gone) \in Nat
      /\ gone \o buf \in Seq(Nat) /\ reported = Len(gone) /\ Len(buf) <= BufCapacity
      /\ BufCapacity \in Nat \ {0}
      /\ Pushes(gone \o buf, (1..pushes) \ refused)
  <2>1. buf \in Seq(Nat) /\ gone \in Seq(Nat)
    BY DEF BufferInv, BufferType
  <2>2. gone \o buf \in Seq(Nat) /\ Len(buf) \in Nat /\ Len(gone) \in Nat
    BY <2>1, ConcatProperties, LenProperties
  <2> QED
    BY <2>1, <2>2, BufferAssumption DEF BufferInv, BufferType, BufferAccounts, Pushes
<1>1. ASSUME pushes' = pushes + 1, refused' = refused
      PROVE  /\ (1..pushes') \ refused' = ((1..pushes) \ refused) \cup {pushes + 1}
             /\ refused' \subseteq 1..pushes'
             /\ Pushes(Append(gone \o buf, pushes + 1), (1..pushes') \ refused')
  <2>1. (1..pushes') \ refused' = ((1..pushes) \ refused) \cup {pushes + 1}
    BY <1>0, <1>1
  <2>2. (1..pushes) \ refused \in SUBSET (1..pushes)
    OBVIOUS
  <2>3. Pushes(Append(gone \o buf, pushes + 1), ((1..pushes) \ refused) \cup {pushes + 1})
    BY <1>0, <2>2, PushesAppend
  <2>4. refused' \subseteq 1..pushes'
    BY <1>0, <1>1
  <2> QED BY <2>1, <2>3, <2>4
<1>2. ASSUME NEW k \in 0..Len(buf), pushes' = pushes + 1, refused' = refused,
             buf' = Append(SubSeq(buf, k + 1, Len(buf)), pushes + 1),
             gone' = gone \o SubSeq(buf, 1, k), reported' = reported + k,
             Len(buf) - k < BufCapacity
      PROVE  BufferInv'
  <2>1. /\ gone' \o buf' = Append(gone \o buf, pushes + 1)
        /\ gone' \in Seq(Nat) /\ buf' \in Seq(Nat)
        /\ Len(gone') = Len(gone) + k /\ Len(buf') = Len(buf) - k + 1
    <3> DEFINE m == pushes + 1
               u == SubSeq(buf, 1, k)
               w == SubSeq(buf, k + 1, Len(buf))
    <3>1. m \in Nat /\ buf' = Append(w, m) /\ gone' = gone \o u
      BY <1>0, <1>2
    <3>2. /\ u \in Seq(Nat) /\ Len(u) = k /\ w \in Seq(Nat) /\ Len(w) = Len(buf) - k
          /\ u \o w = buf
      BY <1>0, SplitBuffer
    <3> HIDE DEF m, u, w
    <3>3. u \in Seq(Nat) /\ w \in Seq(Nat) /\ gone \in Seq(Nat)
      BY <1>0, <3>2
    <3>4. (gone \o u) \o Append(w, m) = Append(gone \o (u \o w), m)
      <4> DEFINE N == Nat
      <4>1. u \in Seq(N) /\ w \in Seq(N) /\ gone \in Seq(N) /\ m \in N
        BY <3>1, <3>3
      <4> HIDE DEF N
      <4> QED BY <4>1, WholeGrows, SMTT(60)
    <3>5. gone' \in Seq(Nat) /\ Len(gone') = Len(gone) + Len(u)
      BY <3>1, <3>3, ConcatProperties
    <3>6. buf' \in Seq(Nat) /\ Len(buf') = Len(w) + 1
      BY <3>1, <3>3, AppendProperties
    <3>7. gone' \o buf' = Append(gone \o buf, pushes + 1)
      BY <3>1, <3>2, <3>4, Zenon DEF m
    <3> QED BY <1>0, <3>2, <3>5, <3>6, <3>7
  <2>2. Pushes(gone' \o buf', (1..pushes') \ refused') /\ refused' \subseteq 1..pushes'
    BY <1>1, <1>2, <2>1
  <2>3. /\ reported' = Len(gone') /\ reported' \in Nat
        /\ Len(buf') <= BufCapacity /\ pushes' \in Nat
    BY <1>0, <1>2, <2>1, SMTT(60)
  <2> QED
    BY <2>1, <2>2, <2>3 DEF BufferInv, BufferType, BufferAccounts, Pushes
<1>3. CASE BufTryPush
  <2>1. CASE Full
    <3>1. /\ UNCHANGED <<buf, gone, reported>> /\ pushes' = pushes + 1
          /\ refused' = refused \cup {pushes + 1}
      BY <1>3, <2>1 DEF BufTryPush
    <3>2. /\ (1..pushes') \ refused' = (1..pushes) \ refused
          /\ refused' \subseteq 1..pushes' /\ pushes' \in Nat
      BY <1>0, <3>1
    <3> QED BY <1>0, <3>1, <3>2 DEF BufferInv, BufferType, BufferAccounts, Pushes
  <2>2. CASE ~Full
    <3>1. /\ UNCHANGED <<gone, reported, refused>> /\ pushes' = pushes + 1
          /\ buf' = Append(buf, pushes + 1) /\ Len(buf) < BufCapacity
      BY <1>0, <1>3, <2>2 DEF BufTryPush, Full
    <3>2. SubSeq(buf, 0 + 1, Len(buf)) = buf /\ gone \o SubSeq(buf, 1, 0) = gone
      <4>1. SubSeq(buf, 1, Len(buf)) = buf
        BY <1>0, SubSeqFull
      <4>2. SubSeq(buf, 1, 0) = <<>>
        BY SubSeqEmpty
      <4> QED BY <1>0, <4>1, <4>2, ConcatEmptySeq
    <3>3. 0 \in 0..Len(buf) /\ reported' = reported + 0 /\ Len(buf) - 0 < BufCapacity
      BY <1>0, <3>1
    <3> QED BY <1>2, <3>1, <3>2, <3>3
  <2> QED BY <2>1, <2>2
<1>4. CASE ForcePush
  <2> DEFINE drop == IF Full THEN Len(buf) - BufCapacity + 1 ELSE 0
  <2>1. /\ pushes' = pushes + 1 /\ refused' = refused
        /\ buf' = Append(SubSeq(buf, drop + 1, Len(buf)), pushes + 1)
        /\ gone' = gone \o SubSeq(buf, 1, drop)
        /\ reported' = reported + (IF drop > 0 THEN 1 ELSE 0)
    BY <1>4 DEF ForcePush
  <2>2. drop \in {0, 1} /\ drop \in 0..Len(buf) /\ Len(buf) - drop < BufCapacity
    BY <1>0 DEF Full
  <2> HIDE DEF drop
  <2>3. reported' = reported + drop
    BY <2>1, <2>2
  <2> QED BY <1>2, <2>1, <2>2, <2>3
<1>5. CASE TakeBuffer
  <2>1. /\ buf' = <<>> /\ gone' = gone \o buf /\ reported' = reported + Len(buf)
        /\ UNCHANGED <<pushes, refused>>
    BY <1>5 DEF TakeBuffer
  <2>2. gone' \o buf' = gone \o buf /\ gone' \in Seq(Nat) /\ buf' \in Seq(Nat)
    BY <1>0, <2>1, ConcatEmptySeq, EmptySeq
  <2>3. Len(gone') = Len(gone) + Len(buf) /\ Len(buf') = 0
    BY <1>0, <2>1, ConcatProperties, EmptySeq
  <2>4. /\ reported' = Len(gone') /\ reported' \in Nat
        /\ Len(buf') <= BufCapacity
    BY <1>0, <2>1, <2>3
  <2> QED
    BY <1>0, <2>1, <2>2, <2>4 DEF BufferInv, BufferType, BufferAccounts, Pushes
<1> QED BY <1>3, <1>4, <1>5 DEF BufferNext

\* DataBuffer (src/buf.rs) accounts for every value: whatever pushes and takes
\* get the lock in whatever order, no value is lost without try_push handing it
\* back, force_push reporting it or a taker having it, and order is kept.
THEOREM BufferAccountsCorrect == Spec => []BufferAccounts
<1>1. Init => BufferInv
  <2> SUFFICES ASSUME Init PROVE BufferInv
    OBVIOUS
  <2>1. /\ buf = <<>> /\ pushes = 0 /\ refused = {} /\ gone = <<>> /\ reported = 0
    BY DEF Init, BufferInit
  <2>2. gone \o buf = <<>> /\ buf \in Seq(Nat) /\ gone \in Seq(Nat) /\ Len(buf) = 0
        /\ Len(gone) = 0 /\ DOMAIN (gone \o buf) = {}
    BY <2>1, ConcatEmptySeq, EmptySeq
  <2> QED
    BY <2>1, <2>2, BufferAssumption DEF BufferInv, BufferType, BufferAccounts
<1>2. BufferInv /\ [Next]_vars => BufferInv'
  <2> SUFFICES ASSUME BufferInv, [Next]_vars PROVE BufferInv'
    OBVIOUS
  <2>1. CASE BufferNext
    BY <2>1, BufferKeeps
  <2>2. CASE UNCHANGED bufferVars
    BY <2>2 DEF bufferVars, BufferInv, BufferType, BufferAccounts
  <2> QED BY <2>1, <2>2 DEF Next, vars
<1>3. BufferInv => BufferAccounts
  BY DEF BufferInv
<1> QED BY <1>1, <1>2, <1>3, PTL DEF Spec

=============================================================================
