--------------------------- MODULE DataPolicyDerive --------------------------
(***************************************************************************)
(* The derive macro DataPolicy (rtsc-derive/src/lib.rs): from the          *)
(* attributes of an enum's variants to the methods of DataDeliveryPolicy.  *)
(* An enum is the sequence of its variants, a variant the sequence of its  *)
(* attributes, an attribute a name, whether it is a list, and arguments.   *)
(***************************************************************************)
EXTENDS Integers, Sequences, SequencesExt

CONSTANTS
    Attributes,   \* the attributes an enum is written with
    MaxVariants, MaxAttributes \* bounds on its size

ASSUME DeriveAssumption == MaxVariants \in Nat /\ MaxAttributes \in Nat

VARIABLE enum

\* parse_delivery_policy, of a word in lower case
PolicyOf ==
    [single |-> "Single", single_optional |-> "SingleOptional",
     optional |-> "Optional", always |-> "Always", latest |-> "Latest"]

\* What the loop over a variant's attributes starts from.
Defaults == [policy |-> "Always", priority |-> 100, expires |-> "never", panic |-> FALSE]

Panic(acc) == [acc EXCEPT !.panic = TRUE]

\* One argument of an attribute, form being "path", "string", "integer" or
\* "literal" (any other one).  word is the argument's text in lower case.  Only
\* data_delivery looks at the kind of a literal: a priority may be any, and it is
\* left to the compiler to refuse what is not a usize.
ApplyArg(acc, name, arg) ==
    CASE name = "data_delivery" /\ arg.form \in {"path", "string"}
                               /\ arg.word \in DOMAIN PolicyOf ->
            [acc EXCEPT !.policy = PolicyOf[arg.word]]
      [] name = "data_expires" /\ arg.form = "path" ->
            [acc EXCEPT !.expires = arg.word]
      [] name = "data_priority" /\ arg.form # "path" ->
            [acc EXCEPT !.priority = arg.word]
      [] OTHER -> Panic(acc)

\* One attribute; a name the macro does not know, doc comments included, panics.
ApplyAttribute(acc, a) ==
    IF ~a.list \/ a.name \notin {"data_delivery", "data_expires", "data_priority"}
    THEN Panic(acc)
    ELSE FoldLeft(LAMBDA x, arg : ApplyArg(x, a.name, arg), acc, a.args)

Expand(v) == FoldLeft(ApplyAttribute, Defaults, v)

\* default_policy_impl, default_priority_impl, default_expires_impl
NoVariantHas(vs, name) ==
    \A i \in DOMAIN vs : \A j \in DOMAIN vs[i] : vs[i][j].name # name

\* Mutant: the flag looks at the first variant only.
MethodFirst(vs, name, field) ==
    [i \in DOMAIN vs |->
        IF NoVariantHas(SubSeq(vs, 1, 1), name) THEN Defaults[field] ELSE Expand(vs[i])[field]]

\* fn_delivery_policy, fn_priority, fn_expires: a constant, or a match
Method(vs, name, field) ==
    [i \in DOMAIN vs |->
        IF NoVariantHas(vs, name) THEN Defaults[field] ELSE Expand(vs[i])[field]]

Derive(vs) ==
    IF \E i \in DOMAIN vs : Expand(vs[i]).panic THEN [panic |-> TRUE]
    ELSE [panic |-> FALSE,
          delivery_policy |-> Method(vs, "data_delivery", "policy"),
          priority |-> Method(vs, "data_priority", "priority"),
          is_expired |-> Method(vs, "data_expires", "expires")]

-----------------------------------------------------------------------------
\* The enum is written, variant by variant.
AddVariant ==
    /\ Len(enum) < MaxVariants
    /\ enum' = Append(enum, <<>>)

AddAttribute(a) ==
    /\ enum # <<>> /\ Len(Last(enum)) < MaxAttributes
    /\ enum' = [enum EXCEPT ![Len(enum)] = Append(@, a)]

DeriveInit == enum = <<>>

DeriveNext == AddVariant \/ \E a \in Attributes : AddAttribute(a)

-----------------------------------------------------------------------------
\* What the macro's documentation lists for data_delivery; the code also takes
\* latest, which no enum in the documentation's terms has.
DocumentedPolicy ==
    [single |-> "Single", single_optional |-> "SingleOptional",
     optional |-> "Optional", always |-> "Always"]

\* An attribute as the documentation describes it: one value, of its kind.
Documented(a) ==
    /\ a.list /\ Len(a.args) = 1
    /\ LET arg == a.args[1] IN
        \/ a.name = "data_delivery" /\ arg.form = "path" /\ arg.word \in DOMAIN DocumentedPolicy
        \/ a.name = "data_priority" /\ arg.form = "integer"
        \/ a.name = "data_expires" /\ arg.form = "path"

DocumentedVariant(v) ==
    /\ \A j \in DOMAIN v : Documented(v[j])
    /\ \A j, k \in DOMAIN v : v[j].name = v[k].name => j = k

\* The value a documented variant is given, or the default.
Given(v, name, default) ==
    LET At == {j \in DOMAIN v : v[j].name = name}
    IN  IF At = {} THEN default ELSE v[CHOOSE j \in At : TRUE].args[1].word

\* An attribute of one variant changes nothing of the others, although a method is
\* a match as soon as one variant has its attribute: every variant gets what it
\* would get alone, and the macro fails just when it would for one of them alone.
\* For an enum in the terms of the documentation, that is the value it says and
\* otherwise the default ("If not specified, the default is always", 100, false).
DeriveKeepsAttributes ==
    LET r == Derive(enum)
        alone == [i \in DOMAIN enum |-> Derive(<<enum[i]>>)]
    IN
    /\ r.panic <=> \E i \in DOMAIN enum : alone[i].panic
    /\ ~r.panic =>
          \A i \in DOMAIN enum :
              /\ r.delivery_policy[i] = alone[i].delivery_policy[1]
              /\ r.priority[i] = alone[i].priority[1]
              /\ r.is_expired[i] = alone[i].is_expired[1]
    /\ (\A i \in DOMAIN enum : DocumentedVariant(enum[i])) =>
          /\ ~r.panic
          /\ \A i \in DOMAIN enum :
                /\ r.delivery_policy[i] =
                      DocumentedPolicy[Given(enum[i], "data_delivery", "always")]
                /\ r.priority[i] = Given(enum[i], "data_priority", 100)
                /\ r.is_expired[i] = Given(enum[i], "data_expires", "never")

=============================================================================
