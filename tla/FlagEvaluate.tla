---------------------------- MODULE FlagEvaluate ----------------------------
(***************************************************************************)
(* Validation and evaluation of one flag (internal/flags: flag.go,         *)
(* context.go, evaluate.go; the request checks of internal/api), which     *)
(* every generated service repeats with its own list of targeting          *)
(* attributes (internal/factory/templates/languages).  The published       *)
(* definition is the state: a draft that validates is published, an        *)
(* operator changes its rollout, and a later build of the service may      *)
(* approve other attributes than the build that published it.  A context   *)
(* gives each attribute a string, something that is not a string, or       *)
(* nothing.                                                                *)
(***************************************************************************)
EXTENDS Integers, Sequences

CONSTANTS
  Strings,      \* string values of attributes, other than the empty one
  Attributes,   \* attribute names a definition can mention
  Empty,        \* the empty string
  Other,        \* a value that is not a string
  Absent,       \* no value, no rollout
  Variants,     \* variant maps: the kind of value behind each name
  Drafts,       \* definitions an operator may submit
  Percentages,  \* percentages an operator may ramp to
  Buckets       \* sample of the hash buckets

(* The fields of Rule, Rollout and Flag that evaluation reads.              *)
Rules == [attribute : Attributes, equals : Strings \cup {Empty}, variant : STRING]
Rollouts == [attribute : Attributes, percentage : Int, variant : STRING]
Definitions ==
  [kind : STRING, enabled : BOOLEAN, defaultVariant : STRING, variants : Variants,
   rules : Seq(Rules), rollout : Rollouts \cup {Absent}]

ASSUME DraftAssumption == Drafts \subseteq Definitions
ASSUME AbsentAssumption == Absent \notin Rollouts
ASSUME PercentageAssumption == Percentages \subseteq Int
ASSUME ValueAssumption == {Empty, Other, Absent} \cap Strings = {}
ASSUME BucketAssumption == \A b \in Buckets : b \in Nat /\ b < 10000

TargetingKey == "targetingKey"
Kinds == {"boolean", "string"}
Contexts == [Attributes -> Strings \cup {Empty, Other, Absent}]

VARIABLES
  flag,      \* the stored definition, Absent before the first publication
  bucket,    \* the hash of the flag's key with each string, modulo 10000
  approved,  \* the attributes the running build allows; none before it runs
  rereads    \* whether its store validates a definition it reads

vars == <<flag, bucket, approved, rereads>>

-----------------------------------------------------------------------------
(* Flag.Validate.  A definition's variants map each name to the kind of its *)
(* value; its key, which evaluation only hashes, is taken to be valid.      *)

ValidRule(f, rule) ==
  /\ rule.attribute \in approved
  /\ rule.equals # Empty
  /\ rule.variant \in DOMAIN f.variants

(* Mutant: the variant of a rollout is not checked.                         *)
RolloutOfAnyVariant(f, rollout) ==
  rollout.attribute \in approved /\ rollout.percentage \in 0..100

ValidRollout(f, rollout) ==
  /\ rollout.attribute \in approved
  /\ rollout.percentage \in 0..100
  /\ rollout.variant \in DOMAIN f.variants

Validate(f) ==
  /\ f.kind \in Kinds
  /\ DOMAIN f.variants # {}
  /\ f.defaultVariant \in DOMAIN f.variants
  /\ "" \notin DOMAIN f.variants
  /\ \A name \in DOMAIN f.variants : f.variants[name] = f.kind
  /\ \A i \in DOMAIN f.rules : ValidRule(f, f.rules[i])
  /\ f.rollout # Absent => ValidRollout(f, f.rollout)

-----------------------------------------------------------------------------
(* evaluate.                                                                *)

IsString(value) == value \in Strings \cup {Empty}

Matches(rule, context) ==
  IsString(context[rule.attribute]) /\ context[rule.attribute] = rule.equals

(* Mutant: the bucket at the threshold is in.                               *)
InRolloutUpTo(rollout, context) ==
  LET value == context[rollout.attribute] IN
  IsString(value) /\ bucket[value] <= rollout.percentage * 100

InRollout(rollout, context) ==
  LET value == context[rollout.attribute] IN
  IsString(value) /\ bucket[value] < rollout.percentage * 100

(* A variant the map does not hold reads as nothing.                        *)
Resolve(f, variant, reason) ==
  [value |-> IF variant \in DOMAIN f.variants THEN f.variants[variant] ELSE Absent,
   reason |-> reason, variant |-> variant]

Least(S) == CHOOSE i \in S : \A j \in S : i <= j

(* The loop over the rules stops at the first that matches; 0 is none.      *)
RuleFor(f, context) ==
  LET matching == {i \in DOMAIN f.rules : Matches(f.rules[i], context)} IN
  IF matching = {} THEN 0 ELSE Least(matching)

Evaluate(f, context) ==
  LET rule == RuleFor(f, context) IN
  IF ~f.enabled THEN Resolve(f, f.defaultVariant, "DISABLED")
  ELSE IF rule # 0 THEN Resolve(f, f.rules[rule].variant, "TARGETING_MATCH")
  ELSE IF f.rollout = Absent THEN Resolve(f, f.defaultVariant, "STATIC")
  ELSE IF ~InRollout(f.rollout, context) THEN Resolve(f, f.defaultVariant, "STATIC")
  ELSE Resolve(f, f.rollout.variant, "SPLIT")

(* readEvaluationRequest admits a context with a non-empty targeting key.   *)
Admitted(context) == IsString(context[TargetingKey]) /\ context[TargetingKey] # Empty

(* Mutant: a stored definition is only unmarshalled.                        *)
DecodeUnchecked(f) == TRUE

(* Load: the Go stores decode and validate, the others parse.               *)
Decode(f) == rereads => Validate(f)

(* What an evaluation request is answered: an unreadable definition is      *)
(* refused.                                                                 *)
Refused == [value |-> Absent, reason |-> "INVALID", variant |-> "none"]
Serve(f, context) == IF Decode(f) THEN Evaluate(f, context) ELSE Refused

-----------------------------------------------------------------------------
(* The key of the first publication settles the buckets.                    *)
Publish(draft) ==
  /\ Validate(draft)
  /\ flag' = draft
  /\ bucket' \in [Strings \cup {Empty} -> Buckets]
  /\ UNCHANGED <<approved, rereads>>

(* The definition is published again with another percentage.               *)
Ramp(percentage) ==
  /\ flag # Absent
  /\ flag.rollout # Absent
  /\ Validate([flag EXCEPT !.rollout.percentage = percentage])
  /\ flag' = [flag EXCEPT !.rollout.percentage = percentage]
  /\ UNCHANGED <<bucket, approved, rereads>>

(* The owner deploys a build that approves other attributes; the database   *)
(* stays.                                                                   *)
Rebuild(attributes) ==
  /\ approved # {}
  /\ approved' = attributes
  /\ UNCHANGED <<flag, bucket, rereads>>

-----------------------------------------------------------------------------
(* A definition that can be read decides every admitted context, and what   *)
(* it gives is one of its variants with a value of its kind: the checks of  *)
(* Validate, perhaps those of an earlier build, are all that the map        *)
(* lookups of resolve rely on.                                              *)
DecisionsAreDefined ==
  flag # Absent /\ Decode(flag) => \A c \in Contexts : Admitted(c) =>
    LET decision == Evaluate(flag, c) IN
    decision.variant \in DOMAIN flag.variants /\ decision.value = flag.kind

(* "Never infer approval from an attribute merely appearing in request      *)
(* context": where stored definitions are validated on reading, no decision *)
(* depends on an attribute that the running build does not approve,         *)
(* whichever build accepted the definition (Decode, validateAttribute).     *)
OnlyApprovedDecide ==
  flag # Absent /\ rereads => \A c \in Contexts :
    LET masked == [a \in Attributes |-> IF a \in approved THEN c[a] ELSE Absent] IN
    Admitted(c) => Serve(flag, c) = Serve(flag, masked)

(* A ramp keeps every subject it already had, and changes no other decision:*)
(* assignment is deterministic and follows the bucket; 0 percent is nobody, *)
(* and 100 everybody who has the attribute (inRollout).                     *)
RampKeepsSubjects ==
  [][\A c \in Contexts : flag # Absent /\ flag.rollout # Absent /\ Admitted(c) =>
       LET before == Evaluate(flag, c)
           after == Evaluate(flag', c)
           wider == flag'.rollout.percentage >= flag.rollout.percentage IN
       /\ before.reason = "SPLIT" /\ wider => after = before
       /\ after.reason = "SPLIT" /\ ~wider => after = before
       /\ before.reason \notin {"SPLIT", "STATIC"} => after = before
       /\ flag'.rollout.percentage = 0 => after.reason # "SPLIT"
       /\ flag'.rollout.percentage = 100 /\ IsString(c[flag.rollout.attribute])
            => after.reason # "STATIC"]_vars

-----------------------------------------------------------------------------
(* The inductive invariant: a stored definition keeps what some build       *)
(* validated of it and no later build's list can take back.                 *)

Resolvable(f) ==
  /\ f.defaultVariant \in DOMAIN f.variants
  /\ \A name \in DOMAIN f.variants : f.variants[name] = f.kind
  /\ \A i \in DOMAIN f.rules : f.rules[i].variant \in DOMAIN f.variants
  /\ f.rollout # Absent => f.rollout.variant \in DOMAIN f.variants

StoredInv ==
  flag # Absent =>
    /\ flag \in Definitions
    /\ Resolvable(flag)
    /\ bucket \in [Strings \cup {Empty} -> Buckets]
=============================================================================
