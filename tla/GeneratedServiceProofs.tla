---------------------- MODULE GeneratedServiceProofs ----------------------
(***************************************************************************)
(* Proofs about GeneratedService: the questions of `reaper new` lead to an *)
(* accepted recipe, and a service generated with any attribute list decides*)
(* by its stored definition, by approved attributes only, and stably under *)
(* ramps, for every hash, every set of drafts and every later build.       *)
(***************************************************************************)
EXTENDS GeneratedService, TLAPS, WellFoundedInduction

-----------------------------------------------------------------------------
(* The first matching rule.                                                 *)

(* A set of naturals that is not empty has a least member.                  *)
LEMMA LeastExists ==
  ASSUME NEW T, T \subseteq Nat, T # {}
  PROVE  \E i \in T : \A j \in T : i <= j
<1>1. IsWellFoundedOn(OpToRel(<, Nat), Nat)
  BY NatLessThanWellFounded
<1>2. PICK i \in T : \A j \in T : ~(<<j, i>> \in OpToRel(<, Nat))
  BY <1>1, WFMin
<1>3. \A j \in T : ~(j < i)
  BY <1>2 DEF OpToRel
<1> QED
  BY <1>3

(* RuleFor gives a rule that matches, or 0 when none does.                  *)
LEMMA RuleForMatches ==
  ASSUME NEW f \in Definitions, NEW context, RuleFor(f, context) # 0
  PROVE  RuleFor(f, context) \in DOMAIN f.rules
<1> DEFINE matching == {i \in DOMAIN f.rules : Matches(f.rules[i], context)}
<1>1. DOMAIN f.rules \subseteq Nat
  BY DEF Definitions
<1>2. matching # {} /\ RuleFor(f, context) = Least(matching)
  BY DEF RuleFor
<1>3. \E i \in matching : \A j \in matching : i <= j
  BY <1>1, <1>2, LeastExists
<1> QED
  BY <1>2, <1>3 DEF Least

(* The rule depends on the rules, and on the context only at the attributes *)
(* they name.                                                               *)
LEMMA RuleForDepends ==
  ASSUME NEW f, NEW g, NEW c, NEW d, g.rules = f.rules,
         \A i \in DOMAIN f.rules : d[f.rules[i].attribute] = c[f.rules[i].attribute]
  PROVE  RuleFor(g, d) = RuleFor(f, c)
<1>1. {i \in DOMAIN g.rules : Matches(g.rules[i], d)}
        = {i \in DOMAIN f.rules : Matches(f.rules[i], c)}
  BY DEF Matches
<1> QED
  BY <1>1 DEF RuleFor

-----------------------------------------------------------------------------
(* The definition in the store.                                             *)

LEMMA ValidIsResolvable ==
  ASSUME NEW f, Validate(f)
  PROVE  Resolvable(f)
BY DEF Validate, ValidRule, ValidRollout, Resolvable

(* A ramp changes one field.                                                *)
LEMMA RampWrites ==
  ASSUME NEW percentage \in Percentages, Ramp(percentage), StoredInv
  PROVE  /\ flag' \in Definitions
         /\ flag'.rules = flag.rules /\ flag'.variants = flag.variants
         /\ flag'.enabled = flag.enabled /\ flag'.kind = flag.kind
         /\ flag'.defaultVariant = flag.defaultVariant
         /\ flag'.rollout \in Rollouts
         /\ flag'.rollout.attribute = flag.rollout.attribute
         /\ flag'.rollout.variant = flag.rollout.variant
         /\ flag.rollout \in Rollouts
<1>1. /\ flag # Absent /\ flag.rollout # Absent /\ flag \in Definitions
      /\ flag' = [flag EXCEPT !.rollout.percentage = percentage]
  BY DEF Ramp, StoredInv
<1>2. flag.rollout \in Rollouts
  BY <1>1 DEF Definitions
<1>3. [flag.rollout EXCEPT !.percentage = percentage] \in Rollouts
  BY <1>2, PercentageAssumption DEF Rollouts
<1>4. /\ flag' \in Definitions
      /\ flag'.rollout = [flag.rollout EXCEPT !.percentage = percentage]
  BY <1>1, <1>3 DEF Definitions
<1>5. /\ flag'.rules = flag.rules /\ flag'.variants = flag.variants
      /\ flag'.enabled = flag.enabled /\ flag'.kind = flag.kind
      /\ flag'.defaultVariant = flag.defaultVariant
  BY <1>1 DEF Definitions
<1>6. /\ flag'.rollout.attribute = flag.rollout.attribute
      /\ flag'.rollout.variant = flag.rollout.variant
  BY <1>2, <1>4 DEF Rollouts
<1> QED
  BY <1>2, <1>3, <1>4, <1>5, <1>6

LEMMA StoredStep ==
  ASSUME StoredInv, [ServiceNext]_serviceVars
  PROVE  StoredInv'
<1>1. CASE UNCHANGED vars
  BY <1>1 DEF StoredInv, vars, Resolvable
<1>2. CASE Deploy
  BY <1>2 DEF Deploy, StoredInv, Resolvable
<1>3. ASSUME NEW draft \in Drafts, Publish(draft) PROVE StoredInv'
  <2>1. flag' = draft /\ draft \in Definitions /\ Resolvable(draft)
    BY <1>3, DraftAssumption, ValidIsResolvable DEF Publish
  <2>2. bucket' \in [Strings \cup {Empty} -> Buckets]
    BY <1>3 DEF Publish
  <2> QED
    BY <2>1, <2>2 DEF StoredInv, Resolvable
<1>4. ASSUME NEW percentage \in Percentages, Ramp(percentage) PROVE StoredInv'
  <2>1. Resolvable(flag')
    BY <1>4, ValidIsResolvable DEF Ramp
  <2>2. flag' \in Definitions
    BY <1>4, RampWrites
  <2>3. bucket' \in [Strings \cup {Empty} -> Buckets]
    BY <1>4 DEF Ramp, StoredInv
  <2> QED
    BY <2>1, <2>2, <2>3 DEF StoredInv, Resolvable
<1>5. ASSUME NEW attributes, Rebuild(attributes) PROVE StoredInv'
  BY <1>5 DEF Rebuild, StoredInv, Resolvable
<1> QED
  BY <1>1, <1>2, <1>3, <1>4, <1>5 DEF ServiceNext, Operate, serviceVars

(* The definition in the store is one that some build validated.            *)
THEOREM StoredHolds == ServiceSpec => []StoredInv
<1>1. ServiceInit => StoredInv
  BY DEF ServiceInit, StoredInv
<1> QED
  BY <1>1, StoredStep, PTL DEF ServiceSpec

-----------------------------------------------------------------------------
(* Decisions.                                                               *)

LEMMA EvaluateResolves ==
  ASSUME NEW f \in Definitions, Resolvable(f), NEW c
  PROVE  Evaluate(f, c).variant \in DOMAIN f.variants /\ Evaluate(f, c).value = f.kind
<1>1. ASSUME NEW variant, NEW reason, variant \in DOMAIN f.variants
      PROVE  /\ Resolve(f, variant, reason).variant \in DOMAIN f.variants
             /\ Resolve(f, variant, reason).value = f.kind
  BY <1>1 DEF Resolve, Resolvable
<1>2. f.defaultVariant \in DOMAIN f.variants
  BY DEF Resolvable
<1>3. RuleFor(f, c) # 0 => f.rules[RuleFor(f, c)].variant \in DOMAIN f.variants
  BY RuleForMatches DEF Resolvable
<1>4. f.rollout # Absent => f.rollout.variant \in DOMAIN f.variants
  BY DEF Resolvable
<1> QED
  BY <1>1, <1>2, <1>3, <1>4, Zenon DEF Evaluate

(* Whatever build accepted the stored definition and whatever build runs,   *)
(* evaluation gives one of its variants, with a value of its kind: the map  *)
(* lookups of resolve never miss.                                           *)
THEOREM EvaluationIsDefined == ServiceSpec => []DecisionsAreDefined
<1>1. StoredInv => DecisionsAreDefined
  BY EvaluateResolves DEF StoredInv, DecisionsAreDefined
<1> QED
  BY <1>1, StoredHolds, PTL

(* Evaluation reads a context only at the attributes its definition names.  *)
LEMMA EvaluateReads ==
  ASSUME NEW f, NEW c, NEW d,
         \A i \in DOMAIN f.rules : d[f.rules[i].attribute] = c[f.rules[i].attribute],
         f.rollout # Absent => d[f.rollout.attribute] = c[f.rollout.attribute]
  PROVE  Evaluate(f, d) = Evaluate(f, c)
<1>1. RuleFor(f, d) = RuleFor(f, c)
  BY RuleForDepends
<1>2. f.rollout # Absent => (InRollout(f.rollout, d) <=> InRollout(f.rollout, c))
  BY DEF InRollout
<1> QED
  BY <1>1, <1>2 DEF Evaluate

(* Where stored definitions are validated on reading, an attribute that the *)
(* running build does not approve changes no decision, whichever build      *)
(* accepted the definition.                                                 *)
THEOREM ApprovalIsEnforced == ServiceSpec => []OnlyApprovedDecide
<1>1. ASSUME StoredInv PROVE OnlyApprovedDecide
  <2> SUFFICES ASSUME flag # Absent, rereads, NEW c \in Contexts
               PROVE  Serve(flag, c)
                        = Serve(flag, [a \in Attributes |->
                                         IF a \in approved THEN c[a] ELSE Absent])
    BY DEF OnlyApprovedDecide
  <2> DEFINE masked == [a \in Attributes |-> IF a \in approved THEN c[a] ELSE Absent]
  <2>1. CASE ~Decode(flag)
    BY <2>1 DEF Serve
  <2>2. CASE Decode(flag)
    <3>1. Validate(flag) /\ flag \in Definitions
      BY <1>1, <2>2 DEF Decode, StoredInv
    <3>2. \A i \in DOMAIN flag.rules :
            flag.rules[i].attribute \in approved /\ flag.rules[i].attribute \in Attributes
      <4>1. flag.rules \in Seq(Rules)
        BY <3>1 DEF Definitions
      <4>2. \A i \in DOMAIN flag.rules : flag.rules[i] \in Rules
        BY <4>1
      <4>3. \A i \in DOMAIN flag.rules : flag.rules[i].attribute \in approved
        BY <3>1 DEF Validate, ValidRule
      <4> QED
        BY <4>2, <4>3 DEF Rules
    <3>3. flag.rollout # Absent =>
            flag.rollout.attribute \in approved /\ flag.rollout.attribute \in Attributes
      BY <3>1 DEF Validate, ValidRollout, Definitions, Rollouts
    <3>4. Evaluate(flag, masked) = Evaluate(flag, c)
      BY <3>2, <3>3, EvaluateReads
    <3> QED
      BY <2>2, <3>4 DEF Serve
  <2> QED
    BY <2>1, <2>2
<1> QED
  BY <1>1, StoredHolds, PTL

-----------------------------------------------------------------------------
(* Ramps.                                                                   *)

(* A wider rollout contains a narrower one, whatever the hash.              *)
LEMMA WiderContains ==
  ASSUME NEW old \in Rollouts, NEW new \in Rollouts, new.attribute = old.attribute,
         new.percentage >= old.percentage, NEW c, InRollout(old, c),
         bucket \in [Strings \cup {Empty} -> Buckets]
  PROVE  InRollout(new, c)
<1> PICK value : value = c[old.attribute]
  OBVIOUS
<1>1. value \in Strings \cup {Empty} /\ bucket[value] < old.percentage * 100
  BY DEF InRollout, IsString
<1>2. bucket[value] \in Int
  <2>1. bucket[value] \in Buckets
    BY <1>1
  <2>2. bucket[value] \in Nat
    BY <2>1, BucketAssumption
  <2> QED
    BY <2>2
<1>3. old.percentage \in Int /\ new.percentage \in Int
  BY DEF Rollouts
<1>4. bucket[value] < new.percentage * 100
  BY <1>1, <1>2, <1>3
<1> QED
  BY <1>1, <1>4 DEF InRollout, IsString

(* The decision of a definition with a rollout, by whether it is in it.     *)
Decided(f, c) == ~f.enabled \/ RuleFor(f, c) # 0

LEMMA EvaluateWithRollout ==
  ASSUME NEW f, NEW c, f.rollout # Absent, ~Decided(f, c)
  PROVE  Evaluate(f, c) = IF InRollout(f.rollout, c)
                          THEN Resolve(f, f.rollout.variant, "SPLIT")
                          ELSE Resolve(f, f.defaultVariant, "STATIC")
BY DEF Evaluate, Decided

LEMMA EvaluateDecided ==
  ASSUME NEW f, NEW g, NEW c, Decided(f, c), g.rules = f.rules,
         g.enabled = f.enabled, g.variants = f.variants,
         g.defaultVariant = f.defaultVariant
  PROVE  /\ Evaluate(g, c) = Evaluate(f, c)
         /\ Evaluate(f, c).reason # "SPLIT"
<1>1. RuleFor(g, c) = RuleFor(f, c)
  BY RuleForDepends
<1>2. \A variant, reason : Resolve(g, variant, reason) = Resolve(f, variant, reason)
  BY DEF Resolve
<1>3. \A variant, reason : Resolve(f, variant, reason).reason = reason
  BY DEF Resolve
<1>4. Evaluate(f, c) = IF ~f.enabled THEN Resolve(f, f.defaultVariant, "DISABLED")
                       ELSE Resolve(f, f.rules[RuleFor(f, c)].variant, "TARGETING_MATCH")
  BY DEF Evaluate, Decided
<1>5. Evaluate(g, c) = IF ~f.enabled THEN Resolve(g, f.defaultVariant, "DISABLED")
                       ELSE Resolve(g, f.rules[RuleFor(f, c)].variant, "TARGETING_MATCH")
  BY <1>1 DEF Evaluate, Decided
<1> QED
  BY <1>2, <1>3, <1>4, <1>5

(* At 0 percent a rollout has no subject, at 100 all that it can hash.      *)
LEMMA EdgesAreExact ==
  ASSUME bucket \in [Strings \cup {Empty} -> Buckets],
         NEW f, f.rollout # Absent, f.rollout \in Rollouts, NEW c
  PROVE  /\ f.rollout.percentage = 0 => Evaluate(f, c).reason # "SPLIT"
         /\ f.rollout.percentage = 100 /\ IsString(c[f.rollout.attribute])
              => Evaluate(f, c).reason # "STATIC"
<1>1. \A variant, reason : Resolve(f, variant, reason).reason = reason
  BY DEF Resolve
<1>2. CASE Decided(f, c)
  <2>1. Evaluate(f, c) = IF ~f.enabled THEN Resolve(f, f.defaultVariant, "DISABLED")
                         ELSE Resolve(f, f.rules[RuleFor(f, c)].variant, "TARGETING_MATCH")
    BY <1>2 DEF Evaluate, Decided
  <2> QED
    BY <1>1, <2>1
<1>3. CASE ~Decided(f, c)
  <2>1. Evaluate(f, c) = IF InRollout(f.rollout, c)
                         THEN Resolve(f, f.rollout.variant, "SPLIT")
                         ELSE Resolve(f, f.defaultVariant, "STATIC")
    BY <1>3, EvaluateWithRollout
  <2> PICK value : value = c[f.rollout.attribute]
    OBVIOUS
  <2>2. IsString(value) => bucket[value] \in Nat /\ bucket[value] < 10000
    <3>1. IsString(value) => bucket[value] \in Buckets
      BY DEF IsString
    <3> QED
      BY <3>1, BucketAssumption
  <2>3. f.rollout.percentage = 0 => ~InRollout(f.rollout, c)
    <3>1. IsString(value) => ~(bucket[value] < 0 * 100)
      BY <2>2
    <3> QED
      BY <3>1 DEF InRollout
  <2>4. f.rollout.percentage = 100 /\ IsString(value) => InRollout(f.rollout, c)
    BY <2>2 DEF InRollout
  <2> QED
    BY <1>1, <2>1, <2>3, <2>4
<1> QED
  BY <1>2, <1>3

(* Changing the percentage of a rollout moves only subjects on the side it  *)
(* moves to.                                                                *)
LEMMA RampKeeps ==
  ASSUME StoredInv, NEW percentage \in Percentages, Ramp(percentage), NEW c
  PROVE  LET before == Evaluate(flag, c)
             after == Evaluate(flag', c)
             wider == flag'.rollout.percentage >= flag.rollout.percentage IN
         /\ before.reason = "SPLIT" /\ wider => after = before
         /\ after.reason = "SPLIT" /\ ~wider => after = before
         /\ before.reason \notin {"SPLIT", "STATIC"} => after = before
<1> PICK g : g = flag'
  OBVIOUS
<1>1. /\ flag \in Definitions /\ flag # Absent
      /\ bucket \in [Strings \cup {Empty} -> Buckets]
      /\ flag.rollout # Absent /\ flag.rollout \in Rollouts
  BY RampWrites DEF StoredInv, Ramp
<1>2. /\ g.rules = flag.rules /\ g.variants = flag.variants
      /\ g.enabled = flag.enabled /\ g.defaultVariant = flag.defaultVariant
      /\ g.rollout \in Rollouts
      /\ g.rollout.attribute = flag.rollout.attribute
      /\ g.rollout.variant = flag.rollout.variant
  BY RampWrites
<1>3. CASE Decided(flag, c)
  BY <1>2, <1>3, EvaluateDecided
<1>4. CASE ~Decided(flag, c)
  <2>1. ~Decided(g, c)
    <3>1. RuleFor(g, c) = RuleFor(flag, c)
      BY <1>2, RuleForDepends
    <3> QED
      BY <1>2, <1>4, <3>1 DEF Decided
  <2>2. g.rollout # Absent
    BY <1>2, AbsentAssumption
  <2>3. \A variant, reason : /\ Resolve(g, variant, reason) = Resolve(flag, variant, reason)
                             /\ Resolve(flag, variant, reason).reason = reason
    BY <1>2 DEF Resolve
  <2>4. Evaluate(flag, c) = IF InRollout(flag.rollout, c)
                            THEN Resolve(flag, flag.rollout.variant, "SPLIT")
                            ELSE Resolve(flag, flag.defaultVariant, "STATIC")
    BY <1>1, <1>4, EvaluateWithRollout
  <2>5. Evaluate(g, c) = IF InRollout(g.rollout, c)
                         THEN Resolve(flag, flag.rollout.variant, "SPLIT")
                         ELSE Resolve(flag, flag.defaultVariant, "STATIC")
    BY <1>2, <2>1, <2>2, <2>3, EvaluateWithRollout
  <2>6. g.rollout.percentage >= flag.rollout.percentage /\ InRollout(flag.rollout, c)
          => InRollout(g.rollout, c)
    BY <1>1, <1>2, WiderContains
  <2>7. g.rollout.percentage \in Int /\ flag.rollout.percentage \in Int
    BY <1>1, <1>2 DEF Rollouts
  <2>8. ~(g.rollout.percentage >= flag.rollout.percentage) /\ InRollout(g.rollout, c)
          => InRollout(flag.rollout, c)
    BY <1>1, <1>2, <2>7, WiderContains
  <2> QED
    BY <2>3, <2>4, <2>5, <2>6, <2>8
<1> QED
  BY <1>3, <1>4

(* A ramp keeps every subject it had and changes no decision that is not    *)
(* the rollout's, and 0 and 100 percent are exact, for every hash of the    *)
(* subjects.                                                                *)
THEOREM RampsAreStable == ServiceSpec => RampKeepsSubjects
<1> DEFINE Kept(c) ==
      LET before == Evaluate(flag, c)
          after == Evaluate(flag', c)
          wider == flag'.rollout.percentage >= flag.rollout.percentage IN
      /\ before.reason = "SPLIT" /\ wider => after = before
      /\ after.reason = "SPLIT" /\ ~wider => after = before
      /\ before.reason \notin {"SPLIT", "STATIC"} => after = before
      /\ flag'.rollout.percentage = 0 => after.reason # "SPLIT"
      /\ flag'.rollout.percentage = 100 /\ IsString(c[flag.rollout.attribute])
           => after.reason # "STATIC"
    Stable == \A c \in Contexts : flag # Absent /\ flag.rollout # Absent /\ Admitted(c) =>
                Kept(c)
<1>1. ASSUME StoredInv, [ServiceNext]_serviceVars PROVE [Stable]_vars
  <2>0. ASSUME flag # Absent, flag.rollout # Absent, flag'.rollout # Absent,
               flag'.rollout \in Rollouts, flag'.rollout.attribute = flag.rollout.attribute,
               NEW c
        PROVE  /\ flag'.rollout.percentage = 0 => Evaluate(flag', c).reason # "SPLIT"
               /\ flag'.rollout.percentage = 100 /\ IsString(c[flag.rollout.attribute])
                    => Evaluate(flag', c).reason # "STATIC"
    <3> PICK g : g = flag'
      OBVIOUS
    <3>1. bucket \in [Strings \cup {Empty} -> Buckets]
      BY <1>1, <2>0 DEF StoredInv
    <3> QED
      BY <2>0, <3>1, EdgesAreExact
  <2>1. CASE flag' = flag
    <3> SUFFICES ASSUME NEW c \in Contexts, flag # Absent, flag.rollout # Absent
                 PROVE  Kept(c)
      OBVIOUS
    <3>1. flag.rollout \in Rollouts
      BY <1>1 DEF StoredInv, Definitions
    <3>2. Evaluate(flag', c) = Evaluate(flag, c)
      BY <2>1, Zenon
    <3> QED
      BY <2>0, <2>1, <3>1, <3>2
  <2>2. CASE flag = Absent
    BY <2>2
  <2>3. ASSUME NEW percentage \in Percentages, Ramp(percentage) PROVE Stable
    <3>1. /\ flag # Absent /\ flag.rollout # Absent
          /\ flag'.rollout \in Rollouts
          /\ flag'.rollout.attribute = flag.rollout.attribute
      BY <1>1, <2>3, RampWrites DEF Ramp
    <3>2. flag'.rollout # Absent
      BY <3>1, AbsentAssumption
    <3> QED
      BY <1>1, <2>0, <2>3, <3>1, <3>2, RampKeeps
  <2>4. UNCHANGED vars => flag' = flag
    BY DEF vars
  <2> QED
    BY <1>1, <2>1, <2>2, <2>3, <2>4 DEF ServiceNext, Operate, Deploy, Rebuild, serviceVars
<1>2. [][Stable]_vars => RampKeepsSubjects
  BY PTL DEF RampKeepsSubjects
<1> QED
  BY <1>1, <1>2, StoredHolds, PTL DEF ServiceSpec

-----------------------------------------------------------------------------
(* The questions of `reaper new`.                                           *)

(* The catalog: what a deployment supports, and its default replicas.       *)
LEMMA DefaultsFit ==
  ASSUME NEW r \in [identified : {TRUE}, name : Names \cup {DefaultName}, language : Languages,
                    database : Databases, deployment : Deployments, replicas : Int,
                    delivery : Deliveries, attributes : {DefaultAttributes}],
         Supports(r.deployment, r.database),
         r.name = DefaultName, r.replicas = DefaultReplicas(r.deployment)
  PROVE  ValidateRecipe(r)
<1>1. ValidName(r) /\ ValidDeploymentName(r)
  BY DEF ValidName, ValidDeploymentName, DefaultName
<1>2. ValidSelections(r)
  BY DEF ValidSelections
<1>3. ValidDeployment(r)
  BY <1>1 DEF ValidDeployment, DefaultReplicas, Supports, Deployments, DeploymentPacks,
              SingleHost, Managed, Databases, Shared
<1>4. ValidAttributes(r.attributes)
  <2>1. r.attributes = DefaultAttributes
    OBVIOUS
  <2>2. /\ DefaultAttributes # << >> /\ DOMAIN DefaultAttributes = 1..2
        /\ DefaultAttributes[1] = "targetingKey" /\ DefaultAttributes[2] = "organization.id"
    BY DEF DefaultAttributes
  <2>3. \A i \in DOMAIN DefaultAttributes : i = 1 \/ i = 2
    BY <2>2
  <2>4. \A i, j \in DOMAIN DefaultAttributes :
          DefaultAttributes[i] = DefaultAttributes[j] => i = j
    BY <2>2, <2>3
  <2>5. \A i \in DOMAIN DefaultAttributes : DefaultAttributes[i] # ""
    BY <2>2, <2>3
  <2>6. 1 \in DOMAIN DefaultAttributes
    BY <2>2
  <2> QED
    BY <2>1, <2>2, <2>4, <2>5, <2>6, Zenon DEF ValidAttributes
<1> QED
  BY <1>1, <1>2, <1>3, <1>4 DEF ValidateRecipe

LEMMA AskedStep ==
  ASSUME AskedInv, [ServiceNext]_serviceVars
  PROVE  AskedInv'
<1> DEFINE Recipes ==
      [identified : {TRUE}, name : Names \cup {DefaultName}, language : Languages,
       database : Databases, deployment : Deployments, replicas : Int,
       delivery : Deliveries, attributes : {DefaultAttributes}]
    Late == {"replicas", "delivery", "nothing"}
<1>1. CASE UNCHANGED recipeVars
  BY <1>1 DEF AskedInv, recipeVars, ValidateRecipe, ValidName, ValidSelections,
              ValidDeployment, ValidDeploymentName
<1>2. CASE Deploy
  BY <1>2 DEF Deploy, AskedInv
<1>3. CASE Submit
  BY <1>3 DEF Submit, AskedInv
<1>4. CASE Finish
  <2>1. UNCHANGED <<recipe, source, asking>> /\ asking = "nothing" /\ source = "new"
    BY <1>4 DEF Finish
  <2>2. recipe \in Recipes /\ Supports(recipe.deployment, recipe.database)
    BY <2>1 DEF AskedInv
  <2>3. verdict' = "rejected" => ~ValidateRecipe(recipe)
    BY <1>4 DEF Finish
  <2> QED
    BY <2>1, <2>2, <2>3, Zenon DEF AskedInv
<1>5. ASSUME NEW question, NEW next, NEW answered, Ask(question, next, answered),
             question # "nothing",
             recipe \in Recipes => answered \in Recipes,
             next \in Late => question = "deployment" \/ question \in Late,
             (/\ recipe \in Recipes /\ next \in Late
              /\ question \in Late => Supports(recipe.deployment, recipe.database))
               => Supports(answered.deployment, answered.database)
      PROVE  AskedInv'
  <2>1. /\ asking = question /\ asking' = next /\ recipe' = answered
        /\ source' = source /\ verdict' = verdict
    BY <1>5 DEF Ask
  <2> SUFFICES ASSUME source = "new"
               PROVE  /\ answered \in Recipes
                      /\ next \in Late =>
                           Supports(answered.deployment, answered.database)
                      /\ verdict # "rejected"
    BY <2>1, Zenon DEF AskedInv
  <2> QED
    BY <1>5, <2>1 DEF AskedInv
<1>6. CASE AskName
  <2>1. PICK name \in Names \cup {DefaultName} :
          Ask("name", "language", [recipe EXCEPT !.name = name])
    BY <1>6 DEF AskName
  <2> QED
    BY <1>5, <2>1
<1>7. CASE AskLanguage
  <2>1. PICK language \in Languages :
          Ask("language", "database", [recipe EXCEPT !.language = language])
    BY <1>7 DEF AskLanguage
  <2> QED
    BY <1>5, <2>1
<1>8. CASE AskDatabase
  <2>1. PICK database \in Databases :
          Ask("database", "deployment", [recipe EXCEPT !.database = database])
    BY <1>8 DEF AskDatabase
  <2> QED
    BY <1>5, <2>1
<1>9. CASE AskDeployment
  <2>1. PICK deployment \in CompatibleDeployments(recipe.database) :
          Ask("deployment", "replicas", [recipe EXCEPT !.deployment = deployment])
    BY <1>9 DEF AskDeployment
  <2>2. deployment \in Deployments /\ Supports(deployment, recipe.database)
    BY <2>1 DEF CompatibleDeployments
  <2> QED
    BY <1>5, <2>1, <2>2
<1>10. CASE AskReplicas
  <2>1. PICK n \in {r \in Replicas : r > 0} \cup {DefaultReplicas(recipe.deployment)} :
          Ask("replicas", "delivery", [recipe EXCEPT !.replicas = n])
    BY <1>10 DEF AskReplicas
  <2>2. recipe \in Recipes => n \in Int
    BY <2>1, ReplicaAssumption DEF DefaultReplicas, DeploymentPacks, Deployments,
                                   SingleHost, Managed
  <2> QED
    BY <1>5, <2>1, <2>2
<1>11. CASE AskDelivery
  <2>1. PICK delivery \in Deliveries :
          Ask("delivery", "nothing", [recipe EXCEPT !.delivery = delivery])
    BY <1>11 DEF AskDelivery
  <2> QED
    BY <1>5, <2>1
<1> QED
  BY <1>1, <1>2, <1>3, <1>4, <1>6, <1>7, <1>8, <1>9, <1>10, <1>11
     DEF ServiceNext, Configure, serviceVars

(* With the default name and the default replicas every combination of      *)
(* choices that `reaper new` offers ends in a recipe that Validate accepts. *)
THEOREM NoDeadEnd == ServiceSpec => []OffersAreAccepted
<1>1. ServiceInit => AskedInv
  BY DEF ServiceInit, Start, AskedInv, DefaultRecipe, Languages, Databases, Deployments,
         DeploymentPacks, Deliveries
<1>2. AskedInv => OffersAreAccepted
  BY DefaultsFit DEF AskedInv, OffersAreAccepted
<1> QED
  BY <1>1, <1>2, AskedStep, PTL DEF ServiceSpec
=============================================================================
