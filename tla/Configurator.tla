---------------------------- MODULE Configurator ----------------------------
(***************************************************************************)
(* How a recipe comes about and whether Generate accepts it: the catalog   *)
(* of packs (internal/factory/catalog.go), Validate (validate.go), the     *)
(* questions of `reaper new` (cmd/reaper/main.go), a recipe file, and the  *)
(* browser configurator (internal/configurator).  A name is what Validate  *)
(* looks at: whether it is a label, its length, and its first word.  Of    *)
(* schema, capability and tenant, which no front end asks for, a recipe     *)
(* only tells whether they are what Validate wants (identified).            *)
(***************************************************************************)
EXTENDS Integers, Sequences

CONSTANTS
  Names,       \* project names, [label, length, internal]
  Replicas,    \* replica counts somebody may ask for
  AttributeLists,  \* lists of targeting attributes a recipe may name
  None         \* an answer not yet given, an unregistered value

Languages == {"go", "typescript", "python"}
Databases == {"sqlite", "postgres", "mongodb", "couchbase"}
Shared == Databases \ {"sqlite"}
Deliveries == {"directory", "zip", "both"}
DefaultName == [label |-> TRUE, length |-> 12, internal |-> FALSE]
DefaultAttributes == <<"targetingKey", "organization.id">>

ASSUME NameAssumption ==
  Names \subseteq [label : BOOLEAN, length : Nat, internal : BOOLEAN]
ASSUME ReplicaAssumption == Replicas \subseteq Int

(* The deployment packs; a maximum of 0 is no maximum.  requiresShared only *)
(* chooses between two messages.                                            *)
SingleHost == [databases |-> Databases, default |-> 1, maximum |-> 1]
Managed == [databases |-> {"postgres", "mongodb", "couchbase"}, default |-> 2, maximum |-> 0]

DeploymentPacks ==
  [d \in {"docker", "aws-ecs", "aws-ec2", "gcp-cloud-run", "kubernetes"} |->
     IF d \in {"docker", "aws-ec2"} THEN SingleHost ELSE Managed]

Deployments == DOMAIN DeploymentPacks
Supports(deployment, database) == database \in DeploymentPacks[deployment].databases
CompatibleDeployments(database) == {d \in Deployments : Supports(d, database)}

(* Mutant: every deployment starts with two replicas.                       *)
DefaultReplicasTwo(deployment) == 2

DefaultReplicas(deployment) ==
  IF deployment \in Deployments THEN DeploymentPacks[deployment].default ELSE 1

-----------------------------------------------------------------------------
ValidName(recipe) == recipe.name.label /\ recipe.name.length \in 2..63

(* The name is used as it is for the provider's resources.                  *)
ValidDeploymentName(recipe) ==
  /\ recipe.deployment = "aws-ecs" => recipe.name.length <= 32 /\ ~recipe.name.internal
  /\ recipe.deployment = "gcp-cloud-run" => recipe.name.length \in 6..30

ValidSelections(recipe) ==
  /\ recipe.language \in Languages
  /\ recipe.database \in Databases
  /\ recipe.deployment \in Deployments
  /\ recipe.delivery \in Deliveries

ValidDeployment(recipe) ==
  LET maximum == DeploymentPacks[recipe.deployment].maximum IN
  /\ ValidDeploymentName(recipe)
  /\ recipe.replicas >= 1
  /\ Supports(recipe.deployment, recipe.database)
  /\ recipe.database \notin Shared => recipe.replicas = 1
  /\ maximum = 1 => recipe.replicas = 1
  /\ maximum > 1 => recipe.replicas <= maximum

ValidAttributes(attributes) ==
  /\ attributes # << >>
  /\ \A i \in DOMAIN attributes : attributes[i] # ""
  /\ \A i, j \in DOMAIN attributes : attributes[i] = attributes[j] => i = j
  /\ \E i \in DOMAIN attributes : attributes[i] = "targetingKey"

ValidateRecipe(recipe) ==
  /\ recipe.identified
  /\ ValidName(recipe)
  /\ ValidSelections(recipe)
  /\ ValidDeployment(recipe)
  /\ ValidAttributes(recipe.attributes)

-----------------------------------------------------------------------------
VARIABLES
  recipe,   \* the recipe as far as it is filled in
  source,   \* the front end it comes from
  asking,   \* the question `reaper new` is at
  verdict   \* what Generate said of it

recipeVars == <<recipe, source, asking, verdict>>

DefaultRecipe ==
  [identified |-> TRUE, name |-> DefaultName, language |-> "go", database |-> "sqlite",
   deployment |-> "docker", replicas |-> 1, delivery |-> "both", attributes |-> DefaultAttributes]

Start ==
  /\ recipe = DefaultRecipe
  /\ source \in {"new", "file", "browser"}
  /\ asking = IF source = "new" THEN "name" ELSE "nothing"
  /\ verdict = "none"

(* configure asks one question after the other.                             *)
Ask(question, next, answered) ==
  /\ asking = question
  /\ asking' = next
  /\ recipe' = answered
  /\ UNCHANGED <<source, verdict>>

AskName == \E name \in Names \cup {DefaultName} :
  Ask("name", "language", [recipe EXCEPT !.name = name])
AskLanguage == \E language \in Languages :
  Ask("language", "database", [recipe EXCEPT !.language = language])
AskDatabase == \E database \in Databases :
  Ask("database", "deployment", [recipe EXCEPT !.database = database])
AskDeployment == \E deployment \in CompatibleDeployments(recipe.database) :
  Ask("deployment", "replicas", [recipe EXCEPT !.deployment = deployment])
AskReplicas ==
  \E n \in {r \in Replicas : r > 0} \cup {DefaultReplicas(recipe.deployment)} :
    Ask("replicas", "delivery", [recipe EXCEPT !.replicas = n])
AskDelivery == \E delivery \in Deliveries :
  Ask("delivery", "nothing", [recipe EXCEPT !.delivery = delivery])

(* A recipe file or a request body names anything; the browser's delivery   *)
(* is always an archive.                                                    *)
Submit ==
  /\ source # "new"
  /\ verdict = "none"
  /\ \E identified \in BOOLEAN, name \in Names, language \in {"go", None},
        database \in Databases \cup {None}, deployment \in Deployments \cup {None}, n \in Replicas,
        delivery \in Deliveries \cup {None}, attributes \in AttributeLists :
       LET submitted == [identified |-> identified, name |-> name,
                         language |-> language, database |-> database,
                         deployment |-> deployment, replicas |-> n,
                         delivery |-> IF source = "browser" THEN "zip" ELSE delivery,
                         attributes |-> attributes] IN
       /\ recipe' = submitted
       /\ verdict' = IF ValidateRecipe(submitted) THEN "accepted" ELSE "rejected"
  /\ UNCHANGED <<source, asking>>

Finish ==
  /\ source = "new" /\ asking = "nothing"
  /\ verdict = "none"
  /\ verdict' = IF ValidateRecipe(recipe) THEN "accepted" ELSE "rejected"
  /\ UNCHANGED <<recipe, source, asking>>

Configure ==
  \/ AskName \/ AskLanguage \/ AskDatabase \/ AskDeployment \/ AskReplicas
  \/ AskDelivery \/ Submit \/ Finish

-----------------------------------------------------------------------------
(* The questions of `reaper new` never lead into a dead end: with the       *)
(* default name and the default number of replicas every combination of     *)
(* offered choices is accepted (CompatibleDeployments, DefaultReplicas).    *)
OffersAreAccepted ==
  (source = "new" /\ verdict = "rejected") =>
    recipe.name # DefaultName \/ recipe.replicas # DefaultReplicas(recipe.deployment)

-----------------------------------------------------------------------------
(* The inductive invariant: what the questions asked so far have settled.   *)
AskedInv ==
  source = "new" =>
    /\ recipe \in [identified : {TRUE}, name : Names \cup {DefaultName}, language : Languages,
                    database : Databases, deployment : Deployments, replicas : Int,
                    delivery : Deliveries, attributes : {DefaultAttributes}]
    /\ asking \in {"replicas", "delivery", "nothing"} =>
         Supports(recipe.deployment, recipe.database)
    /\ verdict = "rejected" => asking = "nothing" /\ ~ValidateRecipe(recipe)
=============================================================================
