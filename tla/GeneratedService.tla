-------------------------- MODULE GeneratedService --------------------------
(***************************************************************************)
(* From the recipe to the service it generates: the front ends settle a    *)
(* recipe, an accepted one is rendered, and its language and its targeting *)
(* attributes become the policy of the generated service, whose owner      *)
(* publishes a flag, changes it, and deploys later builds with other       *)
(* attributes over the same database.                                      *)
(***************************************************************************)
EXTENDS FlagEvaluate, Configurator

serviceVars == <<vars, recipeVars>>

ServiceInit ==
  /\ Start
  /\ flag = Absent
  /\ bucket = Absent
  /\ approved = {}
  /\ rereads = FALSE

Members(attributes) == {attributes[i] : i \in DOMAIN attributes}

(* newRenderData quotes the recipe's attributes into the policy's list; the *)
(* language decides how the stores read.  The recipe is then spent.         *)
Deploy ==
  /\ verdict = "accepted"
  /\ approved' = Members(recipe.attributes)
  /\ rereads' = (recipe.language = "go")
  /\ recipe' = DefaultRecipe
  /\ source' = "file" /\ asking' = "nothing"
  /\ verdict' = "delivered"
  /\ UNCHANGED <<flag, bucket>>

Operate ==
  \/ approved # {} /\ flag = Absent /\ \E draft \in Drafts : Publish(draft)
  \/ \E percentage \in Percentages : Ramp(percentage)
  \/ \E attributes \in {l \in AttributeLists : ValidAttributes(l)} : Rebuild(Members(attributes))

ServiceNext ==
  \/ Configure /\ UNCHANGED vars
  \/ Deploy
  \/ Operate /\ UNCHANGED recipeVars

ServiceSpec == ServiceInit /\ [][ServiceNext]_serviceVars
=============================================================================
