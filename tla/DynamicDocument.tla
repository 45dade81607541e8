-------------------------- MODULE DynamicDocument --------------------------
(***************************************************************************)
(* better/model/state/dynamic: states are data, assembled by StateBuilder  *)
(* from the rules of AcmeContractStateAssembler, and DocumentResource-     *)
(* Manager gives the commands.  A refused command changes nothing.         *)
(***************************************************************************)
EXTENDS DocumentHeader

Rule(from, to, checks, actions) ==
  [from |-> from, to |-> to, checks |-> checks, actions |-> actions]

\* The chains from(..).check(..).to(..).action(..)
Rules ==
  { Rule("draft", "verified", {"contentNotEmpty", "authorIsNotAVerifier"},
         {"changeVerifier"}),
    Rule("verified", "published", {"contentNotEmpty"}, {"publishEvent"}),
    Rule("draft", "archived", {}, {}),
    Rule("verified", "archived", {}, {}),
    Rule("published", "archived", {}, {"publishEvent"}) }

\* Fault: a misspelt state, which the builder takes for one more state.
MisspeltContentRules ==
  { [from |-> "draft", to |-> "draft"], [from |-> "verified", to |-> "darft"] }

\* Fault: a published document may be edited.
ContentRulesOfPublished ==
  { [from |-> s, to |-> "draft"] : s \in {"draft", "verified", "published"} }

\* The chains from(..).whenContentChanged().to(..)
ContentRules ==
  { [from |-> "draft", to |-> "draft"], [from |-> "verified", to |-> "draft"] }

\* Every state may be changed to itself.
Transition(to) == to = status \/ \E r \in Rules : r.from = status /\ r.to = to

\* undefined is not null: contentNotEmpty never fails.
Passes(check, v) ==
  CASE check = "contentNotEmpty"      -> TRUE
    [] check = "authorIsNotAVerifier" -> v # Author

\* PreviousStateVerifier is implied by where the rule was found.
Predicates(to, v) ==
  \A r \in Rules : r.from = status /\ r.to = to =>
    \A check \in r.checks : Passes(check, v)

\* An action belongs to the state its rule goes to, whatever it came from.
ActionsOf(to) == UNION {r.actions : r \in {q \in Rules : q.to = to}}

ChangeState(to, v) ==
  /\ Transition(to)
  /\ Predicates(to, v)
  /\ status' = to
  /\ verifier' = IF "changeVerifier" \in ActionsOf(to) THEN v ELSE verifier
  /\ announced' = IF "publishEvent" \in ActionsOf(to)
                  THEN announced \union {content}
                  ELSE announced
  /\ approved' = IF status = "draft" /\ to = "verified" THEN Text ELSE approved
  /\ UNCHANGED content

\* The new state must be one that a content change leads to.
ChangeContentId(c) ==
  \E r \in ContentRules :
    /\ r.from = status
    /\ status' = r.to
    /\ content' = c
    /\ UNCHANGED <<verifier, announced, approved>>

\* DocumentResourceManager.createDocument begins with a draft.
DynamicInit == model = "dynamic" /\ status = "draft"

\* A command may lack the verifier.
DynamicNext ==
  /\ model = "dynamic"
  /\ \/ \E to \in {"draft", "verified", "published", "archived"},
           v \in Users \union {NoUser} : ChangeState(to, v)
     \/ \E c \in Texts : ChangeContentId(c)
  /\ UNCHANGED <<model, title>>
=============================================================================
