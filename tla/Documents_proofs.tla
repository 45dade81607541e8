-------------------------- MODULE Documents_proofs --------------------------
(***************************************************************************)
(* Safety of the three models of a document, for any users and texts, and  *)
(* that each implements the lifecycle.  The invariants are proved together *)
(* (IInv); the lifecycle needs of it only which states a model may be in.  *)
(***************************************************************************)
EXTENDS Documents, TLAPS

\* Only a straight-forward document may have no state.
Started == status = "none" => model = "straight-forward"

IInv ==
  /\ TypeOK
  /\ Started
  /\ VerifiedByAnother
  /\ ReviewedAsSeen
  /\ PublishedIsAnnounced

-----------------------------------------------------------------------------
(* The assembled rules                                                      *)

\* Where the rules of AcmeContractStateAssembler lead, self transitions included.
LEMMA WhereRulesLead ==
  ASSUME NEW to, Transition(to), status # "none"
  PROVE  \/ to = status
         \/ status = "draft" /\ to = "verified"
         \/ status = "verified" /\ to = "published"
         \/ status \in {"draft", "verified", "published"} /\ to = "archived"
  BY DEF Transition, Rules, Rule

\* Which actions the states of AcmeContractStateAssembler end up with.
LEMMA ActionsOfStates ==
  /\ "changeVerifier" \in ActionsOf("verified")
  /\ "publishEvent" \in ActionsOf("published")
<1>1. /\ Rule("draft", "verified", {"contentNotEmpty", "authorIsNotAVerifier"},
              {"changeVerifier"}) \in {q \in Rules : q.to = "verified"}
      /\ Rule("verified", "published", {"contentNotEmpty"}, {"publishEvent"})
           \in {q \in Rules : q.to = "published"}
  BY DEF Rules, Rule
<1>. QED
  BY <1>1 DEF ActionsOf, Rule

-----------------------------------------------------------------------------
(* IInv is an invariant                                                     *)

LEMMA InitInv == Init => IInv
  BY DocumentAssumption
  DEF Init, LegacyInit, StraightInit, DynamicInit, IInv, TypeOK, SomeText,
      Started, VerifiedByAnother, ReviewedAsSeen, Reviewed, PublishedIsAnnounced

LEMMA LegacyStep == IInv /\ LegacyNext => IInv'
<1>. SUFFICES ASSUME IInv, LegacyNext PROVE IInv'
  OBVIOUS
<1>. USE DEF IInv, TypeOK, SomeText, Started, VerifiedByAnother, ReviewedAsSeen,
             Reviewed, PublishedIsAnnounced, Text
<1>1. CASE Publish
  BY <1>1 DEF Publish, LegacyNext
<1>2. CASE Archive
  BY <1>2 DEF Archive, LegacyNext
<1>3. CASE \E v \in Users : VerifyBy(v)
  BY <1>3 DEF VerifyBy, LegacyNext
<1>4. CASE \E t \in Texts : ChangeTitle(t) \/ ChangeContent(t)
  BY <1>4 DEF ChangeTitle, ChangeContent, StatusAfterEdit, LegacyNext
<1>. QED
  BY <1>1, <1>2, <1>3, <1>4 DEF LegacyNext

LEMMA StraightStep == IInv /\ StraightNext => IInv'
<1>. SUFFICES ASSUME IInv, StraightNext PROVE IInv'
  OBVIOUS
<1>. USE DEF IInv, TypeOK, SomeText, Started, VerifiedByAnother, ReviewedAsSeen,
             Reviewed, PublishedIsAnnounced, Text, Current, StraightNext
<1>1. ASSUME NEW new \in {"draft", "verified", "published", "archived"},
             NEW v \in Users, ChangeStateTo(new, v)
      PROVE  IInv'
  BY <1>1 DEF ChangeStateTo, CanChangeFrom
<1>2. CASE Refused
  BY <1>2 DEF Refused
<1>3. CASE \E c \in Texts : SetContent(c)
  BY <1>3 DEF SetContent
<1>. QED
  BY <1>1, <1>2, <1>3 DEF StraightNext

LEMMA DynamicStep == IInv /\ DynamicNext => IInv'
<1>. SUFFICES ASSUME IInv, DynamicNext PROVE IInv'
  OBVIOUS
<1>. USE DEF IInv, TypeOK, SomeText, Started, VerifiedByAnother, ReviewedAsSeen,
             Reviewed, PublishedIsAnnounced, Text
<1>0. model = "dynamic" /\ status # "none" /\ UNCHANGED <<model, title>>
  BY DEF DynamicNext
<1>1. ASSUME NEW to \in {"draft", "verified", "published", "archived"},
             NEW v \in Users \union {NoUser}, ChangeState(to, v)
      PROVE  IInv'
  <2>1. /\ status' = to /\ UNCHANGED content
        /\ verifier' \in Users \union {NoUser}
        /\ announced' \in SUBSET SomeText
        /\ announced \subseteq announced'
        /\ to = "published" => content \in announced'
        /\ approved' = IF status = "draft" /\ to = "verified"
                       THEN Text ELSE approved
    BY <1>1, ActionsOfStates DEF ChangeState
  <2>2. \/ to = status
        \/ status = "draft" /\ to = "verified"
        \/ status = "verified" /\ to = "published"
        \/ status \in {"draft", "verified", "published"} /\ to = "archived"
    BY <1>0, <1>1, WhereRulesLead DEF ChangeState
  <2>. QED
    BY <1>0, <2>1, <2>2
<1>2. ASSUME NEW c \in Texts, ChangeContentId(c)
      PROVE  IInv'
  BY <1>0, <1>2 DEF ChangeContentId, ContentRules
<1>. QED
  BY <1>1, <1>2 DEF DynamicNext

LEMMA StepInv == IInv /\ [Next]_vars => IInv'
<1>1. IInv /\ UNCHANGED vars => IInv'
  BY DEF IInv, TypeOK, Started, VerifiedByAnother, ReviewedAsSeen, Reviewed,
         PublishedIsAnnounced, Text, vars
<1>. QED
  BY <1>1, LegacyStep, StraightStep, DynamicStep DEF Next

\* Documents of every model satisfy the conjuncts of IInv.
THEOREM Invariance == Spec => []IInv
<1>. QED
  BY InitInv, StepInv, PTL DEF Spec

-----------------------------------------------------------------------------
(* The invariants the runs check                                            *)

\* TypeOK: headers keep their shape, and no command makes up a state.
THEOREM TypeCorrect == Spec => []TypeOK
<1>1. IInv => TypeOK
  BY DEF IInv
<1>. QED
  BY <1>1, Invariance, PTL

\* VerifiedByAnother: in the legacy and the straight-forward model no sequence
\* of edits, reopenings and refused commands gets a document reviewed by its
\* author alone.
THEOREM AuthorsNeedAnother == Spec => []VerifiedByAnother
<1>1. IInv => VerifiedByAnother
  BY DEF IInv
<1>. QED
  BY <1>1, Invariance, PTL

\* ReviewedAsSeen: a verified or published document says what its verifier saw.
THEOREM NothingSlipsIn == Spec => []ReviewedAsSeen
<1>1. IInv => ReviewedAsSeen
  BY DEF IInv
<1>. QED
  BY <1>1, Invariance, PTL

\* PublishedIsAnnounced: the dynamic model emits DocumentPublished for every
\* content it publishes.
THEOREM PublicationsAreAnnounced == Spec => []PublishedIsAnnounced
<1>1. IInv => PublishedIsAnnounced
  BY DEF IInv
<1>. QED
  BY <1>1, Invariance, PTL

-----------------------------------------------------------------------------
(* The lifecycle                                                            *)

LEMMA InitLifecycle == Init => Lifecycle!Init
  BY DEF Init, LegacyInit, StraightInit, DynamicInit, Lifecycle!Init, Text,
         SomeText

LEMMA LegacyLifecycle ==
  IInv /\ LegacyNext => [Lifecycle!Next]_(Lifecycle!vars)
<1>. SUFFICES ASSUME IInv, LegacyNext PROVE [Lifecycle!Next]_(Lifecycle!vars)
  OBVIOUS
<1>0. /\ model = "legacy" /\ model' = model
      /\ status \in {"draft", "verified", "published", "archived"}
      /\ title \in SomeText /\ content \in SomeText
  BY DEF IInv, TypeOK, Started, LegacyNext
<1>1. CASE Publish
  BY <1>0, <1>1 DEF Publish, Text, Lifecycle!Next, Lifecycle!Publish, Lifecycle!Move
<1>2. CASE Archive
  BY <1>0, <1>2 DEF Archive, Text, Lifecycle!Next, Lifecycle!Archive,
                    Lifecycle!Move, Lifecycle!vars
<1>3. CASE \E v \in Users : VerifyBy(v)
  BY <1>0, <1>3 DEF VerifyBy, Text, Lifecycle!Next, Lifecycle!Verify, Lifecycle!Move
<1>4. ASSUME NEW t \in Texts, ChangeTitle(t) \/ ChangeContent(t)
      PROVE  Lifecycle!Next
  <2>1. Text' \in SomeText \X SomeText
    BY <1>0, <1>4 DEF ChangeTitle, ChangeContent, Text, SomeText
  <2>2. Lifecycle!Edit(Text')
    BY <1>0, <1>4 DEF ChangeTitle, ChangeContent, StatusAfterEdit, Lifecycle!Edit
  <2>. QED
    BY <2>1, <2>2 DEF Lifecycle!Next
<1>. QED
  BY <1>1, <1>2, <1>3, <1>4 DEF LegacyNext

LEMMA StraightLifecycle ==
  IInv /\ StraightNext => [Lifecycle!Next]_(Lifecycle!vars)
<1>. SUFFICES ASSUME IInv, StraightNext PROVE [Lifecycle!Next]_(Lifecycle!vars)
  OBVIOUS
<1>0. /\ model = "straight-forward" /\ UNCHANGED <<model, title>>
      /\ status \in {"none", "draft", "verified", "published", "archived"}
      /\ title \in SomeText /\ content \in SomeText
  BY DEF IInv, TypeOK, StraightNext
<1>1. ASSUME NEW new \in {"draft", "verified", "published", "archived"},
             NEW v \in Users, ChangeStateTo(new, v)
      PROVE  [Lifecycle!Next]_(Lifecycle!vars)
  <2>. USE <1>0, <1>1 DEF ChangeStateTo, CanChangeFrom, Current, Text,
                          Lifecycle!Next, Lifecycle!Move, Lifecycle!vars
  <2>1. CASE new = "draft"
    BY <2>1 DEF Lifecycle!Reopen
  <2>2. CASE new = "verified"
    BY <2>2 DEF Lifecycle!Verify
  <2>3. CASE new = "published"
    BY <2>3 DEF Lifecycle!Publish
  <2>4. CASE new = "archived"
    BY <2>4 DEF Lifecycle!Archive
  <2>. QED
    BY <2>1, <2>2, <2>3, <2>4
<1>2. CASE Refused
  BY <1>0, <1>2 DEF Refused, Current, Text, Lifecycle!vars
<1>3. ASSUME NEW c \in Texts, SetContent(c)
      PROVE  Lifecycle!Next
  <2>1. Text' \in SomeText \X SomeText
    BY <1>0, <1>3 DEF SetContent, Text, SomeText
  <2>2. Lifecycle!Edit(Text')
    BY <1>0, <1>3 DEF SetContent, CanChangeContent, Current, Lifecycle!Edit
  <2>. QED
    BY <2>1, <2>2 DEF Lifecycle!Next
<1>. QED
  BY <1>1, <1>2, <1>3 DEF StraightNext

LEMMA DynamicLifecycle ==
  IInv /\ DynamicNext => [Lifecycle!Next]_(Lifecycle!vars)
<1>. SUFFICES ASSUME IInv, DynamicNext PROVE [Lifecycle!Next]_(Lifecycle!vars)
  OBVIOUS
<1>0. /\ model = "dynamic" /\ UNCHANGED <<model, title>>
      /\ status \in {"draft", "verified", "published", "archived"}
      /\ title \in SomeText /\ content \in SomeText
  BY DEF IInv, TypeOK, Started, DynamicNext
<1>1. ASSUME NEW to \in {"draft", "verified", "published", "archived"},
             NEW v \in Users \union {NoUser}, ChangeState(to, v)
      PROVE  [Lifecycle!Next]_(Lifecycle!vars)
  <2>1. \/ to = status
        \/ status = "draft" /\ to = "verified"
        \/ status = "verified" /\ to = "published"
        \/ status \in {"draft", "verified", "published"} /\ to = "archived"
    BY <1>0, <1>1, WhereRulesLead DEF ChangeState
  <2>2. status' = to /\ UNCHANGED Text
    BY <1>0, <1>1 DEF ChangeState, Text
  <2>. QED
    BY <1>0, <2>1, <2>2
    DEF Lifecycle!Next, Lifecycle!Verify, Lifecycle!Publish, Lifecycle!Archive,
        Lifecycle!Move, Lifecycle!vars
<1>2. ASSUME NEW c \in Texts, ChangeContentId(c)
      PROVE  Lifecycle!Next
  <2>1. Text' \in SomeText \X SomeText
    BY <1>0, <1>2 DEF ChangeContentId, Text, SomeText
  <2>2. Lifecycle!Edit(Text')
    BY <1>0, <1>2 DEF ChangeContentId, ContentRules, Lifecycle!Edit
  <2>. QED
    BY <2>1, <2>2 DEF Lifecycle!Next
<1>. QED
  BY <1>1, <1>2 DEF DynamicNext

\* ImplementsLifecycle: a document of each model is edited only before it is
\* published, loses its verification by an edit and is published only when
\* verified; only a straight-forward one is ever taken back to draft.
THEOREM ModelsImplementLifecycle == Spec => ImplementsLifecycle
<1>1. IInv /\ [Next]_vars => [Lifecycle!Next]_(Lifecycle!vars)
  <2>1. UNCHANGED vars => UNCHANGED Lifecycle!vars
    BY DEF vars, Text, Lifecycle!vars
  <2>. QED
    BY <2>1, LegacyLifecycle, StraightLifecycle, DynamicLifecycle DEF Next
<1>. QED
  BY <1>1, InitLifecycle, Invariance, PTL
  DEF Spec, ImplementsLifecycle, Lifecycle!Spec
=============================================================================
