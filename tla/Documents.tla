----------------------------- MODULE Documents -----------------------------
(***************************************************************************)
(* A document as an object of any of the three models of archetypes/       *)
(* contracts, and what they have in common.                                *)
(***************************************************************************)
EXTENDS LegacyDocument, StraightForwardDocument, DynamicDocument

Init ==
  /\ LegacyInit \/ StraightInit \/ DynamicInit
  /\ title = NoText
  /\ content = NoText
  /\ verifier = NoUser
  /\ announced = {}
  /\ approved = <<NoText, NoText>>

Next == LegacyNext \/ StraightNext \/ DynamicNext

Spec == Init /\ [][Next]_vars

-----------------------------------------------------------------------------
(* Properties                                                               *)

SomeText == Texts \union {NoText}

\* The columns have their shape.
TypeOK ==
  /\ model \in {"legacy", "straight-forward", "dynamic"}
  /\ status \in {"none", "draft", "verified", "published", "archived"}
  /\ title \in SomeText
  /\ content \in SomeText
  /\ verifier \in Users \union {NoUser}
  /\ announced \subseteq SomeText
  /\ approved \in SomeText \X SomeText

Reviewed == status \in {"verified", "published"}

\* In the legacy and the straight-forward model, a verified or published
\* document was verified by somebody who is not its author, and in the latter
\* it has a content (verifyBy, VerifiedState.canChangeFrom).
VerifiedByAnother ==
  /\ model # "dynamic" /\ Reviewed => verifier \in Users \ {Author}
  /\ model = "straight-forward" /\ Reviewed => content # NoText

\* What is verified or published is what the verifier saw, whatever was
\* edited, taken back or verified again before (changeTitle, changeContent).
ReviewedAsSeen == Reviewed => Text = approved

\* The dynamic model has announced what is published (PublishEvent).
PublishedIsAnnounced ==
  model = "dynamic" /\ status = "published" => content \in announced

Lifecycle ==
  INSTANCE DocumentLifecycle WITH
    Contents <- SomeText \X SomeText,
    status <- IF status = "none" THEN "draft" ELSE status,
    content <- Text,
    reversible <- (model = "straight-forward")

\* Each model implements the lifecycle of a document.
ImplementsLifecycle == Lifecycle!Spec
=============================================================================
