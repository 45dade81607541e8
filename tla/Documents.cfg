\* The three models of a document, with an author and two other users.
SPECIFICATION Spec
CONSTANTS
  Users = {author, reviewer, manager}
  Author = author
  Texts = {t1, t2, t3}
  NoUser = NoUser
  NoText = NoText
SYMMETRY RunSymmetry
CHECK_DEADLOCK FALSE
INVARIANTS
  TypeOK
  VerifiedByAnother
  ReviewedAsSeen
PROPERTIES
  ImplementsLifecycle
