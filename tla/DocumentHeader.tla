--------------------------- MODULE DocumentHeader ---------------------------
(***************************************************************************)
(* The state of a document, common to the three models of it that          *)
(* archetypes/contracts keeps side by side.  They live in one process and  *)
(* each call is synchronous once it has the document: the repository of    *)
(* headers is in memory and hands out the object itself.                   *)
(***************************************************************************)
CONSTANTS
  Users,   \* ids of users
  Author,  \* the user who created the document
  Texts,   \* titles and contents
  NoUser,  \* a verifier that is undefined
  NoText   \* a title or content that is undefined

ASSUME DocumentAssumption ==
  /\ Author \in Users
  /\ NoUser \notin Users
  /\ NoText \notin Texts

VARIABLES
  model,      \* history: the model the document is an object of
  status,     \* its status or state descriptor, "none" when not set
  title,      \* its title (legacy model only)
  content,    \* its content, or the id of it
  verifier,   \* the user who verified it last
  announced,  \* the contents for which DocumentPublished was emitted
  approved    \* history: title and content when it was last verified

vars == <<model, status, title, content, verifier, announced, approved>>

Text == <<title, content>>
=============================================================================
