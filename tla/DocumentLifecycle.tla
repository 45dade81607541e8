------------------------- MODULE DocumentLifecycle -------------------------
(***************************************************************************)
(* What every model of a document in archetypes/contracts promises: its    *)
(* content is edited only before it is published, an edit takes away its   *)
(* verification, and only a verified document is published.  In one of the *)
(* models a document may be taken back to draft.                           *)
(***************************************************************************)
CONSTANT Contents

VARIABLES
  status,     \* "draft", "verified", "published" or "archived"
  content,    \* what the document says
  reversible  \* whether the document may be taken back to draft

vars == <<status, content, reversible>>

Init ==
  /\ status = "draft"
  /\ content \in Contents
  /\ reversible \in BOOLEAN

Edit(c) ==
  /\ status \in {"draft", "verified"}
  /\ status' = "draft"
  /\ content' = c
  /\ UNCHANGED reversible

Move(from, to) ==
  /\ status \in from
  /\ status' = to
  /\ UNCHANGED <<content, reversible>>

Verify == Move({"draft"}, "verified")

Publish == Move({"verified"}, "published")

Archive == Move({"draft", "verified", "published"}, "archived")

Reopen == reversible /\ Move({"verified", "published", "archived"}, "draft")

Next ==
  \/ Verify \/ Publish \/ Archive \/ Reopen
  \/ \E c \in Contents : Edit(c)

Spec == Init /\ [][Next]_vars
=============================================================================
