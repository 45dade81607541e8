--------------------------- MODULE LegacyDocument ---------------------------
(***************************************************************************)
(* legacy/document.ts: one entity with a status.  overridePublished is     *)
(* never assigned, so changeContent has the guard of changeTitle.          *)
(***************************************************************************)
EXTENDS DocumentHeader

VerifyBy(v) ==
  /\ status = "draft"
  /\ v # Author
  /\ status' = "verified"
  /\ verifier' = v
  /\ approved' = Text
  /\ UNCHANGED <<title, content>>

Publish ==
  /\ status = "verified"
  /\ status' = "published"
  /\ UNCHANGED <<title, content, verifier, approved>>

Archive ==
  /\ status' = "archived"
  /\ UNCHANGED <<title, content, verifier, approved>>

\* Fault: an edit leaves a verified document verified.
StaysVerified == status

StatusAfterEdit == IF status = "verified" THEN "draft" ELSE status

ChangeTitle(t) ==
  /\ status \notin {"archived", "published"}
  /\ title' = t
  /\ status' = StatusAfterEdit
  /\ UNCHANGED <<content, verifier, approved>>

ChangeContent(c) ==
  /\ status \notin {"archived", "published"}
  /\ content' = c
  /\ status' = StatusAfterEdit
  /\ UNCHANGED <<title, verifier, approved>>

LegacyInit == model = "legacy" /\ status = "draft"

LegacyNext ==
  /\ model = "legacy"
  /\ \/ Publish \/ Archive
     \/ \E v \in Users : VerifyBy(v)
     \/ \E t \in Texts : ChangeTitle(t) \/ ChangeContent(t)
  /\ UNCHANGED <<model, announced>>
=============================================================================
