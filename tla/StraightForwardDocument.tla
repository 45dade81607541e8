---------------------- MODULE StraightForwardDocument ----------------------
(***************************************************************************)
(* better/model/state/straight-forward: a class for each state, each of    *)
(* which knows from which others it may be entered.  A refused command     *)
(* changes nothing and does not throw.                                     *)
(*                                                                         *)
(* A header has no state before AcmeStateFactory makes it a draft.  The    *)
(* factory throws for every header that has one: the later commands are    *)
(* those given to the state object itself, as the tests do.                *)
(***************************************************************************)
EXTENDS DocumentHeader

\* AcmeStateFactory.create
Current == IF status = "none" THEN "draft" ELSE status

\* Fault: a document without content may be verified.
CanChangeFromAnyDraft(new, v) ==
  /\ new = "verified" => Current = "draft" /\ v # Author
  /\ new = "published" => Current = "verified" /\ content # NoText

\* canChangeFrom of the state's class; DraftState and ArchivedState allow all.
CanChangeFrom(new, v) ==
  /\ new = "verified" => Current = "draft" /\ v # Author /\ content # NoText
  /\ new = "published" => Current = "verified" /\ content # NoText

Refused ==
  /\ status' = Current
  /\ UNCHANGED <<content, verifier, approved>>

\* Only VerifiedState has something to acquire.
ChangeStateTo(new, v) ==
  /\ CanChangeFrom(new, v)
  /\ status' = new
  /\ IF new = "verified"
     THEN verifier' = v /\ approved' = Text
     ELSE UNCHANGED <<verifier, approved>>
  /\ UNCHANGED content

CanChangeContent == Current \in {"draft", "verified"}

\* Both of them go to DraftState.
SetContent(c) ==
  /\ CanChangeContent
  /\ status' = "draft"
  /\ content' = c
  /\ UNCHANGED <<verifier, approved>>

StraightInit == model = "straight-forward" /\ status = "none"

StraightNext ==
  /\ model = "straight-forward"
  /\ \/ \E new \in {"draft", "verified", "published", "archived"}, v \in Users :
          ChangeStateTo(new, v) \/ (~CanChangeFrom(new, v) /\ Refused)
     \/ \E c \in Texts : SetContent(c)
     \/ ~CanChangeContent /\ Refused
  /\ UNCHANGED <<model, title, announced>>
=============================================================================
