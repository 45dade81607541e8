--------------------------- MODULE ContractService ---------------------------
(***************************************************************************)
(* The contracts of a partner and their attachments (agreements/           *)
(* contract.service.ts).                                                   *)
(*                                                                         *)
(* A contract is saved with its list of attachments.  The save writes the  *)
(* statuses that differ from the rows it finds, takes out of the contract  *)
(* the attachments that the list lacks, and puts in those it has besides.  *)
(* The list of a contract that was loaded for one attachment holds nothing *)
(* but that one.                                                           *)
(***************************************************************************)
EXTENDS Naturals, Sequences, FiniteSets

CONSTANTS
  Calls,             \* calls of the service; each is handled once
  InitialContracts,  \* contracts created before the first of them
  MaxOverlap         \* bound on the calls in progress at the same time

ASSUME ContractAssumption ==
  /\ InitialContracts \in Nat
  /\ MaxOverlap \in Nat

VARIABLES
  contracts,    \* contract rows
  attachments,  \* contract_attachment rows; one of contract 0 is of none
  data,         \* the attachments with a contract_attachment_data row
  pc,           \* where a call is
  held,         \* what it holds in memory
  acceptances,  \* history: acceptances of each attachment that were saved
  proposedTo,   \* history: the contract each attachment was proposed to
  removed,      \* history: attachments removed from their contract
  orderly       \* history: no two calls overlapped, no crash, and no
                \* attachment was removed through another contract

tables == <<contracts, attachments, data>>
history == <<acceptances, proposedTo, removed, orderly>>
vars == <<tables, pc, held, history>>

ContractStatus == {"negotiations_in_progress", "rejected", "accepted"}

AttachmentStatus ==
  {"proposed", "accepted_by_one_side", "accepted_by_both_side", "rejected"}

Contract == [no : Nat, status : ContractStatus]

Attachment == [contract : Nat, status : AttachmentStatus]

NewContract(no) == [no |-> no, status |-> "negotiations_in_progress"]

NewAttachment(c) == [contract |-> c, status |-> "proposed"]

\* status and list are the contract in memory, list by attachment; the seen
\* ones are what the SELECTs of its save found.
Blank ==
  [op |-> "none", contract |-> 0, attachment |-> 0, no |-> 0,
   status |-> "negotiations_in_progress", list |-> <<>>,
   seenStatus |-> "negotiations_in_progress", seenList |-> <<>>,
   seenAttached |-> {}]

Attached(c) == {a \in DOMAIN attachments : attachments[a].contract = c}

Statuses(S) == [a \in S |-> attachments[a].status]

InProgress(r) == pc[r] \notin {"idle", "answered"}
Quiet == \A r \in Calls : ~InProgress(r)

Goto(r, label) == pc' = [pc EXCEPT ![r] = label]
Hold(r, x) == held' = [held EXCEPT ![r] = x]

Finish(r) == Goto(r, "answered") /\ Hold(r, Blank)

-----------------------------------------------------------------------------
OfContract == {"acceptContract", "rejectContract", "proposeAttachment"}

OfAttachment == {"acceptAttachment", "rejectAttachment"}

Start(r, label, x) == Goto(r, label) /\ Hold(r, x)

\* removeAttachment does not look whether the attachment is of the contract.
Foreign(c, a) == attachments[a].contract \notin {0, c}

Begin(r) ==
  /\ pc[r] = "idle"
  /\ Cardinality({q \in Calls : InProgress(q)}) < MaxOverlap
  /\ \/ /\ Start(r, "count", [Blank EXCEPT !.op = "createContract"])
        /\ orderly' = (orderly /\ Quiet)
     \/ \E o \in OfContract, c \in DOMAIN contracts :
          /\ Start(r, "find", [Blank EXCEPT !.op = o, !.contract = c])
          /\ orderly' = (orderly /\ Quiet)
     \/ \E o \in OfAttachment, a \in DOMAIN attachments :
          /\ Start(r, "find", [Blank EXCEPT !.op = o, !.attachment = a])
          /\ orderly' = (orderly /\ Quiet)
     \/ \E c \in DOMAIN contracts, a \in DOMAIN attachments :
          /\ Start(r, "find", [Blank EXCEPT !.op = "removeAttachment",
                                            !.contract = c, !.attachment = a])
          /\ orderly' = (orderly /\ Quiet /\ ~Foreign(c, a))
  /\ UNCHANGED <<tables, acceptances, proposedTo, removed>>

-----------------------------------------------------------------------------
(* createContract                                                           *)

ContractNumber == Len(contracts) + 1

CountContracts(r) ==
  /\ pc[r] = "count"
  /\ Start(r, "insert", [held[r] EXCEPT !.no = ContractNumber])
  /\ UNCHANGED <<tables, history>>

InsertContract(r) ==
  /\ pc[r] = "insert"
  /\ contracts' = Append(contracts, NewContract(held[r].no))
  /\ Finish(r)
  /\ UNCHANGED <<attachments, data, history>>

-----------------------------------------------------------------------------
(* The calls on a contract that exists                                      *)

\* Fault: a contract is accepted with its first accepted attachment.
SomeAccepted(c) ==
  \/ Attached(c) = {}
  \/ \E a \in Attached(c) : attachments[a].status = "accepted_by_both_side"

\* accept throws otherwise.
AllAccepted(c) ==
  \A a \in Attached(c) : attachments[a].status = "accepted_by_both_side"

\* Fault: one side may accept for both.
AcceptedAtOnce(status) == "accepted_by_both_side"

\* Fault: the attachment gets the status of an accepted contract.
AcceptedAsContract(status) ==
  IF status = "proposed" THEN "accepted_by_one_side" ELSE "accepted"

\* Contract.acceptAttachment: whoever accepts is not asked which side it is.
AcceptedOnceMore(status) ==
  IF status \in {"accepted_by_one_side", "accepted_by_both_side"}
  THEN "accepted_by_both_side"
  ELSE "accepted_by_one_side"

AttachmentStatusAfter(o, status) ==
  IF o = "acceptAttachment" THEN AcceptedOnceMore(status) ELSE "rejected"

\* The contract of a call, loaded with all of its attachments.
WithAll(r) ==
  LET c == held[r].contract IN
    [held[r] EXCEPT !.status = contracts[c].status,
                    !.list = Statuses(Attached(c))]

\* The contract of an attachment, loaded with that attachment only.
WithOne(r) ==
  LET a == held[r].attachment
      c == attachments[a].contract
  IN  [held[r] EXCEPT
         !.contract = c,
         !.status = contracts[c].status,
         !.list = [b \in {a} |->
                     AttachmentStatusAfter(held[r].op, attachments[a].status)]]

\* Fault: the attachment stays in the list that is saved.
NothingRemoved(r) == WithAll(r)

WithoutRemoved(r) ==
  [WithAll(r) EXCEPT
     !.list = Statuses(Attached(held[r].contract) \ {held[r].attachment})]

Find(r) ==
  /\ pc[r] = "find"
  /\ \/ /\ held[r].op = "acceptContract"
        /\ AllAccepted(held[r].contract)
        /\ Start(r, "compare", [WithAll(r) EXCEPT !.status = "accepted"])
     \/ /\ held[r].op = "acceptContract"
        /\ ~AllAccepted(held[r].contract)
        /\ Finish(r)
     \/ /\ held[r].op = "rejectContract"
        /\ Start(r, "compare", [WithAll(r) EXCEPT !.status = "rejected"])
     \/ /\ held[r].op = "proposeAttachment"
        /\ Start(r, "compare", WithAll(r))
     \/ /\ held[r].op = "removeAttachment"
        /\ Start(r, "deleteData", WithoutRemoved(r))
     \/ /\ held[r].op \in OfAttachment
        /\ attachments[held[r].attachment].contract # 0
        /\ Start(r, "compare", WithOne(r))
     \/ /\ held[r].op \in OfAttachment
        /\ attachments[held[r].attachment].contract = 0
        /\ Finish(r)
  /\ UNCHANGED <<tables, history>>

DeleteData(r) ==
  /\ pc[r] = "deleteData"
  /\ data' = data \ {held[r].attachment}
  /\ Goto(r, "compare")
  /\ UNCHANGED <<contracts, attachments, held, history>>

\* The SELECTs of a save of the contract.
Compare(r) ==
  /\ pc[r] = "compare"
  /\ Start(r, "update",
           [held[r] EXCEPT
              !.seenStatus = contracts[held[r].contract].status,
              !.seenList = Statuses(DOMAIN held[r].list),
              !.seenAttached = Attached(held[r].contract)])
  /\ UNCHANGED <<tables, history>>

Written(new, seen, current) == IF new # seen THEN new ELSE current

\* The contract of attachment a after the save.
AttachedTo(r, a) ==
  IF a \in DOMAIN held[r].list \ held[r].seenAttached
  THEN held[r].contract
  ELSE IF a \in held[r].seenAttached \ DOMAIN held[r].list
       THEN 0
       ELSE attachments[a].contract

Saved(r) ==
  [ a \in DOMAIN attachments |->
      [ contract |-> AttachedTo(r, a),
        status   |-> IF a \in DOMAIN held[r].list
                     THEN Written(held[r].list[a], held[r].seenList[a],
                                  attachments[a].status)
                     ELSE attachments[a].status ] ]

Update(r) ==
  LET c == held[r].contract
      a == held[r].attachment
      proposes == held[r].op = "proposeAttachment"
  IN
  /\ pc[r] = "update"
  /\ contracts' = [contracts EXCEPT ![c].status =
                     Written(held[r].status, held[r].seenStatus, @)]
  /\ attachments' = IF proposes THEN Append(Saved(r), NewAttachment(c))
                    ELSE Saved(r)
  /\ acceptances' = IF proposes THEN Append(acceptances, 0)
                    ELSE IF held[r].op = "acceptAttachment"
                         THEN [acceptances EXCEPT ![a] = @ + 1]
                         ELSE acceptances
  /\ proposedTo' = IF proposes THEN Append(proposedTo, c) ELSE proposedTo
  /\ removed' = IF held[r].op = "removeAttachment" THEN removed \union {a}
                ELSE removed
  /\ IF proposes
     THEN Start(r, "insertData",
                [Blank EXCEPT !.op = "proposeAttachment",
                              !.attachment = Len(attachments) + 1])
     ELSE Finish(r)
  /\ UNCHANGED <<data, orderly>>

InsertData(r) ==
  /\ pc[r] = "insertData"
  /\ data' = data \union {held[r].attachment}
  /\ Finish(r)
  /\ UNCHANGED <<contracts, attachments, history>>

-----------------------------------------------------------------------------
\* The server dies and is started again.
Crash ==
  /\ ~Quiet
  /\ pc' = [r \in Calls |-> IF InProgress(r) THEN "answered" ELSE pc[r]]
  /\ held' = [r \in Calls |-> Blank]
  /\ orderly' = FALSE
  /\ UNCHANGED <<tables, acceptances, proposedTo, removed>>

Init ==
  /\ contracts = [no \in 1 .. InitialContracts |-> NewContract(no)]
  /\ attachments = <<>>
  /\ data = {}
  /\ pc = [r \in Calls |-> "idle"]
  /\ held = [r \in Calls |-> Blank]
  /\ acceptances = <<>>
  /\ proposedTo = <<>>
  /\ removed = {}
  /\ orderly = TRUE

Step(r) ==
  \/ Begin(r)
  \/ CountContracts(r) \/ InsertContract(r)
  \/ Find(r) \/ DeleteData(r) \/ Compare(r) \/ Update(r) \/ InsertData(r)

Next == (\E r \in Calls : Step(r)) \/ Crash

Spec == Init /\ [][Next]_vars

-----------------------------------------------------------------------------
(* Properties                                                               *)

Labels ==
  { "idle", "count", "insert", "find", "deleteData", "compare", "update",
    "insertData", "answered" }

\* Lists of attachments in memory, with the status each has there.
Lists == UNION {[S -> AttachmentStatus] : S \in SUBSET DOMAIN attachments}

Held ==
  [ op : {"none", "createContract", "removeAttachment"}
           \union OfContract \union OfAttachment,
    contract : DOMAIN contracts \union {0},
    attachment : DOMAIN attachments \union {0},
    no : Nat, status : ContractStatus, list : Lists,
    seenStatus : ContractStatus, seenList : Lists,
    seenAttached : SUBSET DOMAIN attachments ]

\* Rows and what calls hold have their shape.
TypeOK ==
  /\ contracts \in Seq(Contract)
  /\ attachments \in Seq(Attachment)
  /\ data \subseteq DOMAIN attachments
  /\ pc \in [Calls -> Labels]
  /\ held \in [Calls -> Held]
  /\ acceptances \in Seq(Nat) /\ Len(acceptances) = Len(attachments)
  /\ proposedTo \in Seq(Nat) /\ Len(proposedTo) = Len(attachments)
  /\ removed \subseteq DOMAIN attachments
  /\ orderly \in BOOLEAN

\* An attachment is accepted by both sides only after two acceptances of it
\* were saved, whatever stale lists are written back (acceptAttachment).
NoOneSidedAgreement ==
  \A a \in DOMAIN attachments :
    attachments[a].status = "accepted_by_both_side" => acceptances[a] >= 2

\* "Second contract for the same partner has correct number", while calls come
\* one by one (createContract).
ContractNumbersIdentify ==
  orderly => \A c \in DOMAIN contracts : contracts[c].no = c

\* While calls come one by one, the attachments of a contract have their data,
\* so that they are listed with it, and a removed one has left both tables.
AttachmentsAreListed ==
  orderly /\ Quiet =>
    /\ \A a \in DOMAIN attachments : attachments[a].contract # 0 => a \in data
    /\ \A a \in removed : attachments[a].contract = 0 /\ a \notin data

Accepted(c) ==
  /\ contracts[c].status # "accepted"
  /\ contracts'[c].status = "accepted"

\* "Not all attachments accepted by both sides": while calls come one by one,
\* none that is in the contract stands open when it is accepted (accept).
AcceptanceNeedsItsAttachments ==
  [][ orderly => \A c \in DOMAIN contracts : Accepted(c) =>
        \A a \in DOMAIN attachments : attachments[a].contract = c =>
          attachments[a].status = "accepted_by_both_side" ]_vars

\* Contradicted by the code: "Can not accept contract when not all attachments
\* are accepted" (test/integration/contracts-lifecycle.integration.test.ts).
AcceptanceNeedsAllProposed ==
  [][ orderly => \A c \in DOMAIN contracts : Accepted(c) =>
        \A a \in DOMAIN attachments \ removed :
          proposedTo[a] = c => attachments[a].status = "accepted_by_both_side" ]_vars
=============================================================================
