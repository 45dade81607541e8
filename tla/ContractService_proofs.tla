----------------------- MODULE ContractService_proofs -----------------------
(***************************************************************************)
(* Safety of ContractService for any number of calls and contracts.        *)
(*                                                                         *)
(* In every interleaving, what a call is about to write into the status of *)
(* an attachment is backed by acceptances that were saved, its own         *)
(* included (CallOK).  While calls come one by one, the list a call holds  *)
(* is what the tables say (ListOK), and an attachment without data is the  *)
(* one the call in progress works on (Listed).                             *)
(***************************************************************************)
EXTENDS ContractService, SequenceTheorems, TLAPS

-----------------------------------------------------------------------------
(* The inductive invariant                                                  *)

\* n acceptances allow an attachment to have this status.
Backed(status, n) ==
  /\ status = "accepted_by_one_side" => n >= 1
  /\ status = "accepted_by_both_side" => n >= 2

\* The acceptance a call has not saved yet.
Credit(x) == IF x.op = "acceptAttachment" THEN 1 ELSE 0

SaveLabels == {"deleteData", "compare", "update"}

RowsInv ==
  \A a \in DOMAIN attachments :
    /\ attachments[a].contract \in DOMAIN contracts \union {0}
    /\ Backed(attachments[a].status, acceptances[a])

\* What a call at this label may hold.
CallOK(label, x) ==
  /\ label = "find" /\ x.op \in OfContract \union {"removeAttachment"} =>
       x.contract \in DOMAIN contracts
  /\ label \in SaveLabels => x.contract \in DOMAIN contracts
  /\ /\ label \in SaveLabels \union {"find"}
     /\ x.op \in OfAttachment \union {"removeAttachment"}
     => x.attachment \in DOMAIN attachments
  /\ label = "insertData" => x.attachment \in DOMAIN attachments
  /\ label = "deleteData" => x.op = "removeAttachment"
  /\ label \in SaveLabels =>
       /\ \A b \in DOMAIN x.list :
            Backed(x.list[b], acceptances[b] + Credit(x))
       /\ x.op = "acceptAttachment" => DOMAIN x.list = {x.attachment}

OneAtATime ==
  \A r, q \in Calls : InProgress(r) /\ InProgress(q) => r = q

Numbered == \A c \in DOMAIN contracts : contracts[c].no = c

\* A call that removes has deleted the data, one that proposes has yet to
\* insert it.
Pending(label, x) ==
  \/ label = "insertData"
  \/ label \in {"compare", "update"} /\ x.op = "removeAttachment"

Listed ==
  \A a \in DOMAIN attachments : attachments[a].contract # 0 =>
    \/ a \in data
    \/ \E r \in Calls : Pending(pc[r], held[r]) /\ held[r].attachment = a

Gone == \A a \in removed : attachments[a].contract = 0 /\ a \notin data

\* What a call holds is what the tables say.
ListOK(label, x) ==
  /\ label = "insert" => x.no = Len(contracts) + 1
  /\ label \in SaveLabels \union {"find"} /\ x.op = "removeAttachment" =>
       attachments[x.attachment].contract \in {0, x.contract}
  /\ label \in SaveLabels =>
       /\ DOMAIN x.list \subseteq Attached(x.contract)
       /\ x.op = "removeAttachment" => x.attachment \notin DOMAIN x.list
       /\ x.op = "acceptContract" => AllAccepted(x.contract)
       /\ x.op # "acceptContract" =>
            x.status \in {"rejected", contracts[x.contract].status}
  /\ Pending(label, x) /\ label # "insertData" => x.attachment \notin data
  /\ label = "update" =>
       /\ x.seenStatus = contracts[x.contract].status
       /\ x.seenAttached = Attached(x.contract)
  /\ label = "insertData" => x.attachment \notin removed

OrderlyInv ==
  /\ OneAtATime
  /\ Numbered /\ Listed /\ Gone
  /\ \A r \in Calls : ListOK(pc[r], held[r])

IInv ==
  /\ TypeOK
  /\ RowsInv
  /\ \A r \in Calls : CallOK(pc[r], held[r])
  /\ orderly => OrderlyInv

-----------------------------------------------------------------------------
(* Sequences, lists and records                                             *)

\* A row more.
LEMMA Appended ==
  ASSUME NEW S, NEW s \in Seq(S), NEW e \in S
  PROVE  /\ Append(s, e) \in Seq(S)
         /\ Len(Append(s, e)) = Len(s) + 1 /\ Len(s) \in Nat
         /\ DOMAIN s = 1 .. Len(s)
         /\ DOMAIN Append(s, e) = 1 .. Len(s) + 1
         /\ \A i \in DOMAIN s : Append(s, e)[i] = s[i]
         /\ Append(s, e)[Len(s) + 1] = e
BY AppendProperties, LenProperties

\* A row changed.
LEMMA Replaced ==
  ASSUME NEW S, NEW s \in Seq(S), NEW k \in DOMAIN s, NEW e \in S
  PROVE  /\ [s EXCEPT ![k] = e] \in Seq(S)
         /\ DOMAIN [s EXCEPT ![k] = e] = DOMAIN s
         /\ Len([s EXCEPT ![k] = e]) = Len(s)
         /\ \A i \in DOMAIN s :
              [s EXCEPT ![k] = e][i] = IF i = k THEN e ELSE s[i]
BY ExceptSeq, LenProperties

\* All rows changed at once.
LEMMA Rewritten ==
  ASSUME NEW S, NEW s \in Seq(S), NEW t \in [DOMAIN s -> S]
  PROVE  t \in Seq(S) /\ Len(t) = Len(s) /\ DOMAIN t = DOMAIN s
<1>1. Len(s) \in Nat /\ DOMAIN s = 1 .. Len(s)
  BY LenProperties
<1>2. t \in [1 .. Len(s) -> S]
  BY <1>1
<1>3. t \in Seq(S)
  BY <1>1, <1>2, SeqDef
<1>4. Len(t) \in Nat /\ DOMAIN t = 1 .. Len(t)
  BY <1>3, LenProperties
<1>5. 1 .. Len(t) = 1 .. Len(s)
  BY <1>2, <1>4
<1>. QED
  BY <1>1, <1>3, <1>4, <1>5

\* The statuses of some attachments are a list.
LEMMA StatusesAreAList ==
  ASSUME TypeOK, NEW S \in SUBSET DOMAIN attachments
  PROVE  /\ Statuses(S) \in Lists
         /\ DOMAIN Statuses(S) = S
         /\ \A a \in S : Statuses(S)[a] = attachments[a].status
<1>1. \A a \in S : attachments[a].status \in AttachmentStatus
  <2>1. attachments \in [DOMAIN attachments -> Attachment]
    BY LenProperties DEF TypeOK
  <2>. QED
    BY <2>1 DEF Attachment
<1>2. Statuses(S) \in [S -> AttachmentStatus]
  BY <1>1 DEF Statuses
<1>. QED
  BY <1>2 DEF Lists, Statuses

\* A list is of attachments.
LEMMA ListFacts ==
  ASSUME NEW f \in Lists
  PROVE  /\ DOMAIN f \subseteq DOMAIN attachments
         /\ \A b \in DOMAIN f : f[b] \in AttachmentStatus
BY DEF Lists

LEMMA BlankIsHeld == Blank \in Held
<1>1. <<>> \in [{} -> AttachmentStatus]
  OBVIOUS
<1>2. <<>> \in Lists
  BY <1>1 DEF Lists
<1>. QED
  BY <1>2 DEF Blank, Held, ContractStatus

-----------------------------------------------------------------------------
(* One call steps, the others wait                                          *)

\* Rows stay, and so do acceptances.
Kept ==
  /\ DOMAIN contracts \subseteq DOMAIN contracts'
  /\ DOMAIN attachments \subseteq DOMAIN attachments'
  /\ \A a \in DOMAIN attachments :
       acceptances[a] \in Nat /\ acceptances'[a] \in Nat
         /\ acceptances[a] <= acceptances'[a]

Waits(q) == pc'[q] = pc[q] /\ held'[q] = held[q]

LEMMA HeldGrows ==
  ASSUME Kept, NEW x \in Held
  PROVE  x \in Held'
<1>1. \A f \in Lists : f \in Lists'
  BY DEF Lists, Kept
<1>. QED
  BY <1>1 DEF Held, Kept

LEMMA OtherCall ==
  ASSUME NEW label, NEW x \in Held, Kept, CallOK(label, x)
  PROVE  CallOK(label, x)'
<1>1. DOMAIN x.list \subseteq DOMAIN attachments /\ Credit(x) \in Nat
  BY ListFacts DEF Held, Credit
<1>2. \A b \in DOMAIN x.list :
        Backed(x.list[b], acceptances[b] + Credit(x)) =>
          Backed(x.list[b], acceptances'[b] + Credit(x))
  BY <1>1 DEF Kept, Backed
<1>. QED
  BY <1>2 DEF CallOK, Kept

\* What a step of call r has to show; the rest follows for every other call.
LEMMA StepOf ==
  ASSUME IInv, NEW r \in Calls,
         \A q \in Calls \ {r} : Waits(q),
         Kept, TypeOK', RowsInv', CallOK(pc[r], held[r])',
         orderly' => /\ orderly /\ (InProgress(r) \/ Quiet)
                     /\ Numbered' /\ Listed' /\ Gone'
                     /\ ListOK(pc[r], held[r])'
  PROVE  IInv'
<1>1. ASSUME NEW q \in Calls PROVE CallOK(pc[q], held[q])'
  <2>1. CASE q # r
    <3>1. pc'[q] = pc[q] /\ held'[q] = held[q]
      BY <2>1 DEF Waits
    <3>2. held[q] \in Held /\ CallOK(pc[q], held[q])
      BY DEF IInv, TypeOK
    <3>. QED
      BY <3>1, <3>2, OtherCall DEF CallOK
  <2>. QED
    BY <2>1
<1>2. ASSUME orderly' PROVE OrderlyInv'
  <2>1. \A q \in Calls \ {r} : ~InProgress(q)
    BY <1>2 DEF IInv, OrderlyInv, OneAtATime, Quiet
  <2>2. \A q \in Calls \ {r} : ~InProgress(q)'
    BY <2>1 DEF InProgress, Waits
  <2>3. OneAtATime'
    BY <2>2 DEF OneAtATime
  <2>4. \A q \in Calls \ {r} : ListOK(pc[q], held[q])'
    BY <2>2 DEF InProgress, ListOK, SaveLabels, Pending
  <2>. QED
    BY <1>2, <2>3, <2>4 DEF OrderlyInv
<1>. QED
  BY <1>1, <1>2 DEF IInv

\* Only pc and held change, of call r.
LEMMA LocalStep ==
  ASSUME IInv, NEW r \in Calls, NEW label \in Labels, NEW x \in Held,
         pc' = [pc EXCEPT ![r] = label], held' = [held EXCEPT ![r] = x],
         UNCHANGED <<tables, acceptances, proposedTo, removed>>,
         orderly' \in BOOLEAN,
         CallOK(label, x),
         orderly' => /\ orderly /\ (InProgress(r) \/ Quiet)
                     /\ ListOK(label, x)
                     /\ Pending(pc[r], held[r]) =>
                          Pending(label, x) /\ x.attachment = held[r].attachment
  PROVE  IInv'
<1>1. /\ pc'[r] = label /\ held'[r] = x
      /\ \A q \in Calls \ {r} : Waits(q)
      /\ pc' \in [Calls -> Labels] /\ held' \in [Calls -> Held]
  BY DEF IInv, TypeOK, Waits
<1>2. UNCHANGED <<contracts, attachments, data, acceptances, proposedTo, removed>>
  BY DEF tables
<1>3. Held' = Held
  BY <1>2 DEF Held, Lists
<1>4. TypeOK' /\ RowsInv'
  BY <1>1, <1>2, <1>3 DEF IInv, TypeOK, RowsInv
<1>5. Kept
  <2>1. acceptances \in [DOMAIN attachments -> Nat]
    BY LenProperties DEF IInv, TypeOK
  <2>. QED
    BY <1>2, <2>1 DEF Kept
<1>6. CallOK(pc[r], held[r])'
  BY <1>1, <1>2 DEF CallOK
<1>7. ASSUME orderly'
      PROVE  Numbered' /\ Listed' /\ Gone' /\ ListOK(pc[r], held[r])'
  <2>1. Numbered' /\ Gone'
    BY <1>2, <1>7 DEF IInv, OrderlyInv, Numbered, Gone
  <2>2. ListOK(pc[r], held[r])'
    BY <1>1, <1>2, <1>7 DEF ListOK, Attached, AllAccepted, Pending
  <2>3. ASSUME NEW a \in DOMAIN attachments, attachments[a].contract # 0, a \notin data
        PROVE  \E q \in Calls : Pending(pc[q], held[q])' /\ held'[q].attachment = a
    <3>1. PICK q \in Calls : Pending(pc[q], held[q]) /\ held[q].attachment = a
      BY <1>7, <2>3 DEF IInv, OrderlyInv, Listed
    <3>2. Pending(pc[q], held[q])' /\ held'[q].attachment = a
      BY <1>1, <1>7, <3>1 DEF Waits, Pending
    <3>. QED
      BY <3>2
  <2>4. Listed'
    BY <1>2, <2>3 DEF Listed
  <2>. QED
    BY <2>1, <2>2, <2>4
<1>. QED
  BY <1>1, <1>4, <1>5, <1>6, <1>7, StepOf

LEMMA CallFacts ==
  ASSUME IInv, NEW r \in Calls
  PROVE  /\ pc[r] \in Labels /\ held[r] \in Held
         /\ CallOK(pc[r], held[r])
         /\ orderly => ListOK(pc[r], held[r])
         /\ orderly \in BOOLEAN
         /\ contracts \in [DOMAIN contracts -> Contract]
         /\ attachments \in [DOMAIN attachments -> Attachment]
         /\ acceptances \in [DOMAIN attachments -> Nat]
BY LenProperties DEF IInv, TypeOK, OrderlyInv

\* A call that ends without having changed a row.
LEMMA FinishStep ==
  ASSUME IInv, NEW r \in Calls, InProgress(r), Finish(r),
         ~Pending(pc[r], held[r]),
         UNCHANGED <<tables, history>>
  PROVE  IInv'
<1>1. /\ pc' = [pc EXCEPT ![r] = "answered"] /\ held' = [held EXCEPT ![r] = Blank]
      /\ UNCHANGED <<tables, acceptances, proposedTo, removed, orderly>>
  BY DEF Finish, Goto, Hold, history
<1>2. CallOK("answered", Blank) /\ ListOK("answered", Blank)
  BY DEF CallOK, ListOK, SaveLabels, Pending
<1>3. "answered" \in Labels /\ Blank \in Held
  BY BlankIsHeld DEF Labels
<1>. QED
  BY <1>1, <1>2, <1>3, CallFacts, LocalStep

-----------------------------------------------------------------------------
(* The steps                                                                *)

LEMMA CountContractsStep ==
  ASSUME IInv, NEW r \in Calls, CountContracts(r)
  PROVE  IInv'
<1>. DEFINE x == [held[r] EXCEPT !.no = ContractNumber]
<1>1. x \in Held /\ x.no = Len(contracts) + 1
  <2>1. ContractNumber \in Nat
    BY LenProperties DEF ContractNumber, IInv, TypeOK
  <2>2. held[r] \in Held
    BY CallFacts
  <2>3. x \in Held /\ x.no = ContractNumber
    BY <2>1, <2>2 DEF Held
  <2>. QED
    BY <2>3 DEF ContractNumber
<1>2. /\ pc' = [pc EXCEPT ![r] = "insert"] /\ held' = [held EXCEPT ![r] = x]
      /\ UNCHANGED <<tables, acceptances, proposedTo, removed, orderly>>
      /\ InProgress(r) /\ pc[r] = "count"
  BY DEF CountContracts, Start, Goto, Hold, history, InProgress
<1>. HIDE DEF x
<1>3. CallOK("insert", x) /\ ListOK("insert", x) /\ ~Pending(pc[r], held[r])
  BY <1>1, <1>2 DEF CallOK, ListOK, SaveLabels, Pending
<1>4. "insert" \in Labels
  BY DEF Labels
<1>. QED
  BY <1>1, <1>2, <1>3, <1>4, CallFacts, LocalStep

LEMMA InsertContractStep ==
  ASSUME IInv, NEW r \in Calls, InsertContract(r)
  PROVE  IInv'
<1>. DEFINE e == NewContract(held[r].no)
<1>1. e \in Contract /\ e.no = held[r].no
  BY CallFacts DEF NewContract, Contract, ContractStatus, Held
<1>2. /\ contracts' = Append(contracts, e)
      /\ pc' = [pc EXCEPT ![r] = "answered"] /\ held' = [held EXCEPT ![r] = Blank]
      /\ UNCHANGED <<attachments, data, acceptances, proposedTo, removed, orderly>>
      /\ pc[r] = "insert" /\ InProgress(r)
  BY DEF InsertContract, Finish, Goto, Hold, history, InProgress
<1>. HIDE DEF e
<1>3. /\ contracts' \in Seq(Contract) /\ Len(contracts) \in Nat
      /\ DOMAIN contracts = 1 .. Len(contracts)
      /\ DOMAIN contracts' = 1 .. Len(contracts) + 1
      /\ \A c \in DOMAIN contracts : contracts'[c] = contracts[c]
      /\ contracts'[Len(contracts) + 1] = e
  BY <1>1, <1>2, Appended DEF IInv, TypeOK
<1>4. Kept
  BY <1>2, <1>3, CallFacts DEF Kept
<1>5. /\ \A q \in Calls \ {r} : Waits(q)
      /\ pc'[r] = "answered" /\ held'[r] = Blank
  BY <1>2 DEF IInv, TypeOK, Waits
<1>6. TypeOK'
  <2>1. pc' \in [Calls -> Labels] /\ held' \in [Calls -> Held']
    BY <1>2, <1>4, BlankIsHeld, HeldGrows DEF IInv, TypeOK, Labels
  <2>. QED
    BY <1>2, <1>3, <2>1 DEF IInv, TypeOK
<1>7. RowsInv'
  BY <1>2, <1>3 DEF IInv, RowsInv
<1>8. CallOK(pc[r], held[r])' /\ ListOK(pc[r], held[r])'
  BY <1>5 DEF CallOK, ListOK, SaveLabels, Pending
<1>9. ASSUME orderly PROVE Numbered' /\ Listed' /\ Gone'
  <2>1. held[r].no = Len(contracts) + 1
    BY <1>2, <1>9, CallFacts DEF ListOK
  <2>2. Numbered'
    BY <1>1, <1>3, <1>9, <2>1 DEF IInv, OrderlyInv, Numbered
  <2>3. ~Pending(pc[r], held[r])
    BY <1>2 DEF Pending
  <2>4. Listed'
    <3>1. ASSUME NEW a \in DOMAIN attachments, attachments[a].contract # 0, a \notin data
          PROVE  \E q \in Calls : Pending(pc[q], held[q])' /\ held'[q].attachment = a
      <4>1. PICK q \in Calls : Pending(pc[q], held[q]) /\ held[q].attachment = a
        BY <1>9, <3>1 DEF IInv, OrderlyInv, Listed
      <4>2. Pending(pc[q], held[q])' /\ held'[q].attachment = a
        BY <1>5, <2>3, <4>1 DEF Waits, Pending
      <4>. QED
        BY <4>2
    <3>. QED
      BY <1>2, <3>1 DEF Listed
  <2>5. Gone'
    BY <1>2, <1>9 DEF IInv, OrderlyInv, Gone
  <2>. QED
    BY <2>2, <2>4, <2>5
<1>. QED
  BY <1>2, <1>4, <1>5, <1>6, <1>7, <1>8, <1>9, StepOf

LEMMA TableFacts ==
  ASSUME IInv
  PROVE  /\ contracts \in [DOMAIN contracts -> Contract]
         /\ attachments \in [DOMAIN attachments -> Attachment]
         /\ acceptances \in [DOMAIN attachments -> Nat]
         /\ RowsInv
BY LenProperties DEF IInv, TypeOK

\* A list that is as the tables say is backed by their acceptances.
LEMMA LoadedIsBacked ==
  ASSUME IInv, NEW S \in SUBSET DOMAIN attachments, NEW k \in Nat
  PROVE  \A b \in S : Backed(Statuses(S)[b], acceptances[b] + k)
<1>1. \A b \in S : /\ Statuses(S)[b] = attachments[b].status
                   /\ acceptances[b] \in Nat
                   /\ Backed(attachments[b].status, acceptances[b])
  BY StatusesAreAList, TableFacts DEF IInv, RowsInv
<1>. QED
  BY <1>1 DEF Backed

\* Find of a call on a contract: c is loaded with the attachments in S.
LEMMA LoadStep ==
  ASSUME IInv, NEW r \in Calls, pc[r] = "find",
         UNCHANGED <<tables, history>>,
         NEW label \in {"compare", "deleteData"},
         NEW status \in ContractStatus,
         NEW S \in SUBSET Attached(held[r].contract),
         held[r].op \in OfContract \union {"removeAttachment"},
         label = "compare" <=> held[r].op # "removeAttachment",
         held[r].op = "removeAttachment" => held[r].attachment \notin S,
         held[r].op = "acceptContract" => AllAccepted(held[r].contract),
         held[r].op # "acceptContract" =>
           status \in {"rejected", contracts[held[r].contract].status},
         Start(r, label,
               [held[r] EXCEPT !.status = status, !.list = Statuses(S)])
  PROVE  IInv'
<1>. DEFINE x == [held[r] EXCEPT !.status = status, !.list = Statuses(S)]
<1>1. /\ S \in SUBSET DOMAIN attachments
      /\ held[r] \in Held /\ held[r].contract \in DOMAIN contracts
      /\ CallOK(pc[r], held[r])
      /\ orderly => ListOK(pc[r], held[r])
      /\ orderly \in BOOLEAN
  BY CallFacts DEF CallOK, Attached
<1>2. Statuses(S) \in Lists /\ DOMAIN Statuses(S) = S
  BY <1>1, StatusesAreAList DEF IInv
<1>3. /\ x \in Held /\ x.op = held[r].op /\ x.contract = held[r].contract
      /\ x.attachment = held[r].attachment
      /\ x.status = status /\ x.list = Statuses(S)
  BY <1>1, <1>2 DEF Held
<1>4. /\ pc' = [pc EXCEPT ![r] = label] /\ held' = [held EXCEPT ![r] = x]
      /\ UNCHANGED <<tables, acceptances, proposedTo, removed, orderly>>
      /\ InProgress(r) /\ ~Pending(pc[r], held[r]) /\ label \in Labels
  BY DEF Start, Goto, Hold, history, InProgress, Pending, Labels
<1>. HIDE DEF x
<1>5. CallOK(label, x)
  <2>1. Credit(x) = 0 /\ x.op # "acceptAttachment"
    BY <1>3 DEF Credit, OfContract
  <2>2. \A b \in DOMAIN x.list : Backed(x.list[b], acceptances[b] + Credit(x))
    <3>1. \A b \in S : Backed(Statuses(S)[b], acceptances[b] + 0)
      BY <1>1, LoadedIsBacked
    <3>. QED
      BY <1>2, <1>3, <2>1, <3>1
  <2>3. x.op \in OfAttachment \union {"removeAttachment"} =>
          x.attachment \in DOMAIN attachments
    <3>1. held[r].op \in OfAttachment \union {"removeAttachment"} =>
            held[r].attachment \in DOMAIN attachments
      BY <1>1 DEF CallOK
    <3>. QED
      BY <1>3, <3>1
  <2>. QED
    BY <1>1, <1>3, <2>1, <2>2, <2>3 DEF CallOK, SaveLabels
<1>6. orderly => ListOK(label, x)
  BY <1>1, <1>2, <1>3 DEF ListOK, SaveLabels, Pending
<1>. QED
  BY <1>1, <1>3, <1>4, <1>5, <1>6, LocalStep

\* Find of a call on an attachment: its contract is loaded with that one only.
LEMMA LoadOneStep ==
  ASSUME IInv, NEW r \in Calls, pc[r] = "find",
         UNCHANGED <<tables, history>>,
         held[r].op \in OfAttachment,
         attachments[held[r].attachment].contract # 0,
         Start(r, "compare", WithOne(r))
  PROVE  IInv'
<1>. DEFINE a == held[r].attachment
            c == attachments[a].contract
            status == AttachmentStatusAfter(held[r].op, attachments[a].status)
            list == [b \in {a} |-> status]
            x == [held[r] EXCEPT !.contract = c, !.status = contracts[c].status,
                                 !.list = list]
<1>1. /\ held[r] \in Held /\ a \in DOMAIN attachments /\ c \in DOMAIN contracts
      /\ orderly \in BOOLEAN
  BY CallFacts DEF CallOK, IInv, RowsInv
<1>2. /\ attachments[a] \in Attachment /\ contracts[c] \in Contract
      /\ acceptances[a] \in Nat
      /\ Backed(attachments[a].status, acceptances[a])
  BY <1>1, CallFacts DEF IInv, RowsInv
<1>3. /\ status \in AttachmentStatus
      /\ Backed(status, acceptances[a] + Credit(held[r]))
  BY <1>2 DEF AttachmentStatusAfter, AcceptedOnceMore, Backed, Credit,
              AttachmentStatus, OfAttachment, Attachment
<1>. HIDE DEF status
<1>4. list \in Lists /\ DOMAIN list = {a} /\ list[a] = status
  <2>1. list \in [{a} -> AttachmentStatus] /\ {a} \in SUBSET DOMAIN attachments
    BY <1>1, <1>3
  <2>. QED
    BY <2>1 DEF Lists
<1>. HIDE DEF list
<1>5. /\ x \in Held /\ x.op = held[r].op /\ x.contract = c /\ x.attachment = a
      /\ x.status = contracts[c].status /\ x.list = list
  BY <1>1, <1>2, <1>4 DEF Held, Contract
<1>6. /\ pc' = [pc EXCEPT ![r] = "compare"] /\ held' = [held EXCEPT ![r] = x]
      /\ UNCHANGED <<tables, acceptances, proposedTo, removed, orderly>>
      /\ InProgress(r) /\ ~Pending(pc[r], held[r]) /\ "compare" \in Labels
  BY DEF Start, Goto, Hold, history, InProgress, Pending, Labels, WithOne, list, status
<1>. HIDE DEF x
<1>7. CallOK("compare", x)
  <2>1. Credit(x) = Credit(held[r])
    BY <1>5 DEF Credit
  <2>2. \A b \in DOMAIN x.list : Backed(x.list[b], acceptances[b] + Credit(x))
    BY <1>3, <1>4, <1>5, <2>1
  <2>. QED
    BY <1>1, <1>4, <1>5, <2>2 DEF CallOK, SaveLabels
<1>8. ListOK("compare", x)
  <2>1. DOMAIN x.list \subseteq Attached(x.contract)
    BY <1>1, <1>4, <1>5 DEF Attached
  <2>2. x.op \notin {"removeAttachment", "acceptContract"}
    BY <1>5 DEF OfAttachment
  <2>. QED
    BY <1>5, <2>1, <2>2 DEF ListOK, SaveLabels, Pending
<1>. QED
  BY <1>1, <1>5, <1>6, <1>7, <1>8, LocalStep

LEMMA FindStep ==
  ASSUME IInv, NEW r \in Calls, Find(r)
  PROVE  IInv'
<1>. DEFINE c == held[r].contract
            all == Attached(c)
<1>1. /\ pc[r] = "find" /\ InProgress(r) /\ ~Pending(pc[r], held[r])
      /\ UNCHANGED <<tables, history>>
  BY DEF Find, InProgress, Pending
<1>2. /\ held[r] \in Held
      /\ held[r].op \in OfContract \union {"removeAttachment"} =>
           c \in DOMAIN contracts /\ contracts[c].status \in ContractStatus
  BY <1>1, CallFacts DEF CallOK, Contract
<1>3. CASE held[r].op = "acceptContract" /\ AllAccepted(c)
           /\ Start(r, "compare", [WithAll(r) EXCEPT !.status = "accepted"])
  <2>1. [WithAll(r) EXCEPT !.status = "accepted"]
          = [held[r] EXCEPT !.status = "accepted", !.list = Statuses(all)]
    BY <1>2 DEF WithAll, Held
  <2>2. /\ Start(r, "compare",
                 [held[r] EXCEPT !.status = "accepted", !.list = Statuses(all)])
        /\ "accepted" \in ContractStatus /\ all \in SUBSET all
        /\ held[r].op \in OfContract
    BY <1>3, <2>1 DEF ContractStatus, OfContract
  <2>. QED
    BY <1>1, <1>3, <2>2, LoadStep
<1>4. CASE held[r].op = "rejectContract"
           /\ Start(r, "compare", [WithAll(r) EXCEPT !.status = "rejected"])
  <2>1. [WithAll(r) EXCEPT !.status = "rejected"]
          = [held[r] EXCEPT !.status = "rejected", !.list = Statuses(all)]
    BY <1>2 DEF WithAll, Held
  <2>2. /\ Start(r, "compare",
                 [held[r] EXCEPT !.status = "rejected", !.list = Statuses(all)])
        /\ "rejected" \in ContractStatus /\ all \in SUBSET all
        /\ held[r].op \in OfContract
    BY <1>4, <2>1 DEF ContractStatus, OfContract
  <2>. QED
    BY <1>1, <1>4, <2>2, LoadStep
<1>5. CASE held[r].op = "proposeAttachment" /\ Start(r, "compare", WithAll(r))
  <2>1. /\ Start(r, "compare", [held[r] EXCEPT !.status = contracts[c].status,
                                               !.list = Statuses(all)])
        /\ all \in SUBSET all /\ held[r].op \in OfContract
    BY <1>5 DEF WithAll, OfContract
  <2>. QED
    BY <1>1, <1>2, <1>5, <2>1, LoadStep
<1>6. CASE held[r].op = "removeAttachment" /\ Start(r, "deleteData", WithoutRemoved(r))
  <2>. DEFINE rest == all \ {held[r].attachment}
  <2>1. WithoutRemoved(r) = [held[r] EXCEPT !.status = contracts[c].status,
                                            !.list = Statuses(rest)]
    BY <1>2 DEF WithAll, WithoutRemoved, Held
  <2>2. /\ Start(r, "deleteData", [held[r] EXCEPT !.status = contracts[c].status,
                                                  !.list = Statuses(rest)])
        /\ rest \in SUBSET all
    BY <1>6, <2>1
  <2>. QED
    BY <1>1, <1>2, <1>6, <2>2, LoadStep
<1>7. CASE held[r].op \in OfAttachment
           /\ attachments[held[r].attachment].contract # 0
           /\ Start(r, "compare", WithOne(r))
  BY <1>1, <1>7, LoadOneStep
<1>8. CASE Finish(r)
  BY <1>1, <1>8, FinishStep
<1>. QED
  BY <1>3, <1>4, <1>5, <1>6, <1>7, <1>8 DEF Find

LEMMA CompareStep ==
  ASSUME IInv, NEW r \in Calls, Compare(r)
  PROVE  IInv'
<1>. DEFINE c == held[r].contract
            seen == Statuses(DOMAIN held[r].list)
            x == [held[r] EXCEPT !.seenStatus = contracts[c].status,
                                 !.seenList = seen, !.seenAttached = Attached(c)]
<1>1. /\ held[r] \in Held /\ CallOK(pc[r], held[r])
      /\ orderly => ListOK(pc[r], held[r])
      /\ orderly \in BOOLEAN
      /\ pc[r] = "compare" /\ InProgress(r)
  BY CallFacts DEF Compare, InProgress
<1>2. /\ c \in DOMAIN contracts /\ contracts[c].status \in ContractStatus
      /\ Attached(c) \in SUBSET DOMAIN attachments
  BY <1>1, TableFacts DEF CallOK, SaveLabels, Contract, Attached
<1>3. seen \in Lists
  <2>1. DOMAIN held[r].list \in SUBSET DOMAIN attachments
    BY <1>1, ListFacts DEF Held
  <2>. QED
    BY <2>1, StatusesAreAList DEF IInv
<1>. HIDE DEF seen
<1>4. /\ x \in Held /\ x.op = held[r].op /\ x.contract = c
      /\ x.attachment = held[r].attachment /\ x.no = held[r].no
      /\ x.status = held[r].status /\ x.list = held[r].list
      /\ x.seenStatus = contracts[c].status /\ x.seenAttached = Attached(c)
  BY <1>1, <1>2, <1>3 DEF Held
<1>5. /\ pc' = [pc EXCEPT ![r] = "update"] /\ held' = [held EXCEPT ![r] = x]
      /\ UNCHANGED <<tables, acceptances, proposedTo, removed, orderly>>
      /\ "update" \in Labels
  BY DEF Compare, Start, Goto, Hold, history, Labels, seen
<1>. HIDE DEF x
<1>6. CallOK("update", x)
  BY <1>1, <1>4 DEF CallOK, SaveLabels, Credit
<1>7. orderly => ListOK("update", x)
  BY <1>1, <1>4 DEF ListOK, SaveLabels, Pending
<1>8. Pending(pc[r], held[r]) => Pending("update", x)
  BY <1>1, <1>4 DEF Pending
<1>. QED
  BY <1>1, <1>4, <1>5, <1>6, <1>7, <1>8, LocalStep

LEMMA DeleteDataStep ==
  ASSUME IInv, NEW r \in Calls, DeleteData(r)
  PROVE  IInv'
<1>. DEFINE a == held[r].attachment
<1>1. /\ held[r] \in Held /\ CallOK(pc[r], held[r])
      /\ orderly => ListOK(pc[r], held[r])
      /\ pc[r] = "deleteData" /\ InProgress(r)
  BY CallFacts DEF DeleteData, InProgress
<1>2. /\ data' = data \ {a} /\ pc' = [pc EXCEPT ![r] = "compare"]
      /\ UNCHANGED <<contracts, attachments, held, acceptances, proposedTo,
                     removed, orderly>>
  BY DEF DeleteData, Goto, history
<1>3. /\ \A q \in Calls \ {r} : Waits(q)
      /\ pc'[r] = "compare" /\ held'[r] = held[r]
  BY <1>2 DEF IInv, TypeOK, Waits
<1>4. Kept
  BY <1>2, TableFacts DEF Kept
<1>5. TypeOK'
  <2>1. Held' = Held
    BY <1>2 DEF Held, Lists
  <2>. QED
    BY <1>2, <2>1 DEF IInv, TypeOK, Labels
<1>6. RowsInv'
  BY <1>2 DEF IInv, RowsInv
<1>7. CallOK(pc[r], held[r])'
  BY <1>1, <1>2, <1>3 DEF CallOK, SaveLabels
<1>8. ASSUME orderly
      PROVE  Numbered' /\ Listed' /\ Gone' /\ ListOK(pc[r], held[r])'
  <2>1. Numbered' /\ Gone'
    BY <1>2, <1>8 DEF IInv, OrderlyInv, Numbered, Gone
  <2>2. ListOK(pc[r], held[r])'
    BY <1>1, <1>2, <1>3, <1>8 DEF ListOK, SaveLabels, Pending, Attached, AllAccepted
  <2>3. ASSUME NEW b \in DOMAIN attachments, attachments[b].contract # 0, b \notin data'
        PROVE  \E q \in Calls : Pending(pc[q], held[q])' /\ held'[q].attachment = b
    <3>1. Pending(pc[r], held[r])' /\ held'[r].attachment = a
      BY <1>1, <1>3 DEF CallOK, Pending
    <3>2. CASE b # a
      <4>1. PICK q \in Calls : Pending(pc[q], held[q]) /\ held[q].attachment = b
        BY <1>2, <1>8, <2>3, <3>2 DEF IInv, OrderlyInv, Listed
      <4>2. Pending(pc[q], held[q])' /\ held'[q].attachment = b
        BY <1>1, <1>3, <4>1 DEF Waits, Pending
      <4>. QED
        BY <4>2
    <3>. QED
      BY <3>1, <3>2
  <2>4. Listed'
    BY <1>2, <2>3 DEF Listed
  <2>. QED
    BY <2>1, <2>2, <2>4
<1>. QED
  BY <1>1, <1>2, <1>3, <1>4, <1>5, <1>6, <1>7, <1>8, StepOf

LEMMA InsertDataStep ==
  ASSUME IInv, NEW r \in Calls, InsertData(r)
  PROVE  IInv'
<1>. DEFINE a == held[r].attachment
<1>1. /\ CallOK(pc[r], held[r])
      /\ orderly => ListOK(pc[r], held[r])
      /\ pc[r] = "insertData" /\ InProgress(r)
  BY CallFacts DEF InsertData, InProgress
<1>2. /\ data' = data \union {a}
      /\ pc' = [pc EXCEPT ![r] = "answered"] /\ held' = [held EXCEPT ![r] = Blank]
      /\ UNCHANGED <<contracts, attachments, acceptances, proposedTo, removed, orderly>>
  BY DEF InsertData, Finish, Goto, Hold, history
<1>3. /\ \A q \in Calls \ {r} : Waits(q)
      /\ pc'[r] = "answered" /\ held'[r] = Blank
  BY <1>2 DEF IInv, TypeOK, Waits
<1>4. Kept
  BY <1>2, TableFacts DEF Kept
<1>5. TypeOK'
  <2>1. Held' = Held
    BY <1>2 DEF Held, Lists
  <2>2. a \in DOMAIN attachments
    BY <1>1 DEF CallOK
  <2>. QED
    BY <1>2, <2>1, <2>2, BlankIsHeld DEF IInv, TypeOK, Labels
<1>6. RowsInv'
  BY <1>2 DEF IInv, RowsInv
<1>7. CallOK(pc[r], held[r])' /\ ListOK(pc[r], held[r])'
  BY <1>3 DEF CallOK, ListOK, SaveLabels, Pending
<1>8. ASSUME orderly PROVE Numbered' /\ Listed' /\ Gone'
  <2>1. Numbered' /\ Gone'
    BY <1>1, <1>2, <1>8 DEF IInv, OrderlyInv, Numbered, Gone, ListOK
  <2>2. ASSUME NEW b \in DOMAIN attachments, attachments[b].contract # 0, b \notin data'
        PROVE  \E q \in Calls : Pending(pc[q], held[q])' /\ held'[q].attachment = b
    <3>1. PICK q \in Calls : Pending(pc[q], held[q]) /\ held[q].attachment = b
      BY <1>2, <1>8, <2>2 DEF IInv, OrderlyInv, Listed
    <3>2. q # r
      BY <1>2, <2>2, <3>1
    <3>3. Pending(pc[q], held[q])' /\ held'[q].attachment = b
      BY <1>3, <3>1, <3>2 DEF Waits, Pending
    <3>. QED
      BY <3>3
  <2>3. Listed'
    BY <1>2, <2>2 DEF Listed
  <2>. QED
    BY <2>1, <2>3
<1>. QED
  BY <1>1, <1>2, <1>3, <1>4, <1>5, <1>6, <1>7, <1>8, StepOf

\* An UPDATE of a contract's status leaves the other columns alone.
LEMMA ContractSaved ==
  ASSUME IInv, NEW r \in Calls, Update(r)
  PROVE  /\ contracts' \in Seq(Contract)
         /\ DOMAIN contracts' = DOMAIN contracts /\ Len(contracts') = Len(contracts)
         /\ \A c \in DOMAIN contracts :
              /\ contracts'[c].no = contracts[c].no
              /\ c # held[r].contract => contracts'[c] = contracts[c]
              /\ c = held[r].contract =>
                   contracts'[c].status
                     = Written(held[r].status, held[r].seenStatus, contracts[c].status)
<1>. DEFINE k == held[r].contract
            status == Written(held[r].status, held[r].seenStatus, contracts[k].status)
            e == [contracts[k] EXCEPT !.status = status]
<1>1. k \in DOMAIN contracts /\ contracts[k] \in Contract /\ held[r] \in Held
  BY CallFacts, TableFacts DEF Update, CallOK, SaveLabels
<1>2. status \in ContractStatus
  BY <1>1 DEF Written, Contract, Held
<1>. HIDE DEF status
<1>3. e \in Contract /\ e.no = contracts[k].no /\ e.status = status
  BY <1>1, <1>2 DEF Contract
<1>4. contracts' = [contracts EXCEPT ![k] = e]
  BY <1>1 DEF Update, status
<1>. HIDE DEF e
<1>5. /\ contracts' \in Seq(Contract)
      /\ DOMAIN contracts' = DOMAIN contracts /\ Len(contracts') = Len(contracts)
      /\ \A c \in DOMAIN contracts :
           contracts'[c] = IF c = k THEN e ELSE contracts[c]
  BY <1>1, <1>3, <1>4, Replaced DEF IInv, TypeOK
<1>. QED
  BY <1>3, <1>5 DEF status

\* What the save of a list makes of an attachment that exists.
LEMMA SavedFacts ==
  ASSUME IInv, NEW r \in Calls, pc[r] = "update", NEW b \in DOMAIN attachments
  PROVE  /\ Saved(r)[b] \in Attachment
         /\ Saved(r)[b].contract \in DOMAIN contracts \union {0}
         /\ \A n \in Nat :
              acceptances[b]
                + (IF b \in DOMAIN held[r].list THEN Credit(held[r]) ELSE 0) <= n
              => Backed(Saved(r)[b].status, n)
         /\ orderly =>
              /\ Saved(r)[b].contract \in {0, attachments[b].contract}
              /\ held[r].op = "removeAttachment" /\ b = held[r].attachment =>
                   Saved(r)[b].contract = 0
<1>. DEFINE list == held[r].list
            new == IF b \in DOMAIN list
                   THEN Written(list[b], held[r].seenList[b], attachments[b].status)
                   ELSE attachments[b].status
<1>1. /\ held[r] \in Held /\ CallOK(pc[r], held[r])
      /\ orderly => ListOK(pc[r], held[r])
      /\ attachments[b] \in Attachment /\ acceptances[b] \in Nat
      /\ attachments[b].contract \in DOMAIN contracts \union {0}
      /\ Backed(attachments[b].status, acceptances[b])
      /\ DOMAIN contracts \subseteq Nat
  <2>1. /\ held[r] \in Held /\ CallOK(pc[r], held[r])
        /\ orderly => ListOK(pc[r], held[r])
    BY CallFacts
  <2>2. attachments[b] \in Attachment /\ acceptances[b] \in Nat
    BY CallFacts
  <2>3. /\ attachments[b].contract \in DOMAIN contracts \union {0}
        /\ Backed(attachments[b].status, acceptances[b])
    BY DEF IInv, RowsInv
  <2>4. DOMAIN contracts \subseteq Nat
    BY LenProperties DEF IInv, TypeOK
  <2>. QED
    BY ONLY <2>1, <2>2, <2>3, <2>4
<1>2. Saved(r)[b] = [contract |-> AttachedTo(r, b), status |-> new]
  BY DEF Saved
<1>3. AttachedTo(r, b) \in DOMAIN contracts \union {0}
  BY <1>1 DEF AttachedTo, CallOK, SaveLabels
<1>4. /\ new \in AttachmentStatus
      /\ \/ new = attachments[b].status
         \/ b \in DOMAIN list /\ new = list[b]
  <2>1. list \in Lists
    BY <1>1 DEF Held
  <2>2. b \in DOMAIN list => list[b] \in AttachmentStatus
    BY <2>1, ListFacts
  <2>. QED
    BY <1>1, <2>2 DEF Written, Attachment
<1>5. ASSUME NEW n \in Nat,
             acceptances[b] + (IF b \in DOMAIN list THEN Credit(held[r]) ELSE 0) <= n
      PROVE  Backed(new, n)
  <2>1. Credit(held[r]) \in Nat
    BY DEF Credit
  <2>2. CASE new = attachments[b].status
    BY <1>1, <1>5, <2>1, <2>2 DEF Backed
  <2>3. CASE b \in DOMAIN list /\ new = list[b]
    <3>1. Backed(list[b], acceptances[b] + Credit(held[r]))
      BY <1>1, <2>3 DEF CallOK, SaveLabels
    <3>. QED
      BY <1>1, <1>5, <2>1, <2>3, <3>1 DEF Backed
  <2>. QED
    BY <1>4, <2>2, <2>3
<1>6. ASSUME orderly
      PROVE  /\ AttachedTo(r, b) \in {0, attachments[b].contract}
             /\ held[r].op = "removeAttachment" /\ b = held[r].attachment =>
                  AttachedTo(r, b) = 0
  <2>1. /\ DOMAIN list \subseteq Attached(held[r].contract)
        /\ held[r].seenAttached = Attached(held[r].contract)
        /\ held[r].op = "removeAttachment" =>
             /\ held[r].attachment \notin DOMAIN list
             /\ attachments[held[r].attachment].contract \in {0, held[r].contract}
    BY <1>1, <1>6 DEF ListOK, SaveLabels
  <2>. QED
    BY <2>1 DEF AttachedTo, Attached
<1>. HIDE DEF new
<1>. QED
  BY <1>1, <1>2, <1>3, <1>4, <1>5, <1>6 DEF Attachment

\* The attachments and the acceptances that were there, after an Update.
LEMMA UpdatedFacts ==
  ASSUME IInv, NEW r \in Calls, Update(r)
  PROVE  /\ attachments' \in Seq(Attachment)
         /\ acceptances' \in Seq(Nat) /\ Len(acceptances') = Len(attachments')
         /\ proposedTo' \in Seq(Nat) /\ Len(proposedTo') = Len(attachments')
         /\ DOMAIN attachments' =
              IF held[r].op = "proposeAttachment"
              THEN DOMAIN attachments \union {Len(attachments) + 1}
              ELSE DOMAIN attachments
         /\ Len(attachments) \in Nat /\ DOMAIN attachments = 1 .. Len(attachments)
         /\ \A b \in DOMAIN attachments :
              /\ attachments'[b] = Saved(r)[b]
              /\ acceptances'[b] \in Nat
              /\ acceptances[b] <= acceptances'[b]
              /\ acceptances[b]
                  + (IF b \in DOMAIN held[r].list THEN Credit(held[r]) ELSE 0)
                  <= acceptances'[b]
         /\ held[r].op = "proposeAttachment" =>
              /\ attachments'[Len(attachments) + 1] = NewAttachment(held[r].contract)
              /\ acceptances'[Len(attachments) + 1] = 0
<1>. DEFINE a == held[r].attachment
            c == held[r].contract
            n == Len(attachments)
<1>1. /\ pc[r] = "update" /\ CallOK(pc[r], held[r]) /\ c \in DOMAIN contracts
      /\ DOMAIN contracts \subseteq Nat
      /\ n \in Nat /\ DOMAIN attachments = 1 .. n
      /\ acceptances \in Seq(Nat) /\ Len(acceptances) = n
      /\ DOMAIN acceptances = DOMAIN attachments
      /\ proposedTo \in Seq(Nat) /\ Len(proposedTo) = n
      /\ \A b \in DOMAIN attachments : acceptances[b] \in Nat
  BY CallFacts, LenProperties DEF Update, CallOK, SaveLabels, IInv, TypeOK
<1>2. /\ Saved(r) \in Seq(Attachment) /\ Len(Saved(r)) = n
      /\ DOMAIN Saved(r) = DOMAIN attachments
  <2>1. Saved(r) \in [DOMAIN attachments -> Attachment]
    <3>1. \A b \in DOMAIN attachments : Saved(r)[b] \in Attachment
      BY <1>1, SavedFacts
    <3>. QED
      BY <3>1 DEF Saved
  <2>. QED
    BY <2>1, Rewritten DEF IInv, TypeOK
<1>3. CASE held[r].op = "proposeAttachment"
  <2>1. /\ attachments' = Append(Saved(r), NewAttachment(c))
        /\ acceptances' = Append(acceptances, 0)
        /\ proposedTo' = Append(proposedTo, c)
        /\ Credit(held[r]) = 0
    BY <1>3 DEF Update, Credit
  <2>2. NewAttachment(c) \in Attachment /\ c \in Nat
    BY <1>1 DEF NewAttachment, Attachment, AttachmentStatus
  <2>3. /\ attachments' \in Seq(Attachment) /\ Len(attachments') = n + 1
        /\ DOMAIN attachments' = 1 .. n + 1
        /\ \A b \in DOMAIN attachments : attachments'[b] = Saved(r)[b]
        /\ attachments'[n + 1] = NewAttachment(c)
    BY <1>2, <2>1, <2>2, Appended
  <2>4. /\ acceptances' \in Seq(Nat) /\ Len(acceptances') = n + 1
        /\ \A b \in DOMAIN attachments : acceptances'[b] = acceptances[b]
        /\ acceptances'[n + 1] = 0
    BY <1>1, <2>1, Appended
  <2>5. proposedTo' \in Seq(Nat) /\ Len(proposedTo') = n + 1
    BY <1>1, <2>1, <2>2, Appended
  <2>. QED
    BY <1>1, <1>3, <2>1, <2>3, <2>4, <2>5
<1>4. CASE held[r].op = "acceptAttachment"
  <2>1. /\ attachments' = Saved(r) /\ proposedTo' = proposedTo
        /\ acceptances' = [acceptances EXCEPT ![a] = @ + 1]
        /\ Credit(held[r]) = 1
        /\ a \in DOMAIN attachments /\ DOMAIN held[r].list = {a}
    BY <1>1, <1>4 DEF Update, Credit, CallOK, SaveLabels, OfAttachment
  <2>2. /\ acceptances' \in Seq(Nat) /\ Len(acceptances') = n
        /\ \A b \in DOMAIN attachments :
             acceptances'[b] = IF b = a THEN acceptances[a] + 1 ELSE acceptances[b]
    <3>1. acceptances[a] + 1 \in Nat /\ a \in DOMAIN acceptances
      BY <1>1, <2>1
    <3>. QED
      BY <1>1, <2>1, <3>1, Replaced
  <2>. QED
    BY <1>1, <1>2, <1>4, <2>1, <2>2
<1>5. CASE held[r].op \notin {"proposeAttachment", "acceptAttachment"}
  <2>1. /\ attachments' = Saved(r) /\ proposedTo' = proposedTo
        /\ acceptances' = acceptances /\ Credit(held[r]) = 0
    BY <1>5 DEF Update, Credit
  <2>. QED
    BY <1>1, <1>2, <1>5, <2>1
<1>. QED
  BY <1>3, <1>4, <1>5

LEMMA UpdateStep ==
  ASSUME IInv, NEW r \in Calls, Update(r)
  PROVE  IInv'
<1>. DEFINE a == held[r].attachment
            c == held[r].contract
            n == Len(attachments)
            proposes == held[r].op = "proposeAttachment"
            y == [Blank EXCEPT !.op = "proposeAttachment", !.attachment = n + 1]
<1>1. /\ pc[r] = "update" /\ InProgress(r) /\ held[r] \in Held
      /\ CallOK(pc[r], held[r])
      /\ orderly => ListOK(pc[r], held[r])
      /\ c \in DOMAIN contracts
      /\ data' = data /\ orderly' = orderly
  BY CallFacts DEF Update, InProgress, CallOK, SaveLabels
<1>2. /\ n \in Nat /\ DOMAIN attachments = 1 .. n
      /\ DOMAIN attachments' = IF proposes THEN DOMAIN attachments \union {n + 1}
                               ELSE DOMAIN attachments
      /\ DOMAIN contracts' = DOMAIN contracts
  BY UpdatedFacts, ContractSaved
<1>3. Kept
  BY <1>2, UpdatedFacts, TableFacts DEF Kept
<1>4. /\ proposes => /\ pc' = [pc EXCEPT ![r] = "insertData"]
                     /\ held' = [held EXCEPT ![r] = y]
      /\ ~proposes => /\ pc' = [pc EXCEPT ![r] = "answered"]
                      /\ held' = [held EXCEPT ![r] = Blank]
  BY DEF Update, Start, Finish, Goto, Hold
<1>5. /\ Blank \in Held'
      /\ proposes => y \in Held'
  <2>1. Blank \in Held'
    BY <1>3, BlankIsHeld, HeldGrows
  <2>2. ASSUME proposes PROVE y \in Held'
    BY <1>2, <2>1, <2>2 DEF Held, OfContract
  <2>. QED
    BY <2>1, <2>2
<1>6. y.attachment = n + 1
  BY DEF Blank
<1>. HIDE DEF y
<1>7. /\ \A q \in Calls \ {r} : Waits(q)
      /\ proposes => pc'[r] = "insertData" /\ held'[r] = y
      /\ ~proposes => pc'[r] = "answered" /\ held'[r] = Blank
  BY <1>4 DEF IInv, TypeOK, Waits
<1>8. TypeOK'
  <2>1. pc' \in [Calls -> Labels]
    BY <1>4 DEF IInv, TypeOK, Labels
  <2>2. held' \in [Calls -> Held']
    <3>1. held \in [Calls -> Held']
      BY <1>3, HeldGrows DEF IInv, TypeOK
    <3>. QED
      BY <1>4, <1>5, <3>1
  <2>3. removed' \subseteq DOMAIN attachments'
    <3>1. \/ removed' = removed
          \/ held[r].op = "removeAttachment" /\ removed' = removed \union {a}
      BY DEF Update
    <3>2. held[r].op = "removeAttachment" => a \in DOMAIN attachments
      BY <1>1 DEF CallOK, SaveLabels
    <3>. QED
      BY <1>2, <3>1, <3>2 DEF IInv, TypeOK
  <2>. QED
    BY <1>1, <1>2, <2>1, <2>2, <2>3, UpdatedFacts, ContractSaved DEF IInv, TypeOK
<1>9. RowsInv'
  <2>1. ASSUME NEW b \in DOMAIN attachments
        PROVE  /\ attachments'[b].contract \in DOMAIN contracts' \union {0}
               /\ Backed(attachments'[b].status, acceptances'[b])
    <3>1. attachments'[b] = Saved(r)[b]
      BY <2>1, UpdatedFacts
    <3>2. /\ acceptances'[b] \in Nat
          /\ acceptances[b]
              + (IF b \in DOMAIN held[r].list THEN Credit(held[r]) ELSE 0)
              <= acceptances'[b]
      BY <2>1, UpdatedFacts
    <3>3. /\ Saved(r)[b].contract \in DOMAIN contracts \union {0}
          /\ Backed(Saved(r)[b].status, acceptances'[b])
      BY <1>1, <2>1, <3>2, SavedFacts
    <3>. QED
      BY <1>2, <3>1, <3>3
  <2>2. proposes => /\ attachments'[n + 1].contract \in DOMAIN contracts'
                    /\ Backed(attachments'[n + 1].status, acceptances'[n + 1])
    <3>1. proposes => attachments'[n + 1] = NewAttachment(c)
      BY UpdatedFacts
    <3>. QED
      BY <1>1, <1>2, <3>1 DEF NewAttachment, Backed
  <2>. QED
    BY <1>2, <2>1, <2>2 DEF RowsInv, Backed
<1>10. CallOK(pc[r], held[r])'
  BY <1>2, <1>6, <1>7 DEF CallOK, SaveLabels
<1>11. ASSUME orderly
       PROVE  Numbered' /\ Listed' /\ Gone' /\ ListOK(pc[r], held[r])'
  <2>1. \A b \in DOMAIN attachments :
          /\ attachments'[b].contract \in {0, attachments[b].contract}
          /\ held[r].op = "removeAttachment" /\ b = a => attachments'[b].contract = 0
    <3>. SUFFICES ASSUME NEW b \in DOMAIN attachments
                  PROVE  /\ attachments'[b].contract \in {0, attachments[b].contract}
                         /\ held[r].op = "removeAttachment" /\ b = a =>
                              attachments'[b].contract = 0
      OBVIOUS
    <3>1. attachments'[b] = Saved(r)[b]
      BY UpdatedFacts
    <3>2. /\ Saved(r)[b].contract \in {0, attachments[b].contract}
          /\ held[r].op = "removeAttachment" /\ b = a => Saved(r)[b].contract = 0
      BY <1>1, <1>11, SavedFacts
    <3>. QED
      BY ONLY <3>1, <3>2
  <2>2. Numbered'
    BY <1>11, ContractSaved DEF IInv, OrderlyInv, Numbered
  <2>3. removed' = IF held[r].op = "removeAttachment" THEN removed \union {a} ELSE removed
    BY DEF Update
  <2>4. held[r].op = "removeAttachment" => a \notin data /\ a \in DOMAIN attachments
    BY <1>1, <1>11 DEF ListOK, CallOK, Pending, SaveLabels
  <2>5. Gone'
    BY <1>1, <1>11, <2>1, <2>3, <2>4 DEF IInv, OrderlyInv, Gone, TypeOK
  <2>6. ListOK(pc[r], held[r])'
    <3>1. CASE proposes
      <4>1. y.attachment \notin removed'
        BY <1>2, <1>6, <2>3, <3>1 DEF IInv, TypeOK
      <4>. QED
        BY <1>7, <3>1, <4>1 DEF ListOK, SaveLabels, Pending
    <3>2. CASE ~proposes
      BY <1>7, <3>2 DEF ListOK, SaveLabels, Pending
    <3>. QED
      BY <3>1, <3>2
  <2>7. ASSUME NEW b \in DOMAIN attachments', attachments'[b].contract # 0, b \notin data'
        PROVE  \E q \in Calls : Pending(pc[q], held[q])' /\ held'[q].attachment = b
    <3>1. CASE b \in DOMAIN attachments
      <4>1. attachments[b].contract # 0
        BY <2>1, <2>7, <3>1
      <4>2. PICK q \in Calls : Pending(pc[q], held[q]) /\ held[q].attachment = b
        BY <1>1, <1>11, <2>7, <3>1, <4>1 DEF IInv, OrderlyInv, Listed
      <4>3. q # r
        BY <1>1, <2>1, <2>7, <3>1, <4>2 DEF Pending
      <4>4. Pending(pc[q], held[q])' /\ held'[q].attachment = b
        BY <1>7, <4>2, <4>3 DEF Waits, Pending
      <4>. QED
        BY <4>4
    <3>2. CASE proposes /\ b = n + 1
      BY <1>6, <1>7, <3>2 DEF Pending
    <3>. QED
      BY <1>2, <3>1, <3>2
  <2>8. Listed'
    BY <2>7 DEF Listed
  <2>. QED
    BY <2>2, <2>5, <2>6, <2>8
<1>. QED
  BY <1>1, <1>3, <1>7, <1>8, <1>9, <1>10, <1>11, StepOf

\* A call begins, holding x.
LEMMA BeginWith ==
  ASSUME IInv, NEW r \in Calls, pc[r] = "idle",
         UNCHANGED <<tables, acceptances, proposedTo, removed>>,
         NEW label \in {"count", "find"}, NEW x \in Held,
         Start(r, label, x), CallOK(label, x),
         orderly' \in BOOLEAN,
         orderly' => /\ orderly /\ Quiet
                     /\ x.op = "removeAttachment" =>
                          attachments[x.attachment].contract \in {0, x.contract}
  PROVE  IInv'
<1>1. /\ pc' = [pc EXCEPT ![r] = label] /\ held' = [held EXCEPT ![r] = x]
      /\ label \in Labels /\ ~Pending(pc[r], held[r])
  BY DEF Start, Goto, Hold, Labels, Pending
<1>2. orderly' => ListOK(label, x)
  BY DEF ListOK, SaveLabels, Pending
<1>. QED
  BY <1>1, <1>2, LocalStep

LEMMA BeginStep ==
  ASSUME IInv, NEW r \in Calls, Begin(r)
  PROVE  IInv'
<1>1. /\ pc[r] = "idle"
      /\ UNCHANGED <<tables, acceptances, proposedTo, removed>>
      /\ orderly \in BOOLEAN
  BY CallFacts DEF Begin
<1>2. CASE /\ Start(r, "count", [Blank EXCEPT !.op = "createContract"])
           /\ orderly' = (orderly /\ Quiet)
  <2>. DEFINE x == [Blank EXCEPT !.op = "createContract"]
  <2>1. x \in Held /\ x.op = "createContract"
    BY BlankIsHeld DEF Held
  <2>2. Start(r, "count", x)
    BY <1>2
  <2>. HIDE DEF x
  <2>3. CallOK("count", x)
    BY DEF CallOK, SaveLabels
  <2>. QED
    BY <1>1, <1>2, <2>1, <2>2, <2>3, BeginWith
<1>3. CASE \E o \in OfContract, c \in DOMAIN contracts :
             /\ Start(r, "find", [Blank EXCEPT !.op = o, !.contract = c])
             /\ orderly' = (orderly /\ Quiet)
  <2>1. PICK o \in OfContract, c \in DOMAIN contracts :
             /\ Start(r, "find", [Blank EXCEPT !.op = o, !.contract = c])
             /\ orderly' = (orderly /\ Quiet)
    BY <1>3
  <2>. DEFINE x == [Blank EXCEPT !.op = o, !.contract = c]
  <2>2. x \in Held /\ x.op = o /\ x.contract = c
    BY BlankIsHeld DEF Held
  <2>3. Start(r, "find", x)
    BY <2>1
  <2>. HIDE DEF x
  <2>4. CallOK("find", x) /\ x.op # "removeAttachment"
    BY <2>2 DEF CallOK, SaveLabels, OfContract, OfAttachment
  <2>. QED
    BY <1>1, <2>1, <2>2, <2>3, <2>4, BeginWith
<1>4. CASE \E o \in OfAttachment, a \in DOMAIN attachments :
             /\ Start(r, "find", [Blank EXCEPT !.op = o, !.attachment = a])
             /\ orderly' = (orderly /\ Quiet)
  <2>1. PICK o \in OfAttachment, a \in DOMAIN attachments :
             /\ Start(r, "find", [Blank EXCEPT !.op = o, !.attachment = a])
             /\ orderly' = (orderly /\ Quiet)
    BY <1>4
  <2>. DEFINE x == [Blank EXCEPT !.op = o, !.attachment = a]
  <2>2. x \in Held /\ x.op = o /\ x.attachment = a
    BY BlankIsHeld DEF Held
  <2>3. Start(r, "find", x)
    BY <2>1
  <2>. HIDE DEF x
  <2>4. CallOK("find", x) /\ x.op # "removeAttachment"
    BY <2>2 DEF CallOK, SaveLabels, OfContract, OfAttachment
  <2>. QED
    BY <1>1, <2>1, <2>2, <2>3, <2>4, BeginWith
<1>5. CASE \E c \in DOMAIN contracts, a \in DOMAIN attachments :
             /\ Start(r, "find", [Blank EXCEPT !.op = "removeAttachment",
                                               !.contract = c, !.attachment = a])
             /\ orderly' = (orderly /\ Quiet /\ ~Foreign(c, a))
  <2>1. PICK c \in DOMAIN contracts, a \in DOMAIN attachments :
             /\ Start(r, "find", [Blank EXCEPT !.op = "removeAttachment",
                                               !.contract = c, !.attachment = a])
             /\ orderly' = (orderly /\ Quiet /\ ~Foreign(c, a))
    BY <1>5
  <2>. DEFINE x == [Blank EXCEPT !.op = "removeAttachment",
                                 !.contract = c, !.attachment = a]
  <2>2. x \in Held /\ x.op = "removeAttachment" /\ x.contract = c /\ x.attachment = a
    BY BlankIsHeld DEF Held
  <2>3. Start(r, "find", x)
    BY <2>1
  <2>. HIDE DEF x
  <2>4. CallOK("find", x)
    BY <2>2 DEF CallOK, SaveLabels, OfAttachment
  <2>5. orderly' => attachments[a].contract \in {0, c}
    BY <2>1 DEF Foreign
  <2>. QED
    BY <1>1, <2>1, <2>2, <2>3, <2>4, <2>5, BeginWith
<1>. QED
  BY <1>2, <1>3, <1>4, <1>5 DEF Begin

LEMMA CrashStep ==
  ASSUME IInv, Crash
  PROVE  IInv'
<1>1. /\ UNCHANGED <<contracts, attachments, data, acceptances, proposedTo, removed>>
      /\ orderly' = FALSE
      /\ \A r \in Calls : pc'[r] \in {"idle", "answered"} /\ held'[r] = Blank
      /\ pc' \in [Calls -> Labels]
  BY DEF Crash, tables, InProgress, IInv, TypeOK, Labels
<1>2. held' \in [Calls -> Held] /\ Held' = Held
  <2>1. Held' = Held
    BY <1>1 DEF Held, Lists
  <2>. QED
    BY <2>1, BlankIsHeld DEF Crash
<1>3. TypeOK' /\ RowsInv'
  BY <1>1, <1>2 DEF IInv, TypeOK, RowsInv
<1>4. \A r \in Calls : CallOK(pc[r], held[r])'
  BY <1>1 DEF CallOK, SaveLabels
<1>. QED
  BY <1>1, <1>3, <1>4 DEF IInv

-----------------------------------------------------------------------------
(* The invariant                                                            *)

LEMMA InitHolds == Init => IInv
<1>. SUFFICES ASSUME Init PROVE IInv
  OBVIOUS
<1>1. /\ contracts \in Seq(Contract) /\ DOMAIN contracts = 1 .. InitialContracts
      /\ \A c \in DOMAIN contracts : contracts[c].no = c
  <2>1. \A no \in 1 .. InitialContracts : NewContract(no) \in Contract
    BY ContractAssumption DEF NewContract, Contract, ContractStatus
  <2>2. contracts \in [1 .. InitialContracts -> Contract]
    BY <2>1 DEF Init
  <2>3. contracts \in Seq(Contract)
    BY <2>2, ContractAssumption, SeqDef
  <2>. QED
    BY <2>2, <2>3 DEF Init, NewContract
<1>2. /\ attachments = <<>> /\ DOMAIN attachments = {}
      /\ attachments \in Seq(Attachment) /\ acceptances = <<>> /\ proposedTo = <<>>
      /\ <<>> \in Seq(Nat)
  BY DEF Init
<1>3. \A r \in Calls : pc[r] = "idle" /\ held[r] = Blank
  BY DEF Init
<1>4. TypeOK
  BY <1>1, <1>2, BlankIsHeld DEF Init, TypeOK, Labels
<1>5. RowsInv /\ \A r \in Calls : CallOK(pc[r], held[r])
  BY <1>2, <1>3 DEF RowsInv, CallOK, SaveLabels
<1>6. OrderlyInv
  <2>1. OneAtATime
    BY <1>3 DEF OneAtATime, InProgress
  <2>2. Numbered /\ Listed /\ Gone
    BY <1>1, <1>2 DEF Init, Numbered, Listed, Gone
  <2>3. \A r \in Calls : ListOK(pc[r], held[r])
    BY <1>3 DEF ListOK, SaveLabels, Pending
  <2>. QED
    BY <2>1, <2>2, <2>3 DEF OrderlyInv
<1>. QED
  BY <1>4, <1>5, <1>6 DEF IInv

LEMMA StepKeeps == IInv /\ [Next]_vars => IInv'
<1>. SUFFICES ASSUME IInv, [Next]_vars PROVE IInv'
  OBVIOUS
<1>1. ASSUME NEW r \in Calls, Step(r) PROVE IInv'
  BY <1>1, BeginStep, CountContractsStep, InsertContractStep, FindStep,
     DeleteDataStep, CompareStep, UpdateStep, InsertDataStep DEF Step
<1>2. CASE UNCHANGED vars
  <2>1. /\ UNCHANGED <<contracts, attachments, data, pc, held>>
        /\ UNCHANGED <<acceptances, proposedTo, removed, orderly>>
    BY <1>2 DEF vars, tables, history
  <2>2. Held' = Held
    BY <2>1 DEF Held, Lists
  <2>3. TypeOK' /\ RowsInv' /\ \A r \in Calls : CallOK(pc[r], held[r])'
    BY <2>1, <2>2 DEF IInv, TypeOK, RowsInv, CallOK
  <2>4. orderly => OrderlyInv'
    BY <2>1 DEF IInv, OrderlyInv, OneAtATime, InProgress, Numbered, Listed, Gone,
                ListOK, Pending, Attached, AllAccepted
  <2>. QED
    BY <2>1, <2>3, <2>4 DEF IInv
<1>. QED
  BY <1>1, <1>2, CrashStep DEF Next

LEMMA Invariance == Spec => []IInv
<1>. QED
  BY InitHolds, StepKeeps, PTL DEF Spec

-----------------------------------------------------------------------------
(* The theorems                                                             *)

\* Contracts, attachments and the lists that calls hold keep their shape, in
\* every interleaving and across crashes.
THEOREM TypeCorrect == Spec => []TypeOK
<1>1. IInv => TypeOK
  BY DEF IInv
<1>. QED
  BY <1>1, Invariance, PTL

\* Whatever stale lists are written back, an attachment is accepted by both
\* sides only after two acceptances of it (acceptAttachment).
THEOREM AgreementsHaveTwoSides == Spec => []NoOneSidedAgreement
<1>1. IInv => NoOneSidedAgreement
  BY DEF IInv, RowsInv, Backed, NoOneSidedAgreement
<1>. QED
  BY <1>1, Invariance, PTL

\* While calls come one by one, the number of a contract is its place among
\* those of the partner (createContract).
THEOREM ContractsAreNumbered == Spec => []ContractNumbersIdentify
<1>1. IInv => ContractNumbersIdentify
  BY DEF IInv, OrderlyInv, Numbered, ContractNumbersIdentify
<1>. QED
  BY <1>1, Invariance, PTL

\* While calls come one by one, an attachment in a contract has its data and a
\* removed one has left both tables (proposeAttachment, removeAttachment).
THEOREM AttachmentsHaveData == Spec => []AttachmentsAreListed
<1>1. IInv => AttachmentsAreListed
  BY DEF IInv, OrderlyInv, Listed, Gone, AttachmentsAreListed, Quiet, InProgress, Pending
<1>. QED
  BY <1>1, Invariance, PTL

\* While calls come one by one, a contract is accepted only when every
\* attachment that is in it was accepted by both sides (acceptContract).
THEOREM AcceptedWithAttachments == Spec => AcceptanceNeedsItsAttachments
<1>. DEFINE Guarded ==
       orderly => \A c \in DOMAIN contracts : Accepted(c) =>
         \A a \in DOMAIN attachments : attachments[a].contract = c =>
           attachments[a].status = "accepted_by_both_side"
<1>1. IInv /\ [Next]_vars => [Guarded]_vars
  <2>. SUFFICES ASSUME IInv, [Next]_vars, orderly,
                       NEW c \in DOMAIN contracts, Accepted(c)
                PROVE  \A a \in Attached(c) :
                         attachments[a].status = "accepted_by_both_side"
    BY DEF Attached
  <2>1. CASE \E r \in Calls : Update(r)
    <3>1. PICK r \in Calls : Update(r)
      BY <2>1
    <3>2. /\ c = held[r].contract
          /\ Written(held[r].status, held[r].seenStatus, contracts[c].status) = "accepted"
          /\ contracts[c].status # "accepted"
      BY <3>1, ContractSaved DEF Accepted
    <3>3. ListOK("update", held[r])
      BY <3>1, CallFacts DEF Update
    <3>4. held[r].op = "acceptContract"
      BY <3>2, <3>3 DEF ListOK, SaveLabels, Written
    <3>. QED
      BY <3>2, <3>3, <3>4 DEF ListOK, SaveLabels, AllAccepted
  <2>2. CASE \E r \in Calls : InsertContract(r)
    <3>1. PICK r \in Calls : InsertContract(r)
      BY <2>2
    <3>2. NewContract(held[r].no) \in Contract
      BY CallFacts DEF NewContract, Contract, ContractStatus, Held
    <3>3. contracts'[c] = contracts[c]
      BY <3>1, <3>2, Appended DEF InsertContract, IInv, TypeOK
    <3>. QED
      BY <3>3 DEF Accepted
  <2>3. CASE contracts' = contracts
    BY <2>3 DEF Accepted
  <2>. QED
    BY <2>1, <2>2, <2>3
    DEF Next, Step, Begin, CountContracts, Find, DeleteData, Compare, InsertData,
        Crash, vars, tables
<1>. QED
  BY <1>1, Invariance, PTL DEF Spec, AcceptanceNeedsItsAttachments
=============================================================================
