---------------------------- MODULE AwardsService ---------------------------
(***************************************************************************)
(* The loyalty programme (loyalty/awards.service.ts) under concurrent      *)
(* calls: accounts are loaded with their miles, changed in memory and      *)
(* saved, each await letting another call run.                             *)
(*                                                                         *)
(* Saving an account reads it and the rows of its miles again, then in one *)
(* transaction updates the columns that differ, inserts the new rows,      *)
(* takes back the rows that are in its list and not in the table, and sets *)
(* the account of the rows that are in the table and not in its list to    *)
(* null.                                                                   *)
(***************************************************************************)
EXTENDS AwardsAccount, FiniteSets

CONSTANTS
  Calls,          \* calls of the service; each is handled once
  Operations,     \* the methods the calls of a run use
  Amounts,        \* miles asked for, granted or earned
  Lifetimes,      \* days until earned miles expire (a setting)
  Overlapping,    \* TRUE: calls interleave at every await
  SelfTransfer,   \* TRUE: a client may transfer miles to itself
  InitiallyActive,\* clients that start with an active account
  MaxAccounts,    \* bound on the accounts
  MaxTime         \* bound on the clock, in days

Methods ==
  { "register", "activate", "deactivate", "earn", "grant", "spend",
    "transfer" }

ASSUME AwardsAssumption ==
  /\ Operations \subseteq Methods
  /\ Amounts \subseteq Nat
  /\ Lifetimes \subseteq Nat /\ IsFiniteSet(Lifetimes)
  /\ Overlapping \in BOOLEAN /\ SelfTransfer \in BOOLEAN
  /\ InitiallyActive \subseteq Clients /\ IsFiniteSet(InitiallyActive)
  /\ MaxAccounts \in Nat /\ MaxTime \in Nat
  /\ Never \notin Nat

VARIABLES
  now,       \* Clock.currentDate, in days
  accounts,  \* awards_account rows
  miles,     \* awarded_miles rows
  owner,     \* their accountId, 0 when it is null
  pc,        \* where a call is
  call,      \* its parameters
  loaded,    \* the accounts a transfer has loaded so far
  saves,     \* copies of accounts it has yet to save
  granted,   \* history: miles granted, by expiration date
  spent      \* history: miles taken by removeMiles

tables == <<accounts, miles, owner>>
locals == <<call, loaded, saves>>
history == <<granted, spent>>
vars == <<now, tables, pc, locals, history>>

\* Expiration dates: miles are earned on a day of the run, or never expire.
Dates == {t + days : t \in 0 .. MaxTime, days \in Lifetimes} \union {Never}

NoCall == [op |-> "none"]

InProgress(r) == pc[r] \notin {"idle", "answered"}
Quiet == \A r \in Calls : ~InProgress(r)

-----------------------------------------------------------------------------
(* Loading and saving                                                       *)

\* findByClientId: any account of the client, with the rows that belong to it.
Found(client) ==
  { [ id    |-> a,
      row   |-> accounts[a],
      miles |-> [i \in {j \in DOMAIN miles : owner[j] = a} |-> miles[i]],
      added |-> <<>> ] :
    a \in {b \in DOMAIN accounts : accounts[b].client = client} }

Finish(r) ==
  /\ pc' = [pc EXCEPT ![r] = "answered"]
  /\ call' = [call EXCEPT ![r] = NoCall]
  /\ loaded' = [loaded EXCEPT ![r] = <<>>]
  /\ saves' = [saves EXCEPT ![r] = {}]

\* An exception, or nothing to do.
Refuse(r) == Finish(r) /\ UNCHANGED <<tables, history>>

\* The call has changed its copies and saves them, all at the same time.
SaveAll(r, copies) ==
  /\ pc' = [pc EXCEPT ![r] = "saving"]
  /\ saves' = [saves EXCEPT ![r] =
                 {[copy |-> c, seen |-> FALSE] : c \in copies}]
  /\ loaded' = [loaded EXCEPT ![r] = <<>>]
  /\ UNCHANGED <<tables, call, history>>

\* The SELECTs of one save.
Compare(r) ==
  /\ pc[r] = "saving"
  /\ \E s \in saves[r] :
       /\ s.seen = FALSE
       /\ LET id == s.copy.id IN
          saves' = [saves EXCEPT ![r] = (@ \ {s}) \union
            {[ copy |-> s.copy, seen |-> TRUE, row |-> accounts[id],
               miles |-> [i \in DOMAIN s.copy.miles |-> miles[i]],
               mine |-> {i \in DOMAIN miles : owner[i] = id} ]}]
  /\ UNCHANGED <<now, tables, pc, call, loaded, history>>

\* The columns of x that differ from those seen, on top of the current ones.
Columns(current, seen, x) ==
  [c \in DOMAIN x |-> IF x[c] # seen[c] THEN x[c] ELSE current[c]]

\* Whose row i is once save s is done.
OwnerAfter(s, i) ==
  CASE i \in DOMAIN s.copy.miles \ s.mine -> s.copy.id
    [] i \in s.mine \ DOMAIN s.copy.miles -> 0
    [] OTHER                              -> owner[i]

\* What a save adds to the history once the row of the account is written.
Record(r, s) ==
  /\ granted' = IF call[r].op \in {"earn", "grant"}
                THEN [granted EXCEPT ![s.copy.added[1].expires] = @ + call[r].amount]
                ELSE granted
  /\ spent' = IF call[r].op = "spend" THEN spent + call[r].amount ELSE spent

Update(r) ==
  /\ pc[r] = "saving"
  /\ \E s \in saves[r] :
       /\ s.seen = TRUE
       /\ accounts' = [accounts EXCEPT ![s.copy.id] = Columns(@, s.row, s.copy.row)]
       /\ miles' = [i \in DOMAIN miles |->
                      IF i \in DOMAIN s.copy.miles
                      THEN Columns(miles[i], s.miles[i], s.copy.miles[i])
                      ELSE miles[i]] \o s.copy.added
       /\ owner' = [i \in DOMAIN owner |-> OwnerAfter(s, i)]
                     \o [i \in DOMAIN s.copy.added |-> s.copy.id]
       /\ Record(r, s)
       /\ IF saves[r] = {s}
          THEN Finish(r)
          ELSE /\ saves' = [saves EXCEPT ![r] = @ \ {s}]
               /\ UNCHANGED <<pc, call, loaded>>
  /\ UNCHANGED now

-----------------------------------------------------------------------------
(* AwardsService                                                            *)

Parameters(o) ==
  CASE o = "grant" ->
         [op : {o}, client : Clients, amount : Amounts]
    [] o = "earn" ->
         [op : {o}, client : Clients, amount : Amounts, at : {now},
          days : Lifetimes]
    [] o = "spend" ->
         [op : {o}, client : Clients, amount : Amounts, strategy : Strategies]
    [] o = "transfer" ->
         { c \in [op : {o}, client : Clients, to : Clients, amount : Amounts] :
             SelfTransfer \/ c.to # c.client }
    [] OTHER ->
         [op : {o}, client : Clients]

Registrations ==
  Len(accounts) + Cardinality({r \in Calls : call[r].op = "register"})

\* The client exists.  What removeMiles sorts by depends on its transits,
\* claims and type and on the day of the week.
Begin(r) ==
  /\ pc[r] = "idle"
  /\ Overlapping \/ Quiet
  /\ \E o \in Operations : \E c \in Parameters(o) :
       /\ o = "register" => Registrations < MaxAccounts
       /\ call' = [call EXCEPT ![r] = c]
  /\ pc' = [pc EXCEPT ![r] = "load"]
  /\ UNCHANGED <<now, tables, loaded, saves, history>>

Called(r, o) == pc[r] = "load" /\ call[r].op = o

RegisterToProgram(r) ==
  /\ Called(r, "register")
  /\ accounts' = Append(accounts, NewAccount(call[r].client))
  /\ Finish(r)
  /\ UNCHANGED <<now, miles, owner, history>>

\* findByClientIdOrThrow
NoAccount(r) ==
  /\ pc[r] \in {"load", "loadTo"}
  /\ call[r].op # "register"
  /\ Found(IF pc[r] = "load" THEN call[r].client ELSE call[r].to) = {}
  /\ Refuse(r)
  /\ UNCHANGED now

ChangeStatus(r) ==
  /\ \/ Called(r, "activate") \/ Called(r, "deactivate")
  /\ \E acc \in Found(call[r].client) :
       SaveAll(r, {[acc EXCEPT !.row.active = (call[r].op = "activate")]})
  /\ UNCHANGED now

RegisterMiles(r) ==
  /\ Called(r, "earn")
  /\ \E acc \in Found(call[r].client) :
       IF acc.row.active
       THEN SaveAll(r, {WithMiles(acc, call[r].amount,
                                  call[r].at + call[r].days, call[r].at)})
       ELSE Refuse(r)
  /\ UNCHANGED now

RegisterNonExpiringMiles(r) ==
  /\ Called(r, "grant")
  /\ \E acc \in Found(call[r].client) :
       SaveAll(r, {WithMiles(acc, call[r].amount, Never, now)})
  /\ UNCHANGED now

RemoveMiles(r) ==
  /\ Called(r, "spend")
  /\ \E acc \in Found(call[r].client) :
       IF CanTake(acc, call[r].amount, now)
       THEN \E list \in SortedLists(acc, call[r].strategy) :
              SaveAll(r, {WithoutMiles(acc, call[r].amount, list, now)})
       ELSE Refuse(r)
  /\ UNCHANGED now

LoadSender(r) ==
  /\ Called(r, "transfer")
  /\ \E acc \in Found(call[r].client) :
       loaded' = [loaded EXCEPT ![r] = <<acc>>]
  /\ pc' = [pc EXCEPT ![r] = "loadTo"]
  /\ UNCHANGED <<now, tables, call, saves, history>>

TransferMiles(r) ==
  /\ pc[r] = "loadTo"
  /\ LET from == loaded[r][1] IN
     \E to \in Found(call[r].to), list \in SetToSeqs(DOMAIN from.miles) :
       LET moved == Moved(from, to, call[r].amount, list, now) IN
       SaveAll(r, {moved.from, moved.to})
  /\ UNCHANGED now

-----------------------------------------------------------------------------
(* The specification                                                        *)

\* A day passes while no call is in progress: a call takes milliseconds.
Tick ==
  /\ Quiet
  /\ now < MaxTime
  /\ now' = now + 1
  /\ UNCHANGED <<tables, pc, locals, history>>

Init ==
  /\ now = 0
  /\ accounts = SetToSeq({[NewAccount(c) EXCEPT !.active = TRUE] :
                            c \in InitiallyActive})
  /\ miles = <<>>
  /\ owner = <<>>
  /\ pc = [r \in Calls |-> "idle"]
  /\ call = [r \in Calls |-> NoCall]
  /\ loaded = [r \in Calls |-> <<>>]
  /\ saves = [r \in Calls |-> {}]
  /\ granted = [e \in Dates |-> 0]
  /\ spent = 0

Step(r) ==
  \/ RegisterToProgram(r) \/ NoAccount(r) \/ ChangeStatus(r)
  \/ RegisterMiles(r) \/ RegisterNonExpiringMiles(r) \/ RemoveMiles(r)
  \/ LoadSender(r) \/ TransferMiles(r) \/ Compare(r) \/ Update(r)

AllAnswered == Quiet /\ UNCHANGED vars

Next == (\E r \in Calls : Begin(r) \/ Step(r)) \/ Tick \/ AllAnswered

Spec == Init /\ [][Next]_vars

-----------------------------------------------------------------------------
(* Properties                                                               *)

Total(rows) == SumFunctionOnSet([i \in DOMAIN miles |-> miles[i].amount], rows)

Owned == {i \in DOMAIN miles : owner[i] # 0}

\* The rows of the two tables have their shape, whatever copies are saved.
TypeOK ==
  /\ now \in 0 .. MaxTime
  /\ accounts \in Seq([client : Clients, active : BOOLEAN,
                       transactions : Nat])
  /\ miles \in Seq([amount : Nat, expires : Dates, date : 0 .. MaxTime])
  /\ owner \in Seq(0 .. Len(accounts)) /\ Len(owner) = Len(miles)
  /\ pc \in [Calls -> {"idle", "load", "loadTo", "saving", "answered"}]
  /\ granted \in [Dates -> Nat]
  /\ spent \in Nat

\* Miles are neither made nor lost: what the accounts hold is what was
\* granted less what was removed, and a transfer cannot prolong their life
\* (moveMilesTo, transferTo and the saves of both accounts).
MilesAreConserved ==
  Quiet =>
    /\ Total(Owned) + spent = SumFunction(granted)
    /\ \A e \in Dates :
         Total({i \in Owned : miles[i].expires = e}) <= granted[e]

\* "Can't transfer miles when account is not active", nor remove them: the
\* miles of an inactive account keep their amount and their owner.
InactiveAccountsAreFrozen ==
  [][\A i \in DOMAIN miles :
       owner[i] # 0 /\ ~accounts[owner[i]].active =>
         miles'[i] = miles[i] /\ owner'[i] = owner[i]]_<<miles, owner>>

\* removeMiles touches an entry only when those its strategy puts before it
\* are used up, and never an expired one.
SpendsInOrder ==
  [][\A r \in Calls :
       spent' > spent /\ call[r].op = "spend" /\ call'[r] = NoCall =>
         LET touched == {j \in DOMAIN miles : miles'[j].amount < miles[j].amount}
         IN \A j \in touched :
              /\ Live(miles[j], now)
              /\ \A i \in DOMAIN miles :
                   /\ owner[i] = owner[j] /\ Live(miles[i], now)
                   /\ Precedes(call[r].strategy, miles[i], miles[j])
                   => miles'[i].amount = 0]_vars

\* "Can't remove more miles than client has".
NoMoreSpentThanGranted == spent <= SumFunction(granted)
=============================================================================
