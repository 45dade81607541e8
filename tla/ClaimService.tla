----------------------------- MODULE ClaimService ----------------------------
(***************************************************************************)
(* Claims and their automatic resolution (crm/claims).  A call is a        *)
(* process, an action what it does between two awaits that touch shared    *)
(* rows.  The server may crash between any two of them: the calls in       *)
(* progress are gone, the rows stay.                                       *)
(*                                                                         *)
(* Two answers of other services are free choices: whether the client has  *)
(* made enough transits, and whether a transit has its price already (a    *)
(* missing price counts as zero).                                          *)
(***************************************************************************)
EXTENDS Integers, Sequences, FiniteSets

CONSTANTS
  Calls,       \* calls of the service; each is handled once
  Clients,     \* client ids
  WithAccount, \* clients with an awards account
  Transits,    \* transit ids
  Dear,        \* transits whose price reaches the threshold for refunds
  FreeClaims,  \* claims a client gets refunded whatever they cost (3)
  NoRefund,    \* a call that recorded no refund
  MaxOverlap   \* bound on the calls in progress at the same time

ASSUME ClaimAssumption ==
  /\ WithAccount \subseteq Clients
  /\ Dear \subseteq Transits
  /\ FreeClaims \in Nat
  /\ MaxOverlap \in Nat

VARIABLES
  claims,     \* claim rows
  resolvers,  \* claims_resolver rows
  vips,       \* clients of type VIP
  pc,         \* where a call is
  held,       \* what it holds in memory
  granted,    \* history: calls that registered miles
  refund,     \* history: the refund a call recorded
  orderly     \* history: no two calls overlapped, and no crash

tables == <<claims, resolvers, vips>>
history == <<granted, refund, orderly>>
vars == <<tables, pc, held, history>>

\* Nothing tells a DRAFT from a NEW claim: NEW stands for both.
Claim ==
  [ no : Nat, owner : Clients, transit : Transits, dear : BOOLEAN,
    status : {"NEW", "IN_PROCESS", "REFUNDED", "ESCALATED"} ]

Resolver == [client : Clients, transits : SUBSET Transits]

Blank ==
  [ op |-> "none", claim |-> 0, no |-> 0, resolver |-> 0, list |-> {},
    status |-> "none", seen |-> "none", vip |-> FALSE ]

InProgress(r) == pc[r] \notin {"idle", "answered"}

Quiet == \A r \in Calls : ~InProgress(r)

Goto(r, label) == pc' = [pc EXCEPT ![r] = label]

Hold(r, x) == held' = [held EXCEPT ![r] = x]

Finish(r) == Goto(r, "answered") /\ Hold(r, Blank)

\* The claim a call is about.
Mine(r) == claims[held[r].claim]

-----------------------------------------------------------------------------
Begin(r) ==
  /\ pc[r] = "idle"
  /\ Cardinality({q \in Calls : InProgress(q)}) < MaxOverlap
  /\ orderly' = (orderly /\ Quiet)
  /\ \/ /\ Goto(r, "count")
        /\ Hold(r, [Blank EXCEPT !.op = "create"])
     \/ \E c \in DOMAIN claims :
          \/ /\ Goto(r, "compare")
             /\ Hold(r, [Blank EXCEPT !.op = "process", !.claim = c,
                                      !.status = "IN_PROCESS"])
          \/ /\ Goto(r, "findResolver")
             /\ Hold(r, [Blank EXCEPT !.op = "resolve", !.claim = c])
  /\ UNCHANGED <<tables, granted, refund>>

-----------------------------------------------------------------------------
(* create, update                                                           *)

\* Fault: the count is never added to itself.
CountOrOne(count) == IF count = 0 THEN 1 ELSE count

\* Fault: the claims before the last one are counted.
OneLess(count) == count + count - 1

\* prefix + count adds two numbers; the day appended to it is left out.
ClaimNumber(count) == IF count = 0 THEN 1 ELSE count + count

Generate(r) ==
  /\ pc[r] = "count"
  /\ Hold(r, [held[r] EXCEPT !.no = ClaimNumber(Len(claims))])
  /\ Goto(r, "insert")
  /\ UNCHANGED <<tables, history>>

Create(r) ==
  /\ pc[r] = "insert"
  /\ \E o \in Clients, t \in Transits, d \in BOOLEAN :
       /\ d => t \in Dear
       /\ claims' = Append(claims, [ no |-> held[r].no, owner |-> o,
                                     transit |-> t, dear |-> d,
                                     status |-> "NEW" ])
  /\ Finish(r)
  /\ UNCHANGED <<resolvers, vips, history>>

-----------------------------------------------------------------------------
(* tryToResolveAutomatically                                                *)

FindResolver(r) ==
  /\ pc[r] = "findResolver"
  /\ LET mine == {i \in DOMAIN resolvers : resolvers[i].client = Mine(r).owner} IN
     \/ \E i \in mine :
          /\ Hold(r, [held[r] EXCEPT !.resolver = i,
                                     !.list = resolvers[i].transits])
          /\ Goto(r, "resolve")
     \/ /\ mine = {}
        /\ Goto(r, "createResolver")
        /\ UNCHANGED held
  /\ UNCHANGED <<tables, history>>

CreateResolver(r) ==
  /\ pc[r] = "createResolver"
  /\ resolvers' = Append(resolvers, [client |-> Mine(r).owner, transits |-> {}])
  /\ Hold(r, [held[r] EXCEPT !.resolver = Len(resolvers) + 1])
  /\ Goto(r, "resolve")
  /\ UNCHANGED <<claims, vips, history>>

\* Fault: the price is not looked at.
RefundsAtAnyPrice(claim, list, vip, many) ==
  /\ claim.transit \notin list
  /\ \/ Cardinality(list \union {claim.transit}) <= FreeClaims
     \/ vip \/ many

\* resolve: REFUNDED, or else ESCALATED.
Refunds(claim, list, vip, many) ==
  /\ claim.transit \notin list
  /\ \/ Cardinality(list \union {claim.transit}) <= FreeClaims
     \/ (vip \/ many) /\ ~claim.dear

\* Fault: a VIP is not given miles.
NoMiles(status, vip) == "compare"

\* A VIP is given miles before its refund is saved.
AfterDecision(status, vip) ==
  IF status = "REFUNDED" /\ vip THEN "grant" ELSE "compare"

\* The client is told of a refund at once; the driver or the client may be
\* asked for details.
Resolve(r) ==
  /\ pc[r] = "resolve"
  /\ \E many \in BOOLEAN :
       LET claim == Mine(r)
           vip == claim.owner \in vips
           status == IF Refunds(claim, held[r].list, vip, many)
                     THEN "REFUNDED" ELSE "ESCALATED"
       IN /\ Hold(r, [held[r] EXCEPT !.list = @ \union {claim.transit},
                                     !.status = status, !.vip = vip])
          /\ Goto(r, AfterDecision(status, vip))
  /\ UNCHANGED <<tables, history>>

\* registerNonExpiringMiles throws when the client has no awards account.
GrantMiles(r) ==
  /\ pc[r] = "grant"
  /\ IF Mine(r).owner \in WithAccount
     THEN /\ granted' = granted \union {r}
          /\ Goto(r, "compare")
          /\ UNCHANGED held
     ELSE Finish(r) /\ UNCHANGED granted
  /\ UNCHANGED <<tables, refund, orderly>>

-----------------------------------------------------------------------------
(* Saving, also of setStatus                                                *)

\* The SELECT of the claim's save.
Compare(r) ==
  /\ pc[r] = "compare"
  /\ Hold(r, [held[r] EXCEPT !.seen = Mine(r).status])
  /\ Goto(r, "update")
  /\ UNCHANGED <<tables, history>>

Recorded(r) ==
  IF held[r].status = "REFUNDED"
  THEN [owner |-> Mine(r).owner, transit |-> Mine(r).transit,
        dear |-> Mine(r).dear, vip |-> held[r].vip]
  ELSE NoRefund

\* Fault: a refunded transit is not remembered.
ResolverForgotten(r) == held[r].status # "ESCALATED"

\* setStatus ends with the claim.
EndsWithClaim(r) == held[r].op = "process"

\* Its UPDATE, of a status that differs from the one it has seen.
SaveClaim(r) ==
  /\ pc[r] = "update"
  /\ claims' = IF held[r].status # held[r].seen
               THEN [claims EXCEPT ![held[r].claim].status = held[r].status]
               ELSE claims
  /\ refund' = [refund EXCEPT ![r] = Recorded(r)]
  /\ IF EndsWithClaim(r)
     THEN Finish(r)
     ELSE Goto(r, "saveResolver") /\ UNCHANGED held
  /\ UNCHANGED <<resolvers, vips, granted, orderly>>

\* The array of transits is always written.
SaveResolver(r) ==
  /\ pc[r] = "saveResolver"
  /\ resolvers' = [resolvers EXCEPT ![held[r].resolver].transits = held[r].list]
  /\ Finish(r)
  /\ UNCHANGED <<claims, vips, history>>

-----------------------------------------------------------------------------
\* upgradeToVIP, downgradeToRegular of the client service.
ChangeType ==
  /\ \E c \in Clients : vips' \in {vips \union {c}, vips \ {c}}
  /\ UNCHANGED <<claims, resolvers, pc, held, history>>

\* The server dies and is started again.
Crash ==
  /\ ~Quiet
  /\ pc' = [r \in Calls |-> IF InProgress(r) THEN "answered" ELSE pc[r]]
  /\ held' = [r \in Calls |-> Blank]
  /\ orderly' = FALSE
  /\ UNCHANGED <<tables, granted, refund>>

Init ==
  /\ claims = <<>>
  /\ resolvers = <<>>
  /\ vips \in SUBSET Clients
  /\ pc = [r \in Calls |-> "idle"]
  /\ held = [r \in Calls |-> Blank]
  /\ granted = {}
  /\ refund = [r \in Calls |-> NoRefund]
  /\ orderly = TRUE

Step(r) ==
  \/ Begin(r) \/ Generate(r) \/ Create(r)
  \/ FindResolver(r) \/ CreateResolver(r) \/ Resolve(r) \/ GrantMiles(r)
  \/ Compare(r) \/ SaveClaim(r) \/ SaveResolver(r)

Next == (\E r \in Calls : Step(r)) \/ ChangeType \/ Crash

Spec == Init /\ [][Next]_vars

-----------------------------------------------------------------------------
(* Properties                                                               *)

Labels ==
  { "idle", "count", "insert", "findResolver", "createResolver", "resolve",
    "grant", "compare", "update", "saveResolver", "answered" }

Held ==
  [ op : {"none", "create", "process", "resolve"}, claim : Nat, no : Nat,
    resolver : Nat, list : SUBSET Transits,
    status : {"none", "IN_PROCESS", "REFUNDED", "ESCALATED"},
    seen : {"none", "NEW", "IN_PROCESS", "REFUNDED", "ESCALATED"},
    vip : BOOLEAN ]

Refund ==
  [owner : Clients, transit : Transits, dear : BOOLEAN, vip : BOOLEAN]

\* Rows and copies have their shape, and the ids a call holds exist.
TypeOK ==
  /\ claims \in Seq(Claim)
  /\ resolvers \in Seq(Resolver)
  /\ vips \subseteq Clients
  /\ pc \in [Calls -> Labels]
  /\ held \in [Calls -> Held]
  /\ \A r \in Calls : held[r].claim \in {0} \union DOMAIN claims
  /\ \A r \in Calls : held[r].resolver \in {0} \union DOMAIN resolvers
  /\ granted \subseteq Calls
  /\ refund \in [Calls -> Refund \union {NoRefund}]
  /\ orderly \in BOOLEAN

\* However calls interleave and wherever the server dies: no refund of a VIP
\* is recorded without the miles that go with it.
VipRefundsComeWithMiles ==
  \A r \in Calls :
    refund[r] # NoRefund /\ refund[r].vip => r \in granted

\* "Second claim for the same transit will be escalated": a client is refunded
\* a transit once, while calls do not overlap and the server does not die
\* (two saves that no transaction binds).
OneRefundPerTransit ==
  orderly =>
    \A r, q \in Calls :
      /\ refund[r] # NoRefund /\ refund[q] # NoRefund
      /\ refund[r].owner = refund[q].owner
      /\ refund[r].transit = refund[q].transit
      => r = q

\* "First three claims are refunded automatically, then manual and escalated":
\* a client is never refunded more dear transits than that.
FewDearRefunds ==
  orderly =>
    \A c \in Clients :
      Cardinality({ r \in Calls : /\ refund[r] # NoRefund
                                  /\ refund[r].owner = c /\ refund[r].dear })
        <= FreeClaims

\* No two claims have the same number (ClaimNumberGenerator).
ClaimNumbersIdentify ==
  orderly =>
    \A i, j \in DOMAIN claims : claims[i].no = claims[j].no => i = j
=============================================================================
