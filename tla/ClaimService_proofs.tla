------------------------- MODULE ClaimService_proofs ------------------------
(***************************************************************************)
(* Safety of ClaimService for any number of calls, clients and transits.   *)
(*                                                                         *)
(* The argument has two halves.  What holds in every interleaving is       *)
(* carried by each call (CallInv): whose claim it resolves and whether it  *)
(* has registered the miles.  What holds of orderly histories is carried   *)
(* by the tables (OrderlyInv): a client has one resolver, and every        *)
(* recorded refund is in its list or about to be saved there.              *)
(*                                                                         *)
(* How many dear transits are refunded is in a part of its own: one list   *)
(* that was short enough holds them all (DearInv).                         *)
(***************************************************************************)
EXTENDS ClaimService, SequenceTheorems, FiniteSetTheorems, TLAPS

-----------------------------------------------------------------------------
(* The inductive invariant                                                  *)

ResolveLabels ==
  {"findResolver", "createResolver", "resolve", "grant", "saveResolver"}

SaveLabels == {"compare", "update"}

\* Where a resolving call holds a resolver, and where its list is complete.
Decided(r) ==
  \/ pc[r] \in {"grant", "saveResolver"}
  \/ pc[r] \in SaveLabels /\ held[r].op = "resolve"

CallInv(r) ==
  /\ pc[r] \in ResolveLabels => held[r].op = "resolve"
  /\ pc[r] \in {"findResolver", "createResolver"} => held[r].list = {}
  /\ pc[r] \in SaveLabels => held[r].op \in {"process", "resolve"}
  /\ pc[r] \in SaveLabels /\ held[r].op = "process" => held[r].status = "IN_PROCESS"
  /\ pc[r] \in ResolveLabels \union SaveLabels => held[r].claim \in DOMAIN claims
  /\ pc[r] = "resolve" \/ Decided(r) => held[r].resolver \in DOMAIN resolvers
  /\ Decided(r) => held[r].status \in {"REFUNDED", "ESCALATED"}
  /\ /\ pc[r] \in SaveLabels
     /\ held[r].status = "REFUNDED" /\ held[r].vip
     => r \in granted
  /\ refund[r] # NoRefund => pc[r] \in {"saveResolver", "answered"}
  /\ pc[r] = "saveResolver" /\ refund[r] # NoRefund =>
       /\ refund[r].owner = Mine(r).owner
       /\ refund[r].transit = Mine(r).transit

\* A call works on the only resolver of its client.
ListInv(r) ==
  /\ pc[r] = "createResolver" =>
       \A i \in DOMAIN resolvers : resolvers[i].client # Mine(r).owner
  /\ pc[r] = "resolve" \/ Decided(r) =>
       resolvers[held[r].resolver].client = Mine(r).owner
  /\ pc[r] = "resolve" => held[r].list = resolvers[held[r].resolver].transits
  /\ Decided(r) =>
       /\ held[r].list = resolvers[held[r].resolver].transits
                           \union {Mine(r).transit}
       /\ pc[r] # "saveResolver" /\ held[r].status = "REFUNDED" =>
            Mine(r).transit \notin resolvers[held[r].resolver].transits

OneAtATime ==
  \A r, q \in Calls : InProgress(r) /\ InProgress(q) => r = q

Numbered ==
  /\ \A i \in DOMAIN claims : claims[i].no = ClaimNumber(i - 1)
  /\ \A r \in Calls : pc[r] = "insert" => held[r].no = ClaimNumber(Len(claims))

OneResolver ==
  \A i, j \in DOMAIN resolvers : resolvers[i].client = resolvers[j].client => i = j

\* The refund of call r is in the list of its client, or about to be.
Remembered(r) ==
  refund[r] # NoRefund =>
    \/ pc[r] = "saveResolver"
    \/ \E i \in DOMAIN resolvers :
         /\ resolvers[i].client = refund[r].owner
         /\ refund[r].transit \in resolvers[i].transits

OrderlyInv ==
  /\ OneAtATime
  /\ Numbered
  /\ OneResolver
  /\ \A r \in Calls : ListInv(r) /\ Remembered(r)

IInv ==
  /\ TypeOK
  /\ \A r \in Calls : CallInv(r)
  /\ orderly => OrderlyInv
  /\ VipRefundsComeWithMiles
  /\ OneRefundPerTransit

-----------------------------------------------------------------------------
(* Numbers, sequences and records                                           *)

\* ClaimNumberGenerator: different counts give different numbers.
LEMMA NumbersDiffer ==
  ASSUME NEW m \in Nat, NEW n \in Nat
  PROVE  /\ ClaimNumber(m) \in Nat
         /\ ClaimNumber(m) = ClaimNumber(n) => m = n
BY DEF ClaimNumber

LEMMA BlankIsHeld == Blank \in Held
BY DEF Blank, Held

\* A row more.
LEMMA Appended ==
  ASSUME NEW S, NEW s \in Seq(S), NEW e \in S
  PROVE  /\ Append(s, e) \in Seq(S)
         /\ Len(Append(s, e)) = Len(s) + 1 /\ Len(s) \in Nat
         /\ DOMAIN s = 1 .. Len(s)
         /\ DOMAIN Append(s, e) = 1 .. Len(s) + 1
         /\ \A i \in DOMAIN s : Append(s, e)[i] = s[i]
         /\ Append(s, e)[Len(s) + 1] = e
BY AppendProperties, LenProperties

\* A row changed.
LEMMA Replaced ==
  ASSUME NEW S, NEW s \in Seq(S), NEW k \in DOMAIN s, NEW e \in S
  PROVE  /\ [s EXCEPT ![k] = e] \in Seq(S)
         /\ DOMAIN [s EXCEPT ![k] = e] = DOMAIN s
         /\ Len([s EXCEPT ![k] = e]) = Len(s)
         /\ \A i \in DOMAIN s :
              [s EXCEPT ![k] = e][i] = IF i = k THEN e ELSE s[i]
BY ExceptSeq, LenProperties

-----------------------------------------------------------------------------
(* One call steps, the others wait                                          *)

\* Rows stay, and so do the owner and the transit of a claim, the client of
\* a resolver, and the miles registered.
Kept ==
  /\ DOMAIN claims \subseteq DOMAIN claims'
  /\ \A i \in DOMAIN claims :
       claims'[i].owner = claims[i].owner /\ claims'[i].transit = claims[i].transit
  /\ DOMAIN resolvers \subseteq DOMAIN resolvers'
  /\ \A i \in DOMAIN resolvers : resolvers'[i].client = resolvers[i].client
  /\ granted \subseteq granted'

\* The lists of transits only grow.
Grown ==
  \A i \in DOMAIN resolvers : resolvers[i].transits \subseteq resolvers'[i].transits

Waits(q) == pc'[q] = pc[q] /\ held'[q] = held[q] /\ refund'[q] = refund[q]

LEMMA OtherCall ==
  ASSUME NEW q \in Calls, CallInv(q), Kept, Waits(q)
  PROVE  CallInv(q)'
<1>1. held[q].claim \in DOMAIN claims =>
        /\ Mine(q)'.owner = Mine(q).owner
        /\ Mine(q)'.transit = Mine(q).transit
  BY DEF Kept, Waits, Mine
<1>. QED
  BY <1>1 DEF CallInv, Kept, Waits, Decided, ResolveLabels, SaveLabels

\* What a step of call r has to show, the rest following for every other call.
LEMMA StepOf ==
  ASSUME IInv, NEW r \in Calls, InProgress(r),
         \A q \in Calls \ {r} : Waits(q),
         Kept, orderly' = orderly,
         TypeOK', CallInv(r)',
         orderly => /\ Grown /\ Numbered' /\ OneResolver'
                    /\ ListInv(r)' /\ Remembered(r)',
         VipRefundsComeWithMiles', OneRefundPerTransit'
  PROVE  IInv'
<1>1. \A q \in Calls : CallInv(q)'
  BY OtherCall DEF IInv
<1>2. ASSUME orderly PROVE OrderlyInv'
  <2>1. \A q \in Calls \ {r} : ~InProgress(q)
    BY <1>2 DEF IInv, OrderlyInv, OneAtATime
  <2>2. \A q \in Calls \ {r} : ~InProgress(q)'
    BY <2>1 DEF InProgress, Waits
  <2>3. OneAtATime'
    BY <2>2 DEF OneAtATime
  <2>4. ASSUME NEW q \in Calls \ {r} PROVE ListInv(q)' /\ Remembered(q)'
    <3>1. ListInv(q)'
      BY <2>2 DEF InProgress, ListInv, Decided, SaveLabels
    <3>2. Remembered(q)
      BY <1>2 DEF IInv, OrderlyInv
    <3>3. Remembered(q)'
      BY <1>2, <3>2 DEF Remembered, Waits, Kept, Grown
    <3>. QED
      BY <3>1, <3>3
  <2>. QED
    BY <1>2, <2>3, <2>4 DEF OrderlyInv
<1>. QED
  BY <1>1, <1>2 DEF IInv

\* The history of refunds stays what it is.
LEMMA SameRefunds ==
  ASSUME IInv, UNCHANGED refund, granted \subseteq granted', orderly' => orderly
  PROVE  VipRefundsComeWithMiles' /\ OneRefundPerTransit'
BY DEF IInv, VipRefundsComeWithMiles, OneRefundPerTransit

-----------------------------------------------------------------------------
(* The steps                                                                *)

\* Only pc and held change, of call r: the facts every such step shares.
LEMMA LocalStep ==
  ASSUME IInv, NEW r \in Calls, NEW label \in Labels, NEW x \in Held,
         pc' = [pc EXCEPT ![r] = label], held' = [held EXCEPT ![r] = x],
         x.claim \in {0} \union DOMAIN claims,
         x.resolver \in {0} \union DOMAIN resolvers,
         UNCHANGED <<tables, refund, orderly>>,
         granted' \in {granted, granted \union {r}}
  PROVE  /\ \A q \in Calls \ {r} : Waits(q)
         /\ Kept /\ Grown /\ TypeOK'
         /\ pc'[r] = label /\ held'[r] = x /\ refund'[r] = refund[r]
         /\ orderly => OneResolver'
         /\ orderly /\ label # "insert" => Numbered'
<1>1. /\ pc'[r] = label /\ held'[r] = x
      /\ \A q \in Calls \ {r} : pc'[q] = pc[q] /\ held'[q] = held[q]
      /\ pc' \in [Calls -> Labels] /\ held' \in [Calls -> Held]
  BY DEF IInv, TypeOK
<1>2. TypeOK'
  BY <1>1 DEF IInv, TypeOK, tables
<1>3. Kept /\ Grown
  BY DEF Kept, Grown, tables
<1>4. orderly => OneResolver'
  BY DEF IInv, OrderlyInv, OneResolver, tables
<1>5. ASSUME orderly, label # "insert" PROVE Numbered'
  BY <1>1, <1>5 DEF IInv, OrderlyInv, Numbered, tables
<1>. QED
  BY <1>1, <1>2, <1>3, <1>4, <1>5 DEF Waits

\* A call that ends carries nothing on.
LEMMA Answered ==
  ASSUME NEW r \in Calls, pc'[r] = "answered"
  PROVE  CallInv(r)' /\ ListInv(r)'
BY DEF CallInv, ListInv, Decided, ResolveLabels, SaveLabels

LEMMA CallFacts ==
  ASSUME IInv, NEW r \in Calls
  PROVE  /\ pc[r] \in Labels /\ held[r] \in Held
         /\ held[r].claim \in {0} \union DOMAIN claims
         /\ held[r].resolver \in {0} \union DOMAIN resolvers
         /\ CallInv(r)
         /\ orderly => ListInv(r) /\ Remembered(r)
         /\ \A k \in DOMAIN claims : claims[k] \in Claim
         /\ \A k \in DOMAIN resolvers : resolvers[k] \in Resolver
BY LenProperties DEF IInv, TypeOK, OrderlyInv

LEMMA GenerateStep ==
  ASSUME IInv, NEW r \in Calls, Generate(r)
  PROVE  IInv'
<1>. DEFINE x == [held[r] EXCEPT !.no = ClaimNumber(Len(claims))]
<1>1. x \in Held /\ x.claim = held[r].claim /\ x.resolver = held[r].resolver
  BY CallFacts, NumbersDiffer, LenProperties DEF Held, IInv, TypeOK
<1>2. /\ pc' = [pc EXCEPT ![r] = "insert"] /\ held' = [held EXCEPT ![r] = x]
      /\ UNCHANGED <<tables, refund, orderly>> /\ granted' = granted
  BY DEF Generate, Goto, Hold, history
<1>3. x.no = ClaimNumber(Len(claims))
  BY CallFacts DEF Held
<1>. HIDE DEF x
<1>4. /\ \A q \in Calls \ {r} : Waits(q)
      /\ Kept /\ Grown /\ TypeOK'
      /\ pc'[r] = "insert" /\ held'[r] = x /\ refund'[r] = refund[r]
      /\ orderly => OneResolver'
  BY <1>1, <1>2, CallFacts, LocalStep DEF Labels
<1>5. CallInv(r)' /\ ListInv(r)' /\ refund[r] = NoRefund
  BY <1>4, CallFacts DEF Generate, CallInv, ListInv, Decided, ResolveLabels, SaveLabels
<1>6. Remembered(r)'
  BY <1>4, <1>5 DEF Remembered
<1>7. orderly => Numbered'
  BY <1>2, <1>3, <1>4 DEF IInv, OrderlyInv, Numbered, Waits, tables
<1>. QED
  BY <1>2, <1>4, <1>5, <1>6, <1>7, StepOf, SameRefunds DEF Generate, InProgress

LEMMA FindResolverStep ==
  ASSUME IInv, NEW r \in Calls, FindResolver(r)
  PROVE  IInv'
<1>1. UNCHANGED <<tables, refund, orderly, granted>> /\ InProgress(r)
  BY DEF FindResolver, history, InProgress
<1>2. /\ refund[r] = NoRefund /\ held[r].op = "resolve"
      /\ held[r].claim \in DOMAIN claims /\ held[r].list = {}
  BY CallFacts DEF FindResolver, CallInv, ResolveLabels
<1>3. CASE \E i \in DOMAIN resolvers :
             /\ resolvers[i].client = Mine(r).owner
             /\ Hold(r, [held[r] EXCEPT !.resolver = i, !.list = resolvers[i].transits])
             /\ Goto(r, "resolve")
  <2>1. PICK i \in DOMAIN resolvers :
             /\ resolvers[i].client = Mine(r).owner
             /\ Hold(r, [held[r] EXCEPT !.resolver = i, !.list = resolvers[i].transits])
             /\ Goto(r, "resolve")
    BY <1>3
  <2>. DEFINE x == [held[r] EXCEPT !.resolver = i, !.list = resolvers[i].transits]
  <2>2. /\ x \in Held /\ x.claim = held[r].claim /\ x.op = held[r].op
        /\ x.resolver = i /\ x.list = resolvers[i].transits
    <3>1. i \in Nat /\ resolvers[i].transits \subseteq Transits
      BY CallFacts, LenProperties DEF Resolver, IInv, TypeOK
    <3>. QED
      BY <3>1, CallFacts DEF Held
  <2>3. pc' = [pc EXCEPT ![r] = "resolve"] /\ held' = [held EXCEPT ![r] = x]
    BY <2>1 DEF Goto, Hold
  <2>. HIDE DEF x
  <2>6. /\ x.claim \in {0} \union DOMAIN claims
        /\ x.resolver \in {0} \union DOMAIN resolvers
        /\ x \in Held /\ "resolve" \in Labels
        /\ UNCHANGED <<tables, refund, orderly>>
        /\ granted' \in {granted, granted \union {r}}
    BY <1>1, <2>2, CallFacts DEF Labels
  <2>4. /\ \A q \in Calls \ {r} : Waits(q)
        /\ Kept /\ Grown /\ TypeOK'
        /\ pc'[r] = "resolve" /\ held'[r] = x /\ refund'[r] = refund[r]
        /\ orderly => OneResolver' /\ Numbered'
    BY <2>3, <2>6, LocalStep
  <2>5. CallInv(r)' /\ ListInv(r)' /\ Remembered(r)'
    BY <1>1, <1>2, <2>1, <2>2, <2>4
    DEF CallInv, ListInv, Remembered, Decided, ResolveLabels, SaveLabels, Mine, tables
  <2>. QED
    BY <1>1, <2>4, <2>5, StepOf, SameRefunds
<1>4. CASE /\ \A i \in DOMAIN resolvers : resolvers[i].client # Mine(r).owner
           /\ Goto(r, "createResolver") /\ UNCHANGED held
  <2>1. pc' = [pc EXCEPT ![r] = "createResolver"] /\ held' = [held EXCEPT ![r] = held[r]]
    BY <1>4 DEF Goto, IInv, TypeOK
  <2>2. /\ \A q \in Calls \ {r} : Waits(q)
        /\ Kept /\ Grown /\ TypeOK'
        /\ pc'[r] = "createResolver" /\ held'[r] = held[r] /\ refund'[r] = refund[r]
        /\ orderly => OneResolver' /\ Numbered'
    BY <1>1, <2>1, CallFacts, LocalStep DEF Labels
  <2>3. CallInv(r)' /\ ListInv(r)' /\ Remembered(r)'
    BY <1>1, <1>2, <1>4, <2>2
    DEF CallInv, ListInv, Remembered, Decided, ResolveLabels, SaveLabels, Mine, tables
  <2>. QED
    BY <1>1, <2>2, <2>3, StepOf, SameRefunds
<1>. QED
  BY <1>3, <1>4 DEF FindResolver

LEMMA CreateResolverStep ==
  ASSUME IInv, NEW r \in Calls, CreateResolver(r)
  PROVE  IInv'
<1>. DEFINE k == Len(resolvers) + 1
            x == [held[r] EXCEPT !.resolver = k]
            e == [client |-> Mine(r).owner, transits |-> {}]
<1>1. /\ InProgress(r) /\ refund[r] = NoRefund
      /\ held[r].op = "resolve" /\ held[r].claim \in DOMAIN claims
      /\ e \in Resolver
  BY CallFacts DEF CreateResolver, InProgress, CallInv, ResolveLabels, Mine, Claim, Resolver
<1>2. /\ resolvers' \in Seq(Resolver)
      /\ DOMAIN resolvers = 1 .. Len(resolvers) /\ Len(resolvers) \in Nat
      /\ DOMAIN resolvers' = 1 .. k
      /\ \A i \in DOMAIN resolvers : resolvers'[i] = resolvers[i]
      /\ resolvers'[k] = e
  <2>1. resolvers \in Seq(Resolver) /\ resolvers' = Append(resolvers, e)
    BY DEF CreateResolver, IInv, TypeOK
  <2>. HIDE DEF e
  <2>. QED
    BY <1>1, <2>1, Appended
<1>3. /\ x \in Held /\ x.claim = held[r].claim /\ x.resolver = k
      /\ x.op = held[r].op /\ x.list = held[r].list
  <2>1. held[r] \in Held /\ k \in DOMAIN resolvers'
    BY <1>2, CallFacts
  <2>. QED
    BY <2>1 DEF Held
<1>4. /\ pc' = [pc EXCEPT ![r] = "resolve"] /\ held' = [held EXCEPT ![r] = x]
      /\ UNCHANGED <<claims, vips, granted, refund, orderly>>
  BY DEF CreateResolver, Goto, Hold, history
<1>. HIDE DEF x
<1>5. /\ pc'[r] = "resolve" /\ held'[r] = x
      /\ \A q \in Calls \ {r} : Waits(q)
      /\ pc' \in [Calls -> Labels] /\ held' \in [Calls -> Held]
  BY <1>3, <1>4 DEF IInv, TypeOK, Waits, Labels
<1>6. TypeOK'
  <2>1. \A q \in Calls : /\ held'[q].claim \in {0} \union DOMAIN claims'
                        /\ held'[q].resolver \in {0} \union DOMAIN resolvers'
    BY <1>2, <1>3, <1>4, <1>5, CallFacts DEF Waits
  <2>. QED
    BY <1>2, <1>4, <1>5, <2>1 DEF IInv, TypeOK
<1>7. Kept /\ Grown
  BY <1>2, <1>4 DEF Kept, Grown
<1>8. CallInv(r)' /\ Remembered(r)'
  BY <1>1, <1>2, <1>3, <1>4, <1>5
  DEF CallInv, Remembered, Decided, ResolveLabels, SaveLabels
<1>9. ASSUME orderly PROVE Numbered' /\ OneResolver' /\ ListInv(r)'
  <2>1. \A i \in DOMAIN resolvers : resolvers[i].client # Mine(r).owner
    BY <1>9, CallFacts DEF CreateResolver, ListInv
  <2>2. OneResolver'
    BY <1>2, <1>9, <2>1 DEF IInv, OrderlyInv, OneResolver
  <2>3. Numbered'
    BY <1>4, <1>5, <1>9 DEF IInv, OrderlyInv, Numbered, Waits
  <2>4. held[r].list = {}
    BY CallFacts DEF CreateResolver, CallInv
  <2>5. ListInv(r)'
    <3>1. Mine(r)' = Mine(r) /\ pc'[r] = "resolve"
      BY <1>3, <1>4, <1>5 DEF Mine
    <3>2. /\ held'[r].resolver = k /\ held'[r].list = {}
          /\ k \in DOMAIN resolvers' /\ resolvers'[k] = e
      BY <1>2, <1>3, <1>5, <2>4
    <3>. QED
      BY <3>1, <3>2 DEF ListInv, Decided, SaveLabels
  <2>. QED
    BY <2>2, <2>3, <2>5
<1>. QED
  BY <1>1, <1>4, <1>5, <1>6, <1>7, <1>8, <1>9, StepOf, SameRefunds

LEMMA ResolveStep ==
  ASSUME IInv, NEW r \in Calls, Resolve(r)
  PROVE  IInv'
<1>1. PICK many \in BOOLEAN :
        LET claim == Mine(r)
            vip == claim.owner \in vips
            status == IF Refunds(claim, held[r].list, vip, many)
                      THEN "REFUNDED" ELSE "ESCALATED"
        IN /\ Hold(r, [held[r] EXCEPT !.list = @ \union {claim.transit},
                                      !.status = status, !.vip = vip])
           /\ Goto(r, AfterDecision(status, vip))
  BY DEF Resolve
<1>. DEFINE vip == Mine(r).owner \in vips
            status == IF Refunds(Mine(r), held[r].list, vip, many)
                      THEN "REFUNDED" ELSE "ESCALATED"
            label == AfterDecision(status, vip)
            x == [held[r] EXCEPT !.list = @ \union {Mine(r).transit},
                                 !.status = status, !.vip = vip]
<1>2. /\ InProgress(r) /\ refund[r] = NoRefund
      /\ held[r].op = "resolve" /\ held[r].claim \in DOMAIN claims
      /\ held[r].resolver \in DOMAIN resolvers
      /\ Mine(r).transit \in Transits
  BY CallFacts DEF Resolve, InProgress, CallInv, ResolveLabels, Mine, Claim
<1>3. /\ status \in {"REFUNDED", "ESCALATED"} /\ vip \in BOOLEAN
      /\ status = "REFUNDED" => Mine(r).transit \notin held[r].list
      /\ label \in {"grant", "compare"}
      /\ label = "compare" /\ status = "REFUNDED" => ~vip
  BY DEF Refunds, AfterDecision
<1>4. /\ pc' = [pc EXCEPT ![r] = label] /\ held' = [held EXCEPT ![r] = x]
      /\ UNCHANGED <<tables, granted, refund, orderly>>
  BY <1>1 DEF Resolve, Goto, Hold, history
<1>. HIDE DEF vip, status, label
<1>5. /\ x \in Held /\ x.claim = held[r].claim /\ x.resolver = held[r].resolver
      /\ x.op = held[r].op /\ x.status = status /\ x.vip = vip
      /\ x.list = held[r].list \union {Mine(r).transit}
  BY <1>2, <1>3, CallFacts DEF Held
<1>. HIDE DEF x
<1>6. /\ x.claim \in {0} \union DOMAIN claims
      /\ x.resolver \in {0} \union DOMAIN resolvers
      /\ label \in Labels
      /\ UNCHANGED <<tables, refund, orderly>>
      /\ granted' \in {granted, granted \union {r}}
  BY <1>2, <1>3, <1>4, <1>5 DEF Labels
<1>7. /\ \A q \in Calls \ {r} : Waits(q)
      /\ Kept /\ Grown /\ TypeOK'
      /\ pc'[r] = label /\ held'[r] = x /\ refund'[r] = refund[r]
      /\ orderly => OneResolver'
      /\ orderly /\ label # "insert" => Numbered'
  BY <1>4, <1>5, <1>6, LocalStep
<1>8. CallInv(r)' /\ Remembered(r)'
  BY <1>2, <1>3, <1>4, <1>5, <1>7
  DEF CallInv, Remembered, Decided, ResolveLabels, SaveLabels, tables
<1>9. ASSUME orderly PROVE ListInv(r)'
  <2>1. /\ resolvers[held[r].resolver].client = Mine(r).owner
        /\ held[r].list = resolvers[held[r].resolver].transits
    BY <1>9, CallFacts DEF Resolve, ListInv
  <2>2. Mine(r)' = Mine(r) /\ resolvers' = resolvers
    BY <1>4, <1>5, <1>7 DEF Mine, tables
  <2>. QED
    BY <1>3, <1>5, <1>7, <2>1, <2>2 DEF ListInv, Decided, SaveLabels
<1>. QED
  BY <1>2, <1>3, <1>4, <1>7, <1>8, <1>9, StepOf, SameRefunds

LEMMA GrantMilesStep ==
  ASSUME IInv, NEW r \in Calls, GrantMiles(r)
  PROVE  IInv'
<1>1. /\ InProgress(r) /\ refund[r] = NoRefund
      /\ held[r].op = "resolve" /\ held[r].claim \in DOMAIN claims
      /\ held[r].resolver \in DOMAIN resolvers
      /\ held[r].status \in {"REFUNDED", "ESCALATED"}
  BY CallFacts DEF GrantMiles, InProgress, CallInv, Decided, ResolveLabels
<1>2. UNCHANGED <<tables, refund, orderly>>
  BY DEF GrantMiles
<1>3. CASE Mine(r).owner \in WithAccount
  <2>1. /\ pc' = [pc EXCEPT ![r] = "compare"] /\ held' = [held EXCEPT ![r] = held[r]]
        /\ granted' = granted \union {r}
    BY <1>3 DEF GrantMiles, Goto, IInv, TypeOK
  <2>2. /\ \A q \in Calls \ {r} : Waits(q)
        /\ Kept /\ Grown /\ TypeOK'
        /\ pc'[r] = "compare" /\ held'[r] = held[r] /\ refund'[r] = refund[r]
        /\ orderly => OneResolver' /\ Numbered'
    <3>1. "compare" \in Labels /\ held[r] \in Held
      BY CallFacts DEF Labels
    <3>. QED
      BY <1>2, <2>1, <3>1, CallFacts, LocalStep
  <2>3. CallInv(r)' /\ Remembered(r)'
    BY <1>1, <1>2, <2>1, <2>2
    DEF CallInv, Remembered, Decided, ResolveLabels, SaveLabels, tables
  <2>4. ASSUME orderly PROVE ListInv(r)'
    <3>1. Mine(r)' = Mine(r) /\ resolvers' = resolvers
      BY <1>2, <2>2 DEF Mine, tables
    <3>. QED
      BY <1>1, <2>2, <2>4, <3>1, CallFacts DEF GrantMiles, ListInv, Decided, SaveLabels
  <2>. QED
    BY <1>1, <1>2, <2>1, <2>2, <2>3, <2>4, StepOf, SameRefunds
<1>4. CASE Mine(r).owner \notin WithAccount
  <2>1. /\ pc' = [pc EXCEPT ![r] = "answered"] /\ held' = [held EXCEPT ![r] = Blank]
        /\ granted' = granted
    BY <1>4 DEF GrantMiles, Finish, Goto, Hold
  <2>2. /\ \A q \in Calls \ {r} : Waits(q)
        /\ Kept /\ Grown /\ TypeOK'
        /\ pc'[r] = "answered" /\ refund'[r] = refund[r]
        /\ orderly => OneResolver' /\ Numbered'
    <3>1. "answered" \in Labels /\ Blank \in Held /\ Blank.claim = 0 /\ Blank.resolver = 0
      BY BlankIsHeld DEF Labels, Blank
    <3>. QED
      BY <1>2, <2>1, <3>1, LocalStep
  <2>3. CallInv(r)' /\ ListInv(r)' /\ Remembered(r)'
    BY <1>1, <2>2, Answered DEF Remembered
  <2>. QED
    BY <1>1, <1>2, <2>1, <2>2, <2>3, StepOf, SameRefunds
<1>. QED
  BY <1>3, <1>4

LEMMA CompareStep ==
  ASSUME IInv, NEW r \in Calls, Compare(r)
  PROVE  IInv'
<1>. DEFINE x == [held[r] EXCEPT !.seen = Mine(r).status]
<1>1. /\ InProgress(r) /\ refund[r] = NoRefund /\ held[r].claim \in DOMAIN claims
  BY CallFacts DEF Compare, InProgress, CallInv, SaveLabels
<1>2. /\ pc' = [pc EXCEPT ![r] = "update"] /\ held' = [held EXCEPT ![r] = x]
      /\ UNCHANGED <<tables, granted, refund, orderly>>
  BY DEF Compare, Goto, Hold, history
<1>3. /\ x \in Held /\ x.claim = held[r].claim /\ x.resolver = held[r].resolver
      /\ x.op = held[r].op /\ x.status = held[r].status /\ x.vip = held[r].vip
      /\ x.list = held[r].list
  BY <1>1, CallFacts DEF Held, Mine, Claim
<1>. HIDE DEF x
<1>4. /\ \A q \in Calls \ {r} : Waits(q)
      /\ Kept /\ Grown /\ TypeOK'
      /\ pc'[r] = "update" /\ held'[r] = x /\ refund'[r] = refund[r]
      /\ orderly => OneResolver' /\ Numbered'
  <2>1. /\ "update" \in Labels
        /\ x.claim \in {0} \union DOMAIN claims
        /\ x.resolver \in {0} \union DOMAIN resolvers
        /\ UNCHANGED <<tables, refund, orderly>>
        /\ granted' \in {granted, granted \union {r}}
        /\ x \in Held
        /\ pc' = [pc EXCEPT ![r] = "update"] /\ held' = [held EXCEPT ![r] = x]
    BY <1>2, <1>3, CallFacts DEF Labels
  <2>. QED
    BY <2>1, LocalStep
<1>5. CallInv(r)' /\ Remembered(r)'
  BY <1>1, <1>2, <1>3, <1>4, CallFacts
  DEF Compare, CallInv, Remembered, Decided, ResolveLabels, SaveLabels, tables
<1>6. ASSUME orderly PROVE ListInv(r)'
  <2>1. Mine(r)' = Mine(r) /\ resolvers' = resolvers
    BY <1>2, <1>3, <1>4 DEF Mine, tables
  <2>. QED
    BY <1>3, <1>4, <1>6, <2>1, CallFacts DEF Compare, ListInv, Decided, SaveLabels
<1>. QED
  BY <1>1, <1>2, <1>4, <1>5, <1>6, StepOf, SameRefunds

\* An UPDATE of a claim's status leaves the other columns alone.
LEMMA ClaimSaved ==
  ASSUME IInv, NEW r \in Calls, SaveClaim(r)
  PROVE  /\ claims' \in Seq(Claim)
         /\ DOMAIN claims' = DOMAIN claims /\ Len(claims') = Len(claims)
         /\ \A i \in DOMAIN claims :
              /\ claims'[i].no = claims[i].no
              /\ claims'[i].owner = claims[i].owner
              /\ claims'[i].transit = claims[i].transit
<1>1. /\ held[r].claim \in DOMAIN claims /\ Mine(r) \in Claim
      /\ held[r].status \in {"IN_PROCESS", "REFUNDED", "ESCALATED"}
  BY CallFacts DEF SaveClaim, CallInv, SaveLabels, Decided, Mine
<1>. DEFINE e == [Mine(r) EXCEPT !.status = held[r].status]
<1>2. /\ e \in Claim
      /\ e.no = Mine(r).no /\ e.owner = Mine(r).owner /\ e.transit = Mine(r).transit
  BY <1>1 DEF Claim
<1>3. claims' = claims \/ claims' = [claims EXCEPT ![held[r].claim] = e]
  BY <1>1 DEF SaveClaim, Mine
<1>. HIDE DEF e
<1>4. CASE claims' = claims
  BY <1>4 DEF IInv, TypeOK
<1>5. CASE claims' = [claims EXCEPT ![held[r].claim] = e]
  BY <1>1, <1>2, <1>5, Replaced DEF IInv, TypeOK, Mine
<1>. QED
  BY <1>3, <1>4, <1>5

LEMMA SaveClaimStep ==
  ASSUME IInv, NEW r \in Calls, SaveClaim(r)
  PROVE  IInv'
<1>1. /\ InProgress(r) /\ refund[r] = NoRefund /\ held[r].claim \in DOMAIN claims
      /\ held[r].op \in {"process", "resolve"} /\ Mine(r) \in Claim
  BY CallFacts DEF SaveClaim, InProgress, CallInv, SaveLabels, Mine
<1>2. /\ UNCHANGED <<resolvers, vips, granted, orderly>>
      /\ refund' = [refund EXCEPT ![r] = Recorded(r)]
      /\ \/ /\ held[r].op = "process"
            /\ pc' = [pc EXCEPT ![r] = "answered"] /\ held' = [held EXCEPT ![r] = Blank]
         \/ /\ held[r].op = "resolve"
            /\ pc' = [pc EXCEPT ![r] = "saveResolver"] /\ held' = [held EXCEPT ![r] = held[r]]
  BY <1>1 DEF SaveClaim, EndsWithClaim, Finish, Goto, Hold, IInv, TypeOK
<1>3. /\ Recorded(r) \in Refund \union {NoRefund}
      /\ held[r].op = "process" => Recorded(r) = NoRefund
      /\ Recorded(r) # NoRefund =>
           /\ held[r].status = "REFUNDED"
           /\ Recorded(r).owner = Mine(r).owner
           /\ Recorded(r).transit = Mine(r).transit
           /\ Recorded(r).vip = held[r].vip
  BY <1>1, CallFacts DEF Recorded, Refund, Claim, Held, CallInv, SaveLabels, SaveClaim
<1>4. /\ \A q \in Calls \ {r} : Waits(q)
      /\ refund'[r] = Recorded(r) /\ refund' \in [Calls -> Refund \union {NoRefund}]
      /\ pc' \in [Calls -> Labels] /\ held' \in [Calls -> Held]
      /\ held[r].op = "process" => pc'[r] = "answered" /\ held'[r] = Blank
      /\ held[r].op = "resolve" => pc'[r] = "saveResolver" /\ held'[r] = held[r]
  BY <1>2, <1>3, BlankIsHeld DEF IInv, TypeOK, Waits, Labels
<1>5. TypeOK'
  <2>1. Blank.claim = 0 /\ Blank.resolver = 0
    BY DEF Blank
  <2>2. \A q \in Calls : /\ held'[q].claim \in {0} \union DOMAIN claims'
                        /\ held'[q].resolver \in {0} \union DOMAIN resolvers'
    BY <1>1, <1>2, <1>4, <2>1, ClaimSaved, CallFacts DEF Waits
  <2>. QED
    BY <1>2, <1>4, <2>2, ClaimSaved DEF IInv, TypeOK
<1>6. Kept /\ Grown
  BY <1>2, ClaimSaved DEF Kept, Grown
<1>7. /\ Mine(r)'.owner = Mine(r).owner \/ held[r].op = "process"
      /\ Mine(r)'.transit = Mine(r).transit \/ held[r].op = "process"
  BY <1>1, <1>4, ClaimSaved DEF Mine
<1>8. CallInv(r)' /\ Remembered(r)'
  <2>1. CASE held[r].op = "process"
    BY <1>3, <1>4, <2>1, Answered DEF Remembered
  <2>2. CASE held[r].op = "resolve"
    <3>1. /\ held[r].resolver \in DOMAIN resolvers'
          /\ held[r].claim \in DOMAIN claims'
          /\ held[r].status \in {"REFUNDED", "ESCALATED"}
      BY <1>1, <1>2, <2>2, ClaimSaved, CallFacts DEF SaveClaim, CallInv, Decided, SaveLabels
    <3>. QED
      BY <1>3, <1>4, <1>7, <2>2, <3>1
      DEF CallInv, Remembered, Decided, ResolveLabels, SaveLabels
  <2>. QED
    BY <1>1, <2>1, <2>2
<1>9. ASSUME orderly PROVE Numbered' /\ OneResolver' /\ ListInv(r)'
  <2>1. Numbered'
    <3>1. pc'[r] # "insert"
      BY <1>1, <1>4
    <3>. QED
      BY <1>4, <1>9, <3>1, ClaimSaved DEF IInv, OrderlyInv, Numbered, Waits
  <2>2. OneResolver'
    BY <1>2, <1>9 DEF IInv, OrderlyInv, OneResolver
  <2>3. ListInv(r)'
    BY <1>1, <1>2, <1>4, <1>7, <1>9, CallFacts
    DEF SaveClaim, ListInv, Decided, SaveLabels
  <2>. QED
    BY <2>1, <2>2, <2>3
<1>10. VipRefundsComeWithMiles'
  <2>1. Recorded(r) # NoRefund /\ Recorded(r).vip => r \in granted
    BY <1>3, CallFacts DEF SaveClaim, CallInv, SaveLabels
  <2>. QED
    BY <1>2, <1>4, <2>1 DEF IInv, VipRefundsComeWithMiles, Waits
<1>11. OneRefundPerTransit'
  <2>1. SUFFICES ASSUME orderly, Recorded(r) # NoRefund,
                        NEW q \in Calls \ {r}, refund[q] # NoRefund,
                        refund[q].owner = Mine(r).owner,
                        refund[q].transit = Mine(r).transit
                 PROVE  FALSE
    BY <1>2, <1>3, <1>4 DEF IInv, OneRefundPerTransit, Waits
  <2>2. held[r].op = "resolve" /\ held[r].status = "REFUNDED"
    BY <1>1, <1>3, <2>1
  <2>3. PICK i \in DOMAIN resolvers : /\ resolvers[i].client = Mine(r).owner
                                     /\ Mine(r).transit \in resolvers[i].transits
    BY <1>1, <2>1, CallFacts DEF IInv, OrderlyInv, OneAtATime, Remembered, InProgress
  <2>4. /\ held[r].resolver \in DOMAIN resolvers
        /\ resolvers[held[r].resolver].client = Mine(r).owner
        /\ Mine(r).transit \notin resolvers[held[r].resolver].transits
    BY <2>1, <2>2, CallFacts DEF SaveClaim, CallInv, ListInv, Decided, SaveLabels
  <2>. QED
    BY <2>1, <2>3, <2>4 DEF IInv, OrderlyInv, OneResolver
<1>. QED
  BY <1>1, <1>2, <1>4, <1>5, <1>6, <1>8, <1>9, <1>10, <1>11, StepOf

LEMMA SaveResolverStep ==
  ASSUME IInv, NEW r \in Calls, SaveResolver(r)
  PROVE  IInv'
<1>. DEFINE k == held[r].resolver
            e == [resolvers[k] EXCEPT !.transits = held[r].list]
<1>1. /\ InProgress(r) /\ k \in DOMAIN resolvers /\ resolvers[k] \in Resolver
      /\ held[r].list \subseteq Transits /\ held[r].claim \in DOMAIN claims
  BY CallFacts
  DEF SaveResolver, InProgress, CallInv, Decided, ResolveLabels, Held
<1>2. e \in Resolver /\ e.client = resolvers[k].client /\ e.transits = held[r].list
  BY <1>1 DEF Resolver
<1>3. /\ pc' = [pc EXCEPT ![r] = "answered"] /\ held' = [held EXCEPT ![r] = Blank]
      /\ UNCHANGED <<claims, vips, granted, refund, orderly>>
      /\ resolvers' = [resolvers EXCEPT ![k] = e]
  BY DEF SaveResolver, Finish, Goto, Hold, history
<1>. HIDE DEF e, k
<1>4. /\ resolvers' \in Seq(Resolver) /\ DOMAIN resolvers' = DOMAIN resolvers
      /\ \A i \in DOMAIN resolvers : resolvers'[i] = IF i = k THEN e ELSE resolvers[i]
  BY <1>1, <1>2, <1>3, Replaced DEF IInv, TypeOK
<1>5. /\ \A q \in Calls \ {r} : Waits(q)
      /\ pc'[r] = "answered" /\ held'[r] = Blank /\ refund'[r] = refund[r]
      /\ pc' \in [Calls -> Labels] /\ held' \in [Calls -> Held]
  BY <1>3, BlankIsHeld DEF IInv, TypeOK, Waits, Labels
<1>6. TypeOK'
  <2>1. Blank.claim = 0 /\ Blank.resolver = 0
    BY DEF Blank
  <2>2. \A q \in Calls : /\ held'[q].claim \in {0} \union DOMAIN claims'
                        /\ held'[q].resolver \in {0} \union DOMAIN resolvers'
    BY <1>3, <1>4, <1>5, <2>1, CallFacts DEF Waits
  <2>. QED
    BY <1>3, <1>4, <1>5, <2>2 DEF IInv, TypeOK
<1>7. Kept
  BY <1>2, <1>3, <1>4 DEF Kept
<1>8. CallInv(r)' /\ ListInv(r)'
  BY <1>5, Answered
<1>9. ASSUME orderly
      PROVE  Grown /\ Numbered' /\ OneResolver' /\ Remembered(r)'
  <2>1. /\ resolvers[k].client = Mine(r).owner
        /\ held[r].list = resolvers[k].transits \union {Mine(r).transit}
    BY <1>9, CallFacts DEF SaveResolver, ListInv, Decided, k
  <2>2. Grown
    BY <1>2, <1>4, <2>1 DEF Grown
  <2>3. Numbered'
    BY <1>3, <1>5, <1>9 DEF IInv, OrderlyInv, Numbered, Waits
  <2>4. OneResolver'
    BY <1>2, <1>4, <1>9 DEF IInv, OrderlyInv, OneResolver
  <2>5. Remembered(r)'
    <3>1. refund[r] # NoRefund => /\ refund[r].owner = Mine(r).owner
                                 /\ refund[r].transit = Mine(r).transit
      BY CallFacts DEF SaveResolver, CallInv
    <3>2. /\ k \in DOMAIN resolvers'
          /\ resolvers'[k].client = Mine(r).owner
          /\ Mine(r).transit \in resolvers'[k].transits
      BY <1>1, <1>2, <1>4, <2>1
    <3>. QED
      BY <1>5, <3>1, <3>2 DEF Remembered
  <2>. QED
    BY <2>2, <2>3, <2>4, <2>5
<1>. QED
  BY <1>1, <1>3, <1>5, <1>6, <1>7, <1>8, <1>9, StepOf, SameRefunds

LEMMA CreateStep ==
  ASSUME IInv, NEW r \in Calls, Create(r)
  PROVE  IInv'
<1>1. PICK x \in Claim : x.no = held[r].no /\ claims' = Append(claims, x)
  <2>1. held[r].no \in Nat
    BY CallFacts DEF Held
  <2>2. PICK o \in Clients, t \in Transits, d \in BOOLEAN :
          claims' = Append(claims, [ no |-> held[r].no, owner |-> o, transit |-> t,
                                     dear |-> d, status |-> "NEW" ])
    BY DEF Create
  <2>. QED
    BY <2>1, <2>2 DEF Claim
<1>2. /\ InProgress(r) /\ refund[r] = NoRefund
      /\ pc' = [pc EXCEPT ![r] = "answered"] /\ held' = [held EXCEPT ![r] = Blank]
      /\ UNCHANGED <<resolvers, vips, granted, refund, orderly>>
  BY CallFacts DEF Create, InProgress, CallInv, Finish, Goto, Hold, history
<1>3. /\ claims' \in Seq(Claim)
      /\ Len(claims') = Len(claims) + 1 /\ Len(claims) \in Nat
      /\ DOMAIN claims = 1 .. Len(claims)
      /\ DOMAIN claims' = 1 .. Len(claims) + 1
      /\ \A i \in DOMAIN claims : claims'[i] = claims[i]
      /\ claims'[Len(claims) + 1] = x
  BY <1>1, Appended DEF IInv, TypeOK
<1>4. /\ \A q \in Calls \ {r} : Waits(q)
      /\ pc'[r] = "answered" /\ held'[r] = Blank /\ refund'[r] = refund[r]
      /\ pc' \in [Calls -> Labels] /\ held' \in [Calls -> Held]
  BY <1>2, BlankIsHeld DEF IInv, TypeOK, Waits, Labels
<1>5. TypeOK'
  <2>1. Blank.claim = 0 /\ Blank.resolver = 0
    BY DEF Blank
  <2>2. \A q \in Calls : /\ held'[q].claim \in {0} \union DOMAIN claims'
                        /\ held'[q].resolver \in {0} \union DOMAIN resolvers'
    BY <1>2, <1>3, <1>4, <2>1, CallFacts DEF Waits
  <2>. QED
    BY <1>2, <1>3, <1>4, <2>2 DEF IInv, TypeOK
<1>6. Kept /\ Grown
  BY <1>2, <1>3 DEF Kept, Grown
<1>7. CallInv(r)' /\ ListInv(r)' /\ Remembered(r)'
  BY <1>2, <1>4, Answered DEF Remembered
<1>8. ASSUME orderly PROVE Numbered' /\ OneResolver'
  <2>1. x.no = ClaimNumber(Len(claims))
    BY <1>1, <1>8 DEF Create, IInv, OrderlyInv, Numbered
  <2>2. ASSUME NEW i \in DOMAIN claims' PROVE claims'[i].no = ClaimNumber(i - 1)
    BY <1>3, <1>8, <2>1 DEF IInv, OrderlyInv, Numbered
  <2>3. \A q \in Calls : pc'[q] # "insert"
    BY <1>4, <1>8 DEF IInv, OrderlyInv, OneAtATime, InProgress, Create, Waits
  <2>4. OneResolver'
    BY <1>2, <1>8 DEF IInv, OrderlyInv, OneResolver
  <2>. QED
    BY <2>2, <2>3, <2>4 DEF Numbered
<1>. QED
  BY <1>2, <1>4, <1>5, <1>6, <1>7, <1>8, StepOf, SameRefunds

LEMMA BeginStep ==
  ASSUME IInv, NEW r \in Calls, Begin(r)
  PROVE  IInv'
<1>. DEFINE Starts(label, x) ==
        /\ pc' = [pc EXCEPT ![r] = label] /\ held' = [held EXCEPT ![r] = x]
        /\ x.claim \in {0} \union DOMAIN claims /\ x.resolver = 0 /\ x.list = {}
        /\ label # "count" => x.claim \in DOMAIN claims
        /\ label = "compare" => x.op = "process" /\ x.status = "IN_PROCESS"
        /\ label = "findResolver" => x.op = "resolve"
<1>1. PICK label \in {"count", "compare", "findResolver"}, x \in Held :
        Starts(label, x)
  <2>1. \A c \in DOMAIN claims : c \in Nat
    BY LenProperties DEF IInv, TypeOK
  <2>2. CASE /\ Goto(r, "count")
             /\ Hold(r, [Blank EXCEPT !.op = "create"])
    <3>. DEFINE x == [Blank EXCEPT !.op = "create"]
    <3>1. x \in Held /\ x.claim = 0 /\ x.resolver = 0 /\ x.list = {}
      BY DEF Blank, Held
    <3>. QED
      BY <2>2, <3>1 DEF Goto, Hold
  <2>3. ASSUME NEW c \in DOMAIN claims, Goto(r, "compare"),
               Hold(r, [Blank EXCEPT !.op = "process", !.claim = c,
                                     !.status = "IN_PROCESS"])
        PROVE  \E label \in {"count", "compare", "findResolver"}, x \in Held :
                 Starts(label, x)
    <3>. DEFINE x == [Blank EXCEPT !.op = "process", !.claim = c,
                                   !.status = "IN_PROCESS"]
    <3>1. /\ x \in Held /\ x.claim = c /\ x.resolver = 0 /\ x.list = {}
          /\ x.op = "process" /\ x.status = "IN_PROCESS"
      BY <2>1 DEF Blank, Held
    <3>. QED
      BY <2>3, <3>1 DEF Goto, Hold
  <2>4. ASSUME NEW c \in DOMAIN claims, Goto(r, "findResolver"),
               Hold(r, [Blank EXCEPT !.op = "resolve", !.claim = c])
        PROVE  \E label \in {"count", "compare", "findResolver"}, x \in Held :
                 Starts(label, x)
    <3>. DEFINE x == [Blank EXCEPT !.op = "resolve", !.claim = c]
    <3>1. /\ x \in Held /\ x.claim = c /\ x.resolver = 0 /\ x.list = {}
          /\ x.op = "resolve"
      BY <2>1 DEF Blank, Held
    <3>. QED
      BY <2>4, <3>1 DEF Goto, Hold
  <2>. QED
    BY <2>2, <2>3, <2>4 DEF Begin
<1>2. /\ pc[r] = "idle" /\ orderly' = (orderly /\ Quiet)
      /\ UNCHANGED <<tables, granted, refund>> /\ refund[r] = NoRefund
  BY CallFacts DEF Begin, CallInv
<1>3. /\ \A q \in Calls \ {r} : Waits(q)
      /\ pc'[r] = label /\ held'[r] = x
      /\ pc' \in [Calls -> Labels] /\ held' \in [Calls -> Held]
  BY <1>1, <1>2 DEF IInv, TypeOK, Waits, Labels
<1>4. TypeOK'
  <2>1. \A q \in Calls : /\ held'[q].claim \in {0} \union DOMAIN claims'
                        /\ held'[q].resolver \in {0} \union DOMAIN resolvers'
    BY <1>1, <1>2, <1>3, CallFacts DEF Waits, tables
  <2>. QED
    BY <1>2, <1>3, <2>1 DEF IInv, TypeOK, tables
<1>5. ASSUME NEW q \in Calls PROVE CallInv(q)'
  <2>1. Kept
    BY <1>2 DEF Kept, tables
  <2>2. CallInv(r)'
    BY <1>1, <1>2, <1>3 DEF CallInv, Decided, ResolveLabels, SaveLabels, tables
  <2>. QED
    BY <1>3, <2>1, <2>2, OtherCall DEF IInv
<1>6. ASSUME orderly' PROVE OrderlyInv'
  <2>1. \A q \in Calls \ {r} : pc'[q] \in {"idle", "answered"}
    BY <1>2, <1>3, <1>6 DEF Quiet, InProgress, Waits
  <2>2. OneAtATime'
    BY <2>1 DEF OneAtATime, InProgress
  <2>3. Numbered' /\ OneResolver'
    BY <1>1, <1>2, <1>3, <1>6, <2>1
    DEF IInv, OrderlyInv, Numbered, OneResolver, tables
  <2>4. ASSUME NEW q \in Calls PROVE ListInv(q)'
    BY <1>1, <1>3, <2>1 DEF ListInv, Decided, SaveLabels
  <2>5. ASSUME NEW q \in Calls PROVE Remembered(q)'
    BY <1>2, <1>3, <1>6 DEF IInv, OrderlyInv, Remembered, Waits, tables
  <2>. QED
    BY <2>2, <2>3, <2>4, <2>5 DEF OrderlyInv
<1>. QED
  BY <1>2, <1>4, <1>5, <1>6, SameRefunds DEF IInv

LEMMA ChangeTypeStep ==
  ASSUME IInv, ChangeType
  PROVE  IInv'
<1>1. /\ vips' \subseteq Clients
      /\ UNCHANGED <<claims, resolvers, pc, held, granted, refund, orderly>>
  BY DEF ChangeType, history, IInv, TypeOK
<1>2. TypeOK'
  BY <1>1 DEF IInv, TypeOK
<1>3. \A q \in Calls : CallInv(q)'
  BY <1>1 DEF IInv, CallInv, Decided, Mine
<1>4. orderly' => OrderlyInv'
  BY <1>1 DEF IInv, OrderlyInv, OneAtATime, Numbered, OneResolver, ListInv,
              Remembered, Decided, Mine, InProgress
<1>. QED
  BY <1>1, <1>2, <1>3, <1>4, SameRefunds DEF IInv

LEMMA CrashStep ==
  ASSUME IInv, Crash
  PROVE  IInv'
<1>1. /\ UNCHANGED <<claims, resolvers, vips, granted, refund>> /\ orderly' = FALSE
      /\ pc' = [r \in Calls |-> IF InProgress(r) THEN "answered" ELSE pc[r]]
      /\ held' = [r \in Calls |-> Blank]
  BY DEF Crash, tables
<1>2. TypeOK'
  <2>1. pc' \in [Calls -> Labels] /\ held' \in [Calls -> Held]
    BY <1>1, BlankIsHeld DEF IInv, TypeOK, Labels
  <2>2. \A r \in Calls : held'[r].claim = 0 /\ held'[r].resolver = 0
    BY <1>1 DEF Blank
  <2>. QED
    BY <1>1, <2>1, <2>2 DEF IInv, TypeOK
<1>3. ASSUME NEW q \in Calls PROVE CallInv(q)'
  <2>1. pc'[q] \in {"idle", "answered"} /\ (pc'[q] = "idle" => pc[q] = "idle")
    BY <1>1 DEF InProgress
  <2>. QED
    BY <1>1, <2>1, CallFacts DEF CallInv, Decided, ResolveLabels, SaveLabels
<1>. QED
  BY <1>1, <1>2, <1>3, SameRefunds DEF IInv

-----------------------------------------------------------------------------
(* Theorems                                                                 *)

LEMMA InitIInv == Init => IInv
<1>. SUFFICES ASSUME Init PROVE IInv
  OBVIOUS
<1>1. /\ claims = <<>> /\ resolvers = <<>> /\ granted = {} /\ vips \subseteq Clients
      /\ \A r \in Calls : pc[r] = "idle" /\ held[r] = Blank /\ refund[r] = NoRefund
  BY DEF Init
<1>2. TypeOK
  <2>1. Blank.claim = 0 /\ Blank.resolver = 0
    BY DEF Blank
  <2>2. claims \in Seq(Claim) /\ resolvers \in Seq(Resolver)
    BY <1>1
  <2>3. pc \in [Calls -> Labels] /\ held \in [Calls -> Held]
    BY BlankIsHeld DEF Init, Labels
  <2>. QED
    BY <1>1, <2>1, <2>2, <2>3 DEF Init, TypeOK
<1>3. \A r \in Calls : CallInv(r)
  BY <1>1 DEF CallInv, Decided, ResolveLabels, SaveLabels
<1>4. OrderlyInv
  BY <1>1 DEF OrderlyInv, OneAtATime, Numbered, OneResolver, ListInv, Remembered,
              Decided, SaveLabels, InProgress
<1>5. VipRefundsComeWithMiles /\ OneRefundPerTransit
  BY <1>1 DEF VipRefundsComeWithMiles, OneRefundPerTransit
<1>. QED
  BY <1>2, <1>3, <1>4, <1>5 DEF IInv

LEMMA NextIInv ==
  ASSUME IInv, [Next]_vars
  PROVE  IInv'
<1>1. ASSUME NEW r \in Calls, Step(r) PROVE IInv'
  BY <1>1, BeginStep, GenerateStep, CreateStep, FindResolverStep,
     CreateResolverStep, ResolveStep, GrantMilesStep, CompareStep,
     SaveClaimStep, SaveResolverStep DEF Step
<1>2. CASE UNCHANGED vars
  <2>1. UNCHANGED <<claims, resolvers, vips, pc, held, granted, refund, orderly>>
    BY <1>2 DEF vars, tables, history
  <2>2. TypeOK'
    BY <2>1 DEF IInv, TypeOK
  <2>3. \A q \in Calls : CallInv(q)'
    BY <2>1 DEF IInv, CallInv, Decided, Mine
  <2>4. orderly' => OrderlyInv'
    BY <2>1 DEF IInv, OrderlyInv, OneAtATime, Numbered, OneResolver, ListInv,
                Remembered, Decided, Mine, InProgress
  <2>. QED
    BY <2>1, <2>2, <2>3, <2>4, SameRefunds DEF IInv
<1>. QED
  BY <1>1, <1>2, ChangeTypeStep, CrashStep DEF Next

\* However calls interleave, and wherever the server dies, the invariant holds.
THEOREM Invariance == Spec => []IInv
BY InitIInv, NextIInv, PTL DEF Spec

\* TypeOK: the rows of both tables and what a call holds keep their shape.
THEOREM TypeCorrect == Spec => []TypeOK
<1>1. IInv => TypeOK
  BY DEF IInv
<1>. QED
  BY <1>1, Invariance, PTL

\* VipRefundsComeWithMiles: in every interleaving, and across crashes, a VIP's
\* refund is recorded only after its miles were registered.
THEOREM VipRefundsHaveMiles == Spec => []VipRefundsComeWithMiles
<1>1. IInv => VipRefundsComeWithMiles
  BY DEF IInv
<1>. QED
  BY <1>1, Invariance, PTL

\* OneRefundPerTransit: tryToResolveAutomatically refunds a client's transit
\* once, however many claims are made for it, as long as calls come one by one.
THEOREM TransitRefundedOnce == Spec => []OneRefundPerTransit
<1>1. IInv => OneRefundPerTransit
  BY DEF IInv
<1>. QED
  BY <1>1, Invariance, PTL

\* ClaimNumbersIdentify: the generated numbers identify claims, as long as
\* calls come one by one.
THEOREM ClaimsAreNumbered == Spec => []ClaimNumbersIdentify
<1>1. IInv => ClaimNumbersIdentify
  <2>1. SUFFICES ASSUME IInv, orderly,
                        NEW i \in DOMAIN claims, NEW j \in DOMAIN claims,
                        claims[i].no = claims[j].no
                 PROVE  i = j
    BY DEF ClaimNumbersIdentify
  <2>2. /\ claims[i].no = ClaimNumber(i - 1) /\ claims[j].no = ClaimNumber(j - 1)
        /\ i - 1 \in Nat /\ j - 1 \in Nat
    BY <2>1, LenProperties DEF IInv, TypeOK, OrderlyInv, Numbered
  <2>3. i - 1 = j - 1
    BY <2>1, <2>2, NumbersDiffer
  <2>. QED
    BY <2>3, LenProperties DEF IInv, TypeOK
<1>. QED
  BY <1>1, Invariance, PTL

-----------------------------------------------------------------------------
(* Dear refunds.  A dear transit is refunded only while the list it is in   *)
(* is short enough, and what was refunded before is in that list: so that   *)
(* one short list holds all the dear transits a client was ever refunded.   *)

Short(S) == IsFiniteSet(S) /\ Cardinality(S) <= FreeClaims

\* Where the decision to refund is taken and not yet recorded.
Refunding(r) ==
  pc[r] \in {"grant", "compare", "update"} /\ held[r].status = "REFUNDED"

DearRefunds(c) ==
  {r \in Calls : refund[r] # NoRefund /\ refund[r].owner = c /\ refund[r].dear}

ListsFinite ==
  /\ \A i \in DOMAIN resolvers : IsFiniteSet(resolvers[i].transits)
  /\ \A r \in Calls : IsFiniteSet(held[r].list)

DearInv ==
  /\ ListsFinite
  /\ orderly =>
       /\ \A r \in Calls : Refunding(r) /\ Mine(r).dear => Short(held[r].list)
       /\ \A c \in Clients : \E S \in SUBSET Transits :
            Short(S) /\ \A r \in DearRefunds(c) : refund[r].transit \in S

\* No step makes a claim dear or cheap.
LEMMA DearStays ==
  ASSUME IInv, [Next]_vars
  PROVE  /\ DOMAIN claims \subseteq DOMAIN claims'
         /\ \A i \in DOMAIN claims : claims'[i].dear = claims[i].dear
<1>2. CASE UNCHANGED claims
  BY <1>2
<1>3. ASSUME NEW r \in Calls, Create(r)
      PROVE  /\ DOMAIN claims \subseteq DOMAIN claims'
             /\ \A i \in DOMAIN claims : claims'[i] = claims[i]
  <2>1. PICK e : claims' = Append(claims, e)
    BY <1>3 DEF Create
  <2>2. DOMAIN claims = 1 .. Len(claims) /\ Len(claims) \in Nat
    BY LenProperties DEF IInv, TypeOK
  <2>. QED
    BY <2>1, <2>2 DEF IInv, TypeOK
<1>4. ASSUME NEW r \in Calls, SaveClaim(r)
      PROVE  /\ DOMAIN claims = DOMAIN claims'
             /\ \A i \in DOMAIN claims : claims'[i].dear = claims[i].dear
  <2>1. \A i \in DOMAIN claims : claims[i] \in Claim
    BY LenProperties DEF IInv, TypeOK
  <2>. QED
    BY <1>4, <2>1 DEF SaveClaim, Claim
<1>5. UNCHANGED claims \/ \E r \in Calls : Create(r) \/ SaveClaim(r)
  BY DEF Next, Step, Begin, Generate, FindResolver, CreateResolver, Resolve,
         GrantMiles, Compare, SaveResolver, ChangeType, Crash, tables, vars
<1>. QED
  BY <1>2, <1>3, <1>4, <1>5

LEMMA ListsStayFinite ==
  ASSUME IInv, ListsFinite, [Next]_vars
  PROVE  ListsFinite'
<1>1. IsFiniteSet({})
  BY FS_EmptySet
<1>2. \A S, x : IsFiniteSet(S) => IsFiniteSet(S \union {x})
  BY FS_AddElement
<1>3. ASSUME NEW i \in DOMAIN resolvers' PROVE IsFiniteSet(resolvers'[i].transits)
  <2>1. CASE UNCHANGED resolvers
    BY <2>1 DEF ListsFinite
  <2>2. ASSUME NEW r \in Calls, CreateResolver(r)
        PROVE  IsFiniteSet(resolvers'[i].transits)
    <3>1. /\ resolvers' = Append(resolvers, [client |-> Mine(r).owner, transits |-> {}])
          /\ resolvers \in Seq(Resolver)
      BY <2>2 DEF CreateResolver, IInv, TypeOK
    <3>2. /\ DOMAIN resolvers = 1 .. Len(resolvers) /\ Len(resolvers) \in Nat
          /\ DOMAIN resolvers' = 1 .. Len(resolvers) + 1
      BY <3>1, LenProperties
    <3>3. CASE i \in DOMAIN resolvers
      BY <3>1, <3>2, <3>3 DEF ListsFinite
    <3>4. CASE i = Len(resolvers) + 1
      BY <1>1, <3>1, <3>2, <3>4
    <3>. QED
      BY <3>2, <3>3, <3>4
  <2>3. ASSUME NEW r \in Calls, SaveResolver(r)
        PROVE  IsFiniteSet(resolvers'[i].transits)
    <3>1. \A k \in DOMAIN resolvers : resolvers[k] \in Resolver
      BY LenProperties DEF IInv, TypeOK
    <3>. QED
      BY <2>3, <3>1 DEF SaveResolver, ListsFinite, Resolver
  <2>4. UNCHANGED resolvers \/ \E r \in Calls : CreateResolver(r) \/ SaveResolver(r)
    BY DEF Next, Step, Begin, Generate, Create, FindResolver, Resolve,
           GrantMiles, Compare, SaveClaim, ChangeType, Crash, tables, vars
  <2>. QED
    BY <2>1, <2>2, <2>3, <2>4
<1>4. ASSUME NEW q \in Calls PROVE IsFiniteSet(held'[q].list)
  <2>0. held \in [Calls -> Held] /\ IsFiniteSet(held[q].list)
    BY DEF IInv, TypeOK, ListsFinite
  <2>1. ASSUME NEW r \in Calls, Step(r) PROVE IsFiniteSet(held'[q].list)
    <3>1. \/ held'[q].list \in {held[q].list, {}}
          \/ \E i \in DOMAIN resolvers : held'[q].list = resolvers[i].transits
          \/ held'[q].list = held[q].list \union {Mine(q).transit}
      <4>1. CASE Begin(r)
        BY <2>0, <4>1 DEF Begin, Hold, Blank, Held
      <4>2. CASE Generate(r) \/ Create(r) \/ CreateResolver(r) \/ GrantMiles(r)
        BY <2>0, <4>2
           DEF Generate, Create, CreateResolver, GrantMiles, Hold, Finish, Blank, Held
      <4>3. CASE FindResolver(r)
        BY <2>0, <4>3 DEF FindResolver, Hold, Held
      <4>4. CASE Resolve(r)
        BY <2>0, <4>4 DEF Resolve, Hold, Held
      <4>5. CASE Compare(r) \/ SaveClaim(r) \/ SaveResolver(r)
        BY <2>0, <4>5 DEF Compare, SaveClaim, SaveResolver, Hold, Finish, Blank, Held
      <4>. QED
        BY <2>1, <4>1, <4>2, <4>3, <4>4, <4>5 DEF Step
    <3>2. CASE held'[q].list \in {held[q].list, {}}
      BY <1>1, <2>0, <3>2
    <3>3. ASSUME NEW i \in DOMAIN resolvers, held'[q].list = resolvers[i].transits
          PROVE  IsFiniteSet(held'[q].list)
      BY <3>3 DEF ListsFinite
    <3>4. CASE held'[q].list = held[q].list \union {Mine(q).transit}
      <4>1. IsFiniteSet(held[q].list \union {Mine(q).transit})
        BY <1>2, <2>0, Zenon
      <4>. QED
        BY <3>4, <4>1, Zenon
    <3>. QED
      BY <3>1, <3>2, <3>3, <3>4
  <2>2. CASE ChangeType \/ UNCHANGED vars
    BY <2>0, <2>2 DEF ChangeType, vars
  <2>3. CASE Crash
    BY <1>1, <2>3 DEF Crash, Blank
  <2>. QED
    BY <2>1, <2>2, <2>3 DEF Next
<1>. QED
  BY <1>3, <1>4 DEF ListsFinite

\* A refund that is being saved was decided by Resolve, with the list that is
\* held since.
LEMMA RefundingShort ==
  ASSUME IInv, DearInv, [Next]_vars, orderly', NEW q \in Calls,
         Refunding(q)', Mine(q)'.dear
  PROVE  Short(held'[q].list)
<1>1. /\ orderly /\ pc \in [Calls -> Labels] /\ held \in [Calls -> Held]
      /\ held[q] \in Held
  <2>1. orderly
    BY DEF Next, Step, Begin, Generate, Create, FindResolver, CreateResolver,
           Resolve, GrantMiles, Compare, SaveClaim, SaveResolver, ChangeType,
           Crash, tables, history, vars
  <2>. QED
    BY <2>1 DEF IInv, TypeOK
<1>2. CASE Refunding(q) /\ held'[q].list = held[q].list /\ held'[q].claim = held[q].claim
  <2>1. held[q].claim \in DOMAIN claims
    BY <1>2, CallFacts DEF CallInv, Refunding, ResolveLabels, SaveLabels
  <2>2. Mine(q).dear
    BY <1>2, <2>1, DearStays DEF Mine
  <2>. QED
    BY <1>1, <1>2, <2>2 DEF DearInv
<1>3. CASE Resolve(q)
  <2>1. PICK many \in BOOLEAN :
          LET claim == Mine(q)
              vip == claim.owner \in vips
              status == IF Refunds(claim, held[q].list, vip, many)
                        THEN "REFUNDED" ELSE "ESCALATED"
          IN Hold(q, [held[q] EXCEPT !.list = @ \union {claim.transit},
                                     !.status = status, !.vip = vip])
    BY <1>3 DEF Resolve
  <2>2. /\ held'[q].list = held[q].list \union {Mine(q).transit}
        /\ held'[q].claim = held[q].claim
        /\ held'[q].status = IF Refunds(Mine(q), held[q].list, Mine(q).owner \in vips, many)
                             THEN "REFUNDED" ELSE "ESCALATED"
    BY <1>1, <2>1 DEF Hold, Held
  <2>3. Mine(q)' = Mine(q)
    BY <1>3, <2>2 DEF Resolve, Mine, tables
  <2>4. Refunds(Mine(q), held[q].list, Mine(q).owner \in vips, many) /\ Mine(q).dear
    BY <2>2, <2>3 DEF Refunding
  <2>5. Cardinality(held'[q].list) <= FreeClaims
    BY <2>2, <2>4 DEF Refunds
  <2>6. IsFiniteSet(held'[q].list)
    BY ListsStayFinite DEF DearInv, ListsFinite
  <2>. QED
    BY <2>5, <2>6 DEF Short
<1>4. ASSUME NEW r \in Calls, Step(r), ~Resolve(q)
      PROVE  Refunding(q) /\ held'[q].list = held[q].list /\ held'[q].claim = held[q].claim
  <2>1. pc'[q] \in {"grant", "compare", "update"} /\ held'[q].status = "REFUNDED"
    BY DEF Refunding
  <2>2. CASE q # r
    BY <1>1, <1>4, <2>1, <2>2
       DEF Step, Begin, Generate, Create, FindResolver, CreateResolver, Resolve,
           GrantMiles, Compare, SaveClaim, SaveResolver, Goto, Hold, Finish, Refunding
  <2>3. CASE q = r
    <3>1. CASE Begin(r)
      BY <1>1, <2>1, <2>3, <3>1 DEF Begin, Goto, Hold, Blank
    <3>2. CASE Generate(r) \/ Create(r) \/ FindResolver(r) \/ CreateResolver(r)
      BY <1>1, <2>1, <2>3, <3>2
         DEF Generate, Create, FindResolver, CreateResolver, Goto, Finish
    <3>3. CASE GrantMiles(r) \/ Compare(r)
      BY <1>1, <2>1, <2>3, <3>3
         DEF GrantMiles, Compare, Goto, Hold, Finish, Refunding, Held
    <3>4. CASE SaveClaim(r) \/ SaveResolver(r)
      BY <1>1, <2>1, <2>3, <3>4 DEF SaveClaim, SaveResolver, Goto, Finish
    <3>. QED
      BY <1>4, <2>3, <3>1, <3>2, <3>3, <3>4 DEF Step
  <2>. QED
    BY <2>2, <2>3
<1>5. CASE ChangeType \/ UNCHANGED vars
  BY <1>2, <1>5 DEF ChangeType, vars, Refunding
<1>. QED
  BY <1>2, <1>3, <1>4, <1>5 DEF Next, Crash

\* The one step that records a refund: its list holds all the client had.
LEMMA RefundRecorded ==
  ASSUME IInv, DearInv, orderly, NEW r \in Calls, SaveClaim(r), NEW c \in Clients
  PROVE  \E S \in SUBSET Transits :
           Short(S) /\ \A q \in DearRefunds(c)' : refund'[q].transit \in S
<1>1. /\ held[r] \in Held /\ Mine(r) \in Claim /\ held[r].claim \in DOMAIN claims
      /\ refund' = [refund EXCEPT ![r] = Recorded(r)]
      /\ refund \in [Calls -> Refund \union {NoRefund}]
  BY CallFacts DEF SaveClaim, CallInv, SaveLabels, Mine, IInv, TypeOK
<1>2. CASE Recorded(r) # NoRefund /\ Mine(r).owner = c /\ Mine(r).dear
  <2>1. Refunding(r) /\ Recorded(r).transit = Mine(r).transit
    BY <1>2 DEF SaveClaim, Recorded, Refunding
  <2>2. Short(held[r].list) /\ held[r].list \subseteq Transits
    BY <1>1, <1>2, <2>1 DEF DearInv, Held
  <2>3. /\ held[r].op = "resolve" /\ held[r].resolver \in DOMAIN resolvers
        /\ held[r].list = resolvers[held[r].resolver].transits \union {Mine(r).transit}
        /\ resolvers[held[r].resolver].client = c
    BY <1>2, <2>1, CallFacts
       DEF SaveClaim, CallInv, ListInv, Decided, SaveLabels, Refunding
  <2>4. ASSUME NEW q \in DearRefunds(c)', q # r
        PROVE  refund'[q].transit \in held[r].list
    <3>1. q \in Calls /\ refund[q] # NoRefund /\ refund[q].owner = c /\ refund'[q] = refund[q]
      BY <1>1, <2>4 DEF DearRefunds
    <3>2. pc[q] # "saveResolver"
      BY <2>4, <3>1 DEF SaveClaim, IInv, OrderlyInv, OneAtATime, InProgress
    <3>3. PICK i \in DOMAIN resolvers : /\ resolvers[i].client = c
                                       /\ refund[q].transit \in resolvers[i].transits
      BY <3>1, <3>2, CallFacts DEF Remembered
    <3>4. i = held[r].resolver
      BY <2>3, <3>3 DEF IInv, OrderlyInv, OneResolver
    <3>. QED
      BY <2>3, <3>1, <3>3, <3>4
  <2>5. refund'[r].transit \in held[r].list
    BY <1>1, <2>1, <2>3
  <2>. QED
    BY <2>2, <2>4, <2>5
<1>3. CASE ~(Recorded(r) # NoRefund /\ Mine(r).owner = c /\ Mine(r).dear)
  <2>1. r \notin DearRefunds(c)'
    BY <1>1, <1>3 DEF DearRefunds, Recorded
  <2>2. \A q \in DearRefunds(c)' : q \in DearRefunds(c) /\ refund'[q] = refund[q]
    BY <1>1, <2>1 DEF DearRefunds
  <2>. QED
    BY <2>2 DEF DearInv
<1>. QED
  BY <1>2, <1>3

LEMMA DearInvariance == Spec => []DearInv
<1>1. Init => DearInv
  <2>. SUFFICES ASSUME Init PROVE DearInv
    OBVIOUS
  <2>1. ListsFinite
    <3>1. DOMAIN resolvers = {} /\ \A r \in Calls : held[r].list = {}
      BY DEF Init, Blank
    <3>2. IsFiniteSet({})
      BY FS_EmptySet
    <3>. QED
      BY <3>1, <3>2 DEF ListsFinite
  <2>2. Short({})
    BY FS_EmptySet, ClaimAssumption DEF Short
  <2>3. \A c \in Clients : DearRefunds(c) = {}
    BY DEF Init, DearRefunds
  <2>. QED
    BY <2>1, <2>2, <2>3 DEF Init, DearInv, Refunding
<1>2. IInv /\ DearInv /\ [Next]_vars => DearInv'
  <2>. SUFFICES ASSUME IInv, DearInv, [Next]_vars PROVE DearInv'
    OBVIOUS
  <2>1. ListsFinite'
    BY ListsStayFinite DEF DearInv
  <2>2. ASSUME orderly', NEW c \in Clients
        PROVE  \E S \in SUBSET Transits :
                 Short(S) /\ \A r \in DearRefunds(c)' : refund'[r].transit \in S
    <3>1. orderly /\ (UNCHANGED refund \/ \E r \in Calls : SaveClaim(r))
      BY <2>2 DEF Next, Step, Begin, Generate, Create, FindResolver, CreateResolver,
           Resolve, GrantMiles, Compare, SaveClaim, SaveResolver, ChangeType,
           Crash, tables, history, vars
    <3>2. CASE UNCHANGED refund
      BY <3>1, <3>2 DEF DearInv, DearRefunds
    <3>. QED
      BY <3>1, <3>2, RefundRecorded
  <2>. QED
    BY <2>1, <2>2, RefundingShort DEF DearInv, Short
<1>. QED
  BY <1>1, <1>2, Invariance, PTL DEF Spec

\* FewDearRefunds: as long as calls come one by one, a client is refunded no
\* more dear transits than tryToResolveAutomatically gives away, whatever else
\* it claims and however its type changes.
THEOREM DearRefundsAreFew == Spec => []FewDearRefunds
<1>1. IInv /\ DearInv => FewDearRefunds
  <2>. SUFFICES ASSUME IInv, DearInv, orderly, NEW c \in Clients
                PROVE  Cardinality(DearRefunds(c)) <= FreeClaims
    BY DEF FewDearRefunds, DearRefunds
  <2>1. PICK S \in SUBSET Transits :
          Short(S) /\ \A r \in DearRefunds(c) : refund[r].transit \in S
    BY DEF DearInv
  <2>. DEFINE D == DearRefunds(c)
              f == [r \in D |-> refund[r].transit]
  <2>2. f \in Injection(D, S)
    <3>1. f \in [D -> S]
      BY <2>1
    <3>2. \A q, r \in D : f[q] = f[r] => q = r
      BY DEF IInv, OneRefundPerTransit, DearRefunds
    <3>. QED
      BY <3>1, <3>2 DEF Injection, IsInjective
  <2>3. IsFiniteSet(D) /\ Cardinality(D) <= Cardinality(S)
    <3>. HIDE DEF f, D
    <3>. QED
      BY <2>1, <2>2, FS_Injection DEF Short
  <2>4. Cardinality(D) \in Nat /\ Cardinality(S) \in Nat
    BY <2>1, <2>3, FS_CardinalityType DEF Short
  <2>. QED
    BY <2>1, <2>3, <2>4, ClaimAssumption DEF Short
<1>. QED
  BY <1>1, Invariance, DearInvariance, PTL
=============================================================================
