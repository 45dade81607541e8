------------------------------ MODULE Journeys ------------------------------
(***************************************************************************)
(* Journeys along rides: what the analyzer of transits answers when asked  *)
(* for the longest journey of a client from an address.                    *)
(*                                                                         *)
(*   Answers            crm/transit-analyzer/graph-transit-analyzer.ts     *)
(*   DeprecatedAnswer   crm/transit-analyzer/_deprecated/                  *)
(*                      transit-analyzer.service.ts                        *)
(*                                                                         *)
(* A leg is one ride between two nodes; a node is a pair of the hash of an *)
(* address and a number, for the graph may hold several nodes of a hash.   *)
(* Times are ticks of the clock.                                           *)
(***************************************************************************)
EXTENDS Integers, Sequences, FiniteSets, Functions, FiniteSetsExt

CONSTANTS
  PerMinute,  \* ticks in a minute
  MaxStop     \* minutes a client may stop between two rides (15)

ASSUME JourneyAssumption ==
  /\ PerMinute \in Nat \ {0}
  /\ MaxStop \in Nat

\* duration.inSeconds(...).minutes: whole minutes, towards zero.
Minutes(ticks) ==
  IF ticks >= 0 THEN ticks \div PerMinute ELSE -((-ticks) \div PerMinute)

\* next leaves from where leg ended, soon after it ended.
Follows(leg, next) ==
  /\ leg.to = next.from
  /\ Minutes(next.started - leg.completed) \in 0 .. MaxStop

\* The paths of n legs that match the query; no leg occurs twice in a path.
\* The client of the first leg is not compared: the range begins at one.
Paths(legs, client, hash) ==
  LET path[n \in 1 .. Cardinality(legs)] ==
        IF n = 1
        THEN {<<leg>> : leg \in {l \in legs : l.from[1] = hash}}
        ELSE {Append(way[1], way[2]) :
                way \in {w \in path[n - 1] \X legs :
                           /\ Follows(w[1][n - 1], w[2])
                           /\ w[2].client = client
                           /\ w[2] \notin Range(w[1])}}
  IN path

\* [x in nodes(p) | x.hash]
HashesOf(path) ==
  [i \in 1 .. Len(path) + 1 |->
     IF i = 1 THEN path[1].from[1] ELSE path[i - 1].to[1]]

\* ORDER BY length(p) DESC LIMIT 1: any of the longest paths; no record where
\* there is no path, and no hashes.
Answers(legs, client, hash) ==
  LET path == Paths(legs, client, hash)
      lengths == {n \in DOMAIN path : path[n] # {}}
  IN  IF lengths = {} THEN {<<>>}
      ELSE {HashesOf(p) : p \in path[Max(lengths)]}

-----------------------------------------------------------------------------
(* The analyzer before the rides had a graph: rides are a sequence, by the  *)
(* time they were published.                                                *)

NextRides(rides, client, hash, i) ==
  {j \in DOMAIN rides :
     /\ rides[j].client = client
     /\ rides[j].from[1] = hash
     /\ i > 0 =>
          /\ j > i
          /\ rides[i].completed + MaxStop * PerMinute > rides[j].started}

\* _analyze after ride i, or from the start where i is 0: the journeys that
\* may come first when they are sorted by length.
DeprecatedAnswers(rides, client, hash) ==
  LET Longest(S) == {s \in S : \A t \in S : Len(t) <= Len(s)}
      after[i \in 0 .. Len(rides)] ==
        \* The journeys after ride Len(rides) - i.
        LET last == Len(rides) - i
            here == IF last = 0 THEN hash ELSE rides[last].to[1]
            next == NextRides(rides, client, here, last)
        IN  IF next = {}
            THEN {IF last = 0 THEN <<>> ELSE <<here>>}
            ELSE Longest(UNION {{<<here>> \o s : s \in after[Len(rides) - j]} :
                                  j \in next})
  IN  after[Len(rides)]
=============================================================================
