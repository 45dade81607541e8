------------------------- MODULE MCTransitAnalyzer --------------------------
(* Model values for the run of TransitAnalyzer, and what journeys are        *)
(* expected to be: by the tests of the repository, and by the analyzer that  *)
(* the graph replaces.                                                       *)
EXTENDS TransitAnalyzer, TLC

CONSTANTS ann, bob, p, q

AsTheyAre == [hash \in Hashes |-> hash]
ThereAndBack == {<<ann, p, q>>, <<bob, q, p>>}

-----------------------------------------------------------------------------
\* Journeys of minutes of two ticks, with stops of fifteen at most.
J == INSTANCE Journeys WITH PerMinute <- 2, MaxStop <- 15

\* A ride between two places, its times in ticks.
Trip(client, from, to, started, completed) ==
  [client |-> client, from |-> <<from, 1>>, to |-> <<to, 1>>,
   started |-> started, completed |-> completed]

\* test/integration/transit-analyzer/analyze-nearby-transits, the stops in
\* minutes: the longest travel, and the longest before a long stop.
ASSUME JourneysAsTested ==
  LET Way(places, stop) ==
        {Trip(ann, places[i], places[i + 1], 2 * (10 + stop) * i,
              2 * (10 + stop) * i + 20) : i \in 1 .. Len(places) - 1}
      Later(trips, t) ==
        {[trip EXCEPT !.started = @ + t, !.completed = @ + t] : trip \in trips}
  IN
  /\ J!Answers(Way(<<1, 2, 3, 4>>, 5) \union Later(Way(<<1, 2, 3>>, 5), 3000)
                 \union Later(Way(<<1, 3>>, 5), 6000)
                 \union Later(Way(<<3, 1, 2, 5, 4, 5>>, 10), 9000), ann, 1)
       = {<<1, 2, 5, 4, 5>>}
  /\ J!Answers(Way(<<1, 2, 3, 4>>, 5)
                 \union Later(Way(<<4, 5, 1>>, 0), 2 * 75), ann, 1)
       = {<<1, 2, 3, 4>>}

\* A ride of another client may be the first leg; a stop counts up to a second
\* before its sixteenth minute.
ASSUME JourneysAtTheirBounds ==
  LET Two(client, stop) ==
        {Trip(client, 1, 2, 0, 20), Trip(ann, 2, 3, 20 + stop, 40 + stop)}
  IN
  /\ J!Answers(Two(bob, 0), ann, 1) = {<<1, 2, 3>>}
  /\ J!Answers(Two(ann, 31), ann, 1) = {<<1, 2, 3>>}
  /\ J!Answers(Two(ann, 32), ann, 1) = {<<1, 2>>}
  /\ J!Answers(Two(ann, -1), ann, 1) = {<<1, 2, 3>>}
  /\ J!Answers(Two(ann, -2), ann, 1) = {<<1, 2>>}

\* Where one client takes one ride after another and no stop ends in its
\* sixteenth minute, the graph answers what the analyzer before it did.
ASSUME GraphAnswersAsBefore ==
  \A from, to \in [1 .. 3 -> 1 .. 2], stop \in [1 .. 2 -> {0, 29, 32}] :
    LET start == [i \in 1 .. 3 |-> IF i = 1 THEN 0
                                   ELSE IF i = 2 THEN 20 + stop[1]
                                   ELSE 40 + stop[1] + stop[2]]
        rides == [i \in 1 .. 3 |->
                    Trip(ann, from[i], to[i], start[i], start[i] + 20)]
    IN  J!DeprecatedAnswers(rides, ann, 1) = J!Answers(Range(rides), ann, 1)
=============================================================================
