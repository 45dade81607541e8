---------------------------- MODULE DriverReport ----------------------------
(***************************************************************************)
(* The report of a driver (driver-fleet/driver-report), beside the fleet   *)
(* and session services that write the sessions it lists.                  *)
(*                                                                         *)
(* The report is one query over driver_session, transit_details and claim, *)
(* so that here it is an operator of the state, and what may go wrong is   *)
(* what the rows say when calls overlap.  Rides enter at their completion: *)
(* its time is taken first, and the row is saved several awaits later.     *)
(* Claims may be filed at any time: the report takes any number of them.   *)
(*                                                                         *)
(* Left out: the query for the driver and the attributes, which drops a    *)
(* driver who has no attribute other than the remarks of a medical         *)
(* examination, and the columns that are copied.                           *)
(***************************************************************************)
EXTENDS FleetService

CONSTANTS
  MaxRides,   \* bound on the rides
  MaxClaims   \* bound on the claims about one ride

ASSUME ReportAssumption == MaxRides \in Nat /\ MaxClaims \in Nat

\* transit_details rows of rides at their completion and, a history, the
\* sessions each is completed in
VARIABLE rides

reportVars == <<vars, rides>>

\* A call that has taken the time at which it will close session s.
IsClosing(s) ==
  \E r \in Calls : held[r].session = s /\ held[r].time # NoRow

\* completeTransit takes the time first.  Bound: the driver has a session.
TakeCompletionTime(d) ==
  /\ Len(rides) < MaxRides
  /\ \E s \in DOMAIN sessions : sessions[s].driver = d
  /\ \E t \in Now :
       /\ clock' = t
       /\ rides' = Append(rides,
            [ driver |-> d, completeAt |-> t, completed |-> FALSE,
              during |-> {s \in OpenSessions(d) : ~IsClosing(s)} ])
  /\ UNCHANGED <<tables, pc, held, begun, history>>

\* The details are completed, after the transit, the fee and the occupancy.
SaveCompletion(i) ==
  /\ ~rides[i].completed
  /\ rides' = [rides EXCEPT ![i].completed = TRUE]
  /\ UNCHANGED vars

-----------------------------------------------------------------------------
(* SQLBasedDriverReportCreator                                              *)

\* Fault: the two sides of each comparison are swapped.
WithinSwapped(ride, s) ==
  /\ s.loggedOutAt # NoRow
  /\ ride.completeAt <= s.loggedAt
  /\ ride.completeAt >= s.loggedOutAt

\* completeAt >= loggedAt AND completeAt <= loggedOutAt: neither is true of a
\* session that is open, whose loggedOutAt is NULL.
Within(ride, s) ==
  /\ s.loggedOutAt # NoRow
  /\ ride.completeAt >= s.loggedAt
  /\ ride.completeAt <= s.loggedOutAt

\* A LEFT JOIN: a row for each of a ride's n claims, or one without.
ClaimsJoined(n) == IF n = 0 THEN {NoRow} ELSE 1..n

\* The rows of the query.  Each becomes an entry of the report: the sessions
\* are the keys of a map, but every row makes a session object of its own.
\* claims is the number of claims about each ride.
Report(d, since, claims) ==
  { e \in [ session : DOMAIN sessions, ride : DOMAIN rides,
            claim : {NoRow} \union 1..MaxClaims ] :
      LET session == sessions[e.session]
          ride == rides[e.ride]
      IN  /\ session.driver = d /\ ride.driver = d
          /\ ride.completed
          /\ session.loggedAt >= since
          /\ Within(ride, session)
          /\ e.claim \in ClaimsJoined(claims[e.ride]) }

-----------------------------------------------------------------------------
ReportInit == Init /\ rides = <<>>

RideStep ==
  \/ \E d \in Drivers : TakeCompletionTime(d)
  \/ \E i \in DOMAIN rides : SaveCompletion(i)

ReportNext == (Next /\ UNCHANGED rides) \/ RideStep

ReportSpec == ReportInit /\ [][ReportNext]_reportVars

-----------------------------------------------------------------------------
(* Properties                                                               *)

\* A ride completed while its driver is logged in is listed, once for each of
\* its claims, from when its details are saved and its session is closed:
\* however log-outs of that session overlap, repeat or are cut short, and
\* however the report's window begins up to the log-in.  (A log-out that took
\* its time before the completion does not count the driver as logged in.)
RidesAreReported ==
  \A i \in DOMAIN rides, s \in DOMAIN sessions :
    /\ rides[i].completed
    /\ s \in rides[i].during
    /\ sessions[s].loggedOutAt # NoRow
    => \A since \in 0..sessions[s].loggedAt,
          claims \in [DOMAIN rides -> 0..MaxClaims] :
         { e.claim : e \in { x \in Report(sessions[s].driver, since, claims) :
                               x.session = s /\ x.ride = i } }
           = IF claims[i] = 0 THEN {NoRow} ELSE 1..claims[i]
=============================================================================
