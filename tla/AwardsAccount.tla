---------------------------- MODULE AwardsAccount ---------------------------
(***************************************************************************)
(* The loyalty account of a client and the methods that change it          *)
(* (loyalty/awards-account.entity.ts, awarded-miles.entity.ts).            *)
(*                                                                         *)
(* An account is held in memory as a record: its own columns (row), the    *)
(* awarded_miles rows loaded with it (miles, a function on their ids) and  *)
(* the entries it was given since (added).                                 *)
(***************************************************************************)
EXTENDS Integers, Sequences, SequencesExt

CONSTANTS
  Clients,    \* client ids
  Never       \* the expiration date of miles that cannot expire

Strategies == {"manyClaims", "soonestFirst", "specialLast", "oldestFirst"}

Entry(amount, expires, date) ==
  [amount |-> amount, expires |-> expires, date |-> date]

NewAccount(client) == [client |-> client, active |-> FALSE, transactions |-> 0]

\* Fault: the entry keeps what was taken from it.
NothingSubtracted(m, n) == m

Subtracted(m, n) == [m EXCEPT !.amount = @ - n]

\* calculateBalance, removeMiles and moveMilesTo skip an entry that expires
\* at this very moment, although its amount is not zero yet.
Live(m, at) == m.expires = Never \/ at < m.expires

Balance(acc, at) ==
  SumFunctionOnSet([i \in DOMAIN acc.miles |-> acc.miles[i].amount],
                   {i \in DOMAIN acc.miles : Live(acc.miles[i], at)})

\* addExpiringMiles and addNonExpiringMiles.
WithMiles(acc, amount, expires, at) ==
  [acc EXCEPT !.added = Append(@, Entry(amount, expires, at)),
              !.row.transactions = @ + 1]

\* Fault: the guard forgets the account's status.
EnoughMiles(acc, amount, at) == Balance(acc, at) >= amount

CanTake(acc, amount, at) == Balance(acc, at) >= amount /\ acc.row.active

-----------------------------------------------------------------------------
(* removeMiles                                                              *)

\* The comparators of the four strategies: m strictly precedes n.
Precedes(strategy, m, n) ==
  LET special(x) == x.expires = Never IN
  CASE strategy = "manyClaims"   -> \/ special(m) /\ ~special(n)
                                    \/ /\ ~special(m) /\ ~special(n)
                                       /\ m.expires > n.expires
    [] strategy = "soonestFirst" -> \/ ~special(m) /\ special(n)
                                    \/ /\ ~special(m) /\ ~special(n)
                                       /\ m.expires < n.expires
    [] strategy = "specialLast"  -> \/ ~special(m) /\ special(n)
                                    \/ /\ special(m) <=> special(n)
                                       /\ m.date < n.date
    [] OTHER                     -> m.date < n.date

\* Fault: the comparators are ignored.
UnsortedLists(acc, strategy) == SetToSeqs(DOMAIN acc.miles)

\* The lists orderBy may return: the rows come in any order and it is stable.
SortedLists(acc, strategy) ==
  { list \in SetToSeqs(DOMAIN acc.miles) :
      \A i, j \in DOMAIN list :
        i < j => ~Precedes(strategy, acc.miles[list[j]], acc.miles[list[i]]) }

\* Fault: an entry gives the whole debt, more than it is worth.
WholeDebt(a, b) == a

Smaller(a, b) == IF a <= b THEN a ELSE b

\* The loop over the sorted list: debt[k] is what remains to be taken when
\* it comes to the k-th entry.
WithoutMiles(acc, amount, list, at) ==
  LET worth(k) == IF Live(acc.miles[list[k]], at)
                  THEN acc.miles[list[k]].amount ELSE 0
      debt[k \in DOMAIN list] ==
        IF k = 1 THEN amount
        ELSE debt[k - 1] - Smaller(debt[k - 1], worth(k - 1))
      taken(i) == LET k == CHOOSE n \in DOMAIN list : list[n] = i
                  IN  Smaller(debt[k], worth(k))
  IN [acc EXCEPT !.miles =
        [i \in DOMAIN acc.miles |->
           Subtracted(acc.miles[i], taken(i))]]

-----------------------------------------------------------------------------
(* moveMilesTo                                                              *)

Without(f, i) == [j \in DOMAIN f \ {i} |-> f[j]]

\* One turn of the loop.  splice removes an entry from the very array the loop
\* runs over, so the entry after one that was moved whole is skipped.
MoveEntry(state, i, at) ==
  LET m == state.from.miles[i]
      give(n) == WithMiles(state.to, n, m.expires, at)
  IN
  CASE state.skip ->
         [state EXCEPT !.skip = FALSE]
    [] ~state.skip /\ (state.amount <= 0 \/ ~Live(m, at)) ->
         state
    [] ~state.skip /\ state.amount > 0 /\ Live(m, at)
         /\ m.amount <= state.amount ->
         [ amount |-> state.amount - m.amount,
           skip   |-> TRUE,
           from   |-> [state.from EXCEPT !.miles = Without(@, i)],
           to     |-> give(m.amount) ]
    [] OTHER ->
         [ amount |-> state.amount - m.amount,
           skip   |-> FALSE,
           from   |-> [state.from EXCEPT !.miles[i] = Subtracted(m, state.amount)],
           to     |-> give(state.amount) ]

\* Both accounts after the loop over list; neither changes when the miles are
\* too few or the account is not active.
Moved(from, to, amount, list, at) ==
  LET turn(state, i) == MoveEntry(state, i, at)
      end == FoldLeft(turn,
                      [amount |-> amount, skip |-> FALSE,
                       from |-> from, to |-> to],
                      list)
  IN IF CanTake(from, amount, at)
     THEN [from |-> [end.from EXCEPT !.row.transactions = @ + 1],
           to   |-> [end.to EXCEPT !.row.transactions = @ + 1]]
     ELSE [from |-> from, to |-> to]
=============================================================================
