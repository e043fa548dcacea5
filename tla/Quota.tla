------------------------------- MODULE Quota --------------------------------
(***************************************************************************)
(* The monthly budget of one actor: the reservations and the usage in       *)
(* SQLite, and the model runs that reserve before they start and settle     *)
(* when they end (src/mmag/control_plane/quota.py, governance/gateway.py).  *)
(*                                                                          *)
(* Every store call is one transaction; the processes that share the        *)
(* database interleave between them.  One actor and one month are modelled: *)
(* another has other rows.  A run's price and the tokens it reports are one  *)
(* number here, as nothing compares the two.                                *)
(***************************************************************************)
EXTENDS Integers, FiniteSets

CONSTANTS
  Run,            \* calls of ModelGateway.run
  Reservation,    \* reservation ids
  ReservationOf,  \* [Run -> Reservation]; a repeated run may have the id of the first
  Limit,          \* default_limit_usd
  Estimate,       \* max_cost_usd of a run, or estimated_run_cost_usd
  Costs           \* what the provider may charge for a run, and the tokens that are reported of it

ASSUME QuotaAssumption ==
  /\ ReservationOf \in [Run -> Reservation]
  /\ {Limit, Estimate} \subseteq Nat /\ Costs \subseteq Nat
  /\ IsFiniteSet(Run) /\ IsFiniteSet(Reservation)

VARIABLES
  usage,   \* quota_usage: cost_usd, input_tokens + output_tokens
  reservation,     \* [Reservation -> quota_reservations row]
  lapsed,  \* reservations whose expires_at has passed
  gateway,      \* [Run -> where its gateway call is]
  bill     \* [Run -> what the provider charged for it]

quotaVars == <<usage, reservation, lapsed, gateway, bill>>

ReservationRow == [status: {"absent", "reserved", "settled", "released"}, reserved: Nat, tokens: Nat]
Pc == {"idle", "model", "parked", "resuming", "counted", "uncounted", "refused"}

ReservationsIn(status) == {i \in Reservation : reservation[i].status = status}

\* SUM of the column f over the rows S.  The amounts are whole, so that their units can be counted.
SumOver(f, S) == Cardinality(UNION {{i} \X (1..f[i]) : i \in S})

ReservedCost == [i \in Reservation |-> reservation[i].reserved]
ReportedTokens == [i \in Reservation |-> reservation[i].tokens]

-----------------------------------------------------------------------------
(* QuotaStore.                                                             *)

\* What reserve_quota counts against the limit; a mutant forgets the other reservations.
CommittedOnly(expired) == usage.cost
Committed(expired) == usage.cost + SumOver(ReservedCost, ReservationsIn("reserved") \ expired)

Expired == ReservationsIn("reserved") \cap lapsed
Released(expired) ==
  [i \in Reservation |-> IF i \in expired THEN [reservation[i] EXCEPT !.status = "released"] ELSE reservation[i]]

\* A reservation can be made anew.
Fresh(i) == reservation[i].status = "absent"

\* A new reservation, and the release of all that have expired, in one transaction.
ReserveNew(r) ==
  LET i == ReservationOf[r] IN
  /\ Fresh(i)
  /\ Committed(Expired) + Estimate <= Limit
  /\ reservation' = [Released(Expired) EXCEPT
               ![i] = [status |-> "reserved", reserved |-> Estimate, tokens |-> 0]]
  /\ UNCHANGED lapsed

\* The id exists: its lease is renewed unless it has just expired, or it is settled and the
\* run goes on without a reservation of its own.
ReserveAgain(r) ==
  LET i == ReservationOf[r] IN
  /\ \/ reservation[i].status = "settled"
     \/ reservation[i].status = "reserved" /\ i \notin lapsed
  /\ reservation' = Released(Expired)
  /\ UNCHANGED lapsed

Reserve(r) ==
  /\ gateway[r] = "idle"
  /\ ReserveNew(r) \/ ReserveAgain(r)
  /\ gateway' = [gateway EXCEPT ![r] = "model"]
  /\ UNCHANGED <<usage, bill>>

\* quota_exceeded, or a reservation that was released: the transaction is rolled back, with
\* the release of the expired ones.
RefuseRun(r) ==
  LET i == ReservationOf[r] IN
  /\ gateway[r] = "idle"
  /\ \/ reservation[i].status = "released" \/ i \in Expired
     \/ reservation[i].status = "absent" /\ Committed(Expired) + Estimate > Limit
  /\ gateway' = [gateway EXCEPT ![r] = "refused"]
  /\ UNCHANGED <<usage, reservation, lapsed, bill>>

\* release_quota; a mutant writes a state of its own.
Dropped(status) == IF status = "reserved" THEN "dropped" ELSE status
Freed(status) == IF status = "reserved" THEN "released" ELSE status
ReleaseQuota(i) == reservation' = [reservation EXCEPT ![i].status = Freed(@)]

\* settle_quota; a mutant settles again what is settled.
AnyReserved(i) == reservation[i].status \in {"reserved", "settled"}
Unsettled(i) == reservation[i].status = "reserved"

\* What the result of a run says that it used: the runtime counts the tokens of the model's
\* messages, and has no price.
Reported(amount) == [cost |-> 0, tokens |-> amount]

Settle(r, used) ==
  LET i == ReservationOf[r] IN
  IF Unsettled(i)
    THEN /\ usage' = [cost |-> usage.cost + used.cost, tokens |-> usage.tokens + used.tokens]
         /\ reservation' = [reservation EXCEPT ![i].status = "settled", ![i].tokens = used.tokens]
         /\ gateway' = [gateway EXCEPT ![r] = "counted"]
    ELSE \* settled: nothing to do; released: settle_quota raises
         /\ gateway' = [gateway EXCEPT ![r] = "uncounted"]
         /\ UNCHANGED <<usage, reservation>>

-----------------------------------------------------------------------------
(* ModelGateway.                                                           *)

Charge(r, cost) == bill' = [bill EXCEPT ![r] = cost]

\* runtime.run or runtime.resume returned a final result.
Returns(r, cost) ==
  /\ gateway[r] \in {"model", "resuming"}
  /\ Charge(r, cost)
  /\ Settle(r, Reported(cost))
  /\ UNCHANGED lapsed

\* The run is interrupted for an approval and keeps its reservation; a mutant gives it back.
ParksAndReleases(r) ==
  /\ gateway[r] \in {"model", "resuming"}
  /\ gateway' = [gateway EXCEPT ![r] = "parked"]
  /\ ReleaseQuota(ReservationOf[r])
  /\ UNCHANGED <<usage, lapsed, bill>>
Parks(r) ==
  /\ gateway[r] \in {"model", "resuming"}
  /\ gateway' = [gateway EXCEPT ![r] = "parked"]
  /\ UNCHANGED <<usage, reservation, lapsed, bill>>

ResumeRun(r) ==
  /\ gateway[r] = "parked"
  /\ gateway' = [gateway EXCEPT ![r] = "resuming"]
  /\ UNCHANGED <<usage, reservation, lapsed, bill>>

\* runtime.run raised after some model calls, or _audit_route before any: run() releases.
Raises(r, cost) ==
  /\ gateway[r] = "model"
  /\ Charge(r, cost)
  /\ ReleaseQuota(ReservationOf[r])
  /\ gateway' = [gateway EXCEPT ![r] = "uncounted"]
  /\ UNCHANGED <<usage, lapsed>>

\* The process dies or the task is cancelled - which `except Exception` does not see - or
\* runtime.resume raises: the reservation stays.
Dies(r, cost) ==
  /\ gateway[r] \in {"model", "resuming"}
  /\ Charge(r, cost)
  /\ gateway' = [gateway EXCEPT ![r] = "uncounted"]
  /\ UNCHANGED <<usage, reservation, lapsed>>

\* 24 hours pass.
Lapse(i) ==
  /\ reservation[i].status = "reserved" /\ i \notin lapsed
  /\ lapsed' = lapsed \cup {i}
  /\ UNCHANGED <<usage, reservation, gateway, bill>>

QuotaInit ==
  /\ usage = [cost |-> 0, tokens |-> 0]
  /\ reservation = [i \in Reservation |-> [status |-> "absent", reserved |-> 0, tokens |-> 0]]
  /\ lapsed = {}
  /\ gateway = [r \in Run |-> "idle"]
  /\ bill = [r \in Run |-> 0]

QuotaNext ==
  \/ \E r \in Run : Reserve(r) \/ RefuseRun(r) \/ Parks(r) \/ ResumeRun(r)
  \/ \E r \in Run, cost \in Costs : Returns(r, cost) \/ Raises(r, cost) \/ Dies(r, cost)
  \/ \E i \in Reservation : Lapse(i)

QuotaSpec == QuotaInit /\ [][QuotaNext]_quotaVars
-----------------------------------------------------------------------------
(* Properties.                                                             *)

QuotaTypeOK ==
  /\ usage \in [cost: Nat, tokens: Nat]
  /\ reservation \in [Reservation -> ReservationRow]
  /\ lapsed \subseteq Reservation
  /\ gateway \in [Run -> Pc]
  /\ bill \in [Run -> Nat]

\* However the runs interleave, what is recorded as spent and what is reserved stay within the
\* limit together (reserve_quota).
WithinLimit == Committed({}) <= Limit

\* A run that may still call the model is counted against the limit: its reservation stands, but
\* for one that has expired and one that another run with the same id has settled or given back.
Underway == {r \in Run : gateway[r] \in {"model", "parked", "resuming"}}
GivenUp(r) == \E s \in Run \ {r} : ReservationOf[s] = ReservationOf[r] /\ gateway[s] \in {"counted", "uncounted"}
InFlightIsReserved ==
  \A r \in Underway : ReservationOf[r] \in ReservationsIn("reserved") \cup lapsed \/ GivenUp(r)

\* The usage is what the settled runs reported, each counted once: not twice for a repeated run,
\* and not for a reservation that was given back.
UsageIsReported ==
  /\ usage.tokens = SumOver(bill, {r \in Run : gateway[r] = "counted"})
  /\ usage.tokens = SumOver(ReportedTokens, ReservationsIn("settled"))

\* The envelope of the runs under way: no run is granted beyond the limit, none under way is left
\* out of what the next one is checked against, and no report is lost or counted twice, whichever
\* runs expire, raise, park or repeat in between.
BudgetIsKept == WithinLimit /\ InFlightIsReserved /\ UsageIsReported
=============================================================================
