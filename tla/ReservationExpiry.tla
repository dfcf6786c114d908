--------------------------- MODULE ReservationExpiry ---------------------------
(***************************************************************************)
(* ExpireReservationsUseCase, the cron that releases the keys of pending   *)
(* reservations nobody provided in time, whatever marketplace they belong  *)
(* to.  It runs beside the webhook requests: the rows are read once and    *)
(* released one by one, without another look at their status.              *)
(***************************************************************************)
EXTENDS SellerKeyOperations

CONSTANTS
  Workers,  \* webhook requests that can be in progress at once
  Cron      \* the task of the sweep

ASSUME TasksAre == Tasks = Workers \union {Cron} /\ Cron \notin Workers

\* When a sweep reads, the expires_at of any set of pending rows may have
\* passed; the backstop sweep does the same for rows of another age.
SweepStart(rows) ==
  /\ \E batch \in SUBSET {r \in rows : resv[r] = "pending"} :
       /\ batch # {}
       /\ Start(Cron, "cron_next", [NoJob EXCEPT !.batch = batch])
  /\ UNCHANGED dbVars

SweepNext ==
  /\ pc[Cron] = "cron_next"
  /\ \/ /\ job[Cron].batch = {}
        /\ Goto(Cron, "idle")
     \/ \E r \in job[Cron].batch :
          Continue(Cron, "release", [NoJob EXCEPT !.row = r, !.target = "expired",
                                                  !.batch = job[Cron].batch \ {r}])
  /\ UNCHANGED dbVars

\* a row whose release raises is logged and the sweep goes on
SweepRelease == Release(Cron, "cron_next") \/ ReleaseStatus(Cron, "cron_next")
===============================================================================
