-------------------------- MODULE BookingLifecycle --------------------------
(***************************************************************************)
(* What the marketplace promises of one booking, seen from outside: the    *)
(* life it may have and who holds it.  No request, offer, table or clock   *)
(* appears here.                                                           *)
(***************************************************************************)
CONSTANTS Washers, None

VARIABLES
    phase,   \* the status, or "unborn" before and "removed" after the row
    holder   \* the washer the booking is assigned to, or None

life == <<phase, holder>>

Phases == {"unborn", "PENDING", "ACCEPTED", "ARRIVED", "IN_PROGRESS",
           "AWAITING_CLIENT_CONFIRMATION", "COMPLETED", "CANCELLED", "removed"}

LifeOK == phase \in Phases /\ holder \in Washers \cup {None}

Move(from, to) == phase = from /\ phase' = to /\ holder' = holder

Open == Move("unborn", "PENDING")
Arrive == Move("ACCEPTED", "ARRIVED")
Start == Move("ARRIVED", "IN_PROGRESS")
Complete == Move("IN_PROGRESS", "AWAITING_CLIENT_CONFIRMATION")
Confirm == Move("AWAITING_CLIENT_CONFIRMATION", "COMPLETED")
Cancel == Move("PENDING", "CANCELLED") \/ Move("ACCEPTED", "CANCELLED")

Assign == /\ phase = "PENDING" /\ holder = None
          /\ phase' = "ACCEPTED" /\ holder' \in Washers

Reopen == /\ phase = "ACCEPTED" /\ holder # None
          /\ phase' = "PENDING" /\ holder' = None

Remove == /\ phase \notin {"unborn", "removed"}
          /\ phase' = "removed" /\ holder' = holder

LifeInit == phase = "unborn" /\ holder = None

LifeNext == \/ Open \/ Assign \/ Reopen \/ Arrive \/ Start \/ Complete
            \/ Confirm \/ Cancel \/ Remove

LifeSpec == LifeInit /\ [][LifeNext]_life
=============================================================================
