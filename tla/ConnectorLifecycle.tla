------------------------- MODULE ConnectorLifecycle -------------------------
(***************************************************************************)
(* What a connector promises the operator at its screen and the CSMS: the  *)
(* life of a session, and the OCPP status that goes with each part of it.  *)
(* ConnectorSession implements it for one operation at a time, of the      *)
(* operator or the CSMS, with the polls and timers that run beside it.     *)
(***************************************************************************)
EXTENDS Naturals

VARIABLES
    now,       \* the latest time
    status,    \* as reported to the CSMS
    stage,     \* of the session: none, offered (by a card), awaited (by the CSMS),
               \* claimed, running
    attempt    \* the time that names the session, 0 if there is none

lifecycleVars == <<now, status, stage, attempt>>

LifecycleInit == now = 0 /\ status = "Available" /\ stage = "none" /\ attempt = 0

\* No two attempts have the same name.
NewAttempt == attempt' > now /\ attempt' <= now'

\* A card or the CSMS asks for a session where there is none.
Offer ==
    /\ status \in {"Available", "Preparing"} /\ stage = "none"
    /\ status' = "Preparing" /\ stage' \in {"offered", "awaited"} /\ NewAttempt

\* The handshake is complete: one request claims the attempt, and may start to charge.
Claim ==
    /\ status = "Preparing" /\ stage = "offered"
    /\ stage' = "claimed"
    /\ UNCHANGED <<status, attempt>>

Charge ==
    /\ status = "Preparing" /\ stage = "claimed"
    /\ status' = "Charging" /\ stage' = "running" /\ NewAttempt

\* The CSMS has accepted the transaction of the session it asked for, which may have
\* timed out in the meantime.
Adopt ==
    /\ status \in {"Available", "Preparing"} /\ stage \in {"none", "awaited"}
    /\ status' = "Charging" /\ stage' = "running" /\ NewAttempt

\* A session ends: only one that got beyond the handshake leaves the connector Finishing.
End ==
    /\ stage # "none"
    /\ stage' = "none" /\ attempt' = 0
    /\ \/ status' \in {"Available", "Preparing", "Faulted"}
       \/ status' = "Finishing" /\ stage \in {"claimed", "running"}

\* Without a session the connector may become anything but charging: a vehicle comes or
\* leaves, the hold is over, a fault is cleared, or a stop finds that the session has gone
\* and leaves the connector as it would have.
Settle ==
    /\ stage = "none"
    /\ status' \in {"Available", "Preparing", "Finishing", "Faulted"}
    /\ UNCHANGED <<stage, attempt>>

LifecycleNext ==
    /\ now' >= now
    /\ \/ Offer \/ Claim \/ Charge \/ Adopt \/ End \/ Settle
       \/ UNCHANGED <<status, stage, attempt>>

LifecycleSpec == LifecycleInit /\ [][LifecycleNext]_lifecycleVars
=============================================================================
