--------------------------- MODULE CommandProofs ----------------------------
(***************************************************************************)
(* The commands of the CSMS and the reservations, for any number of        *)
(* handlers, connectors and transactions.                                  *)
(*                                                                         *)
(* The invariant says what every handler has at its place (Shaped), and    *)
(* then, as long as no two handlers crossed where the code lets them: that *)
(* a start is alone on its connector (StartsAlone), that a transaction the *)
(* station knows of is active, stopped or about to be stopped              *)
(* (StopsKnown), that a connector's interval, its handle and its           *)
(* transaction go together (LoopsTied), and that a reservation's timeout,  *)
(* its handle and the row go together (ExpiryKept).                        *)
(***************************************************************************)
EXTENDS RemoteCommands, Integers, FiniteSetTheorems, SequenceTheorems, TLAPS

Places == {"idle", "remove", "delete", "store", "reserved", "release", "expire", "expired", "list",
           "redeemed", "profile", "requested", "reset", "snapshot", "config", "restart", "operative",
           "inoperative"} \cup StartPlaces \cup StopPlaces
Operations == {"none", "reserve", "cancel", "redeem", "start", "expire", "stop", "requested", "reset",
               "config", "availability"}
JobStates ==
    [op : Operations, at : Places, c : Connectors \cup {None}, r : ReservationIds \cup {None},
     tag : Tags \cup {None}, tx : Nat, todo : SUBSET (Connectors \X Nat)]

StoreTypes ==
    /\ reservations \in [ReservationIds -> [c : Connectors, tag : Tags] \cup {None}]
    /\ timers \in [ReservationIds -> {"none", "live", "fired"}]
    /\ armed \in [ReservationIds -> Seq({"near", "far"})]
RemoteTypes ==
    /\ active \in [Connectors -> Transactions \cup {0}] /\ rowTx \in [Connectors -> Transactions \cup {0}]
    /\ pendingStarts \subseteq Connectors
    /\ sim \in [Connectors -> BOOLEAN] /\ handle \in [Connectors -> BOOLEAN] /\ loops \in [Connectors -> Int]
    /\ issued \subseteq Transactions /\ stops \in [Transactions -> Nat]

\* What a handler has at its place.
Between == {"delete", "store", "expire", "expired"}
Shaped(s) ==
    /\ s.at \in {"list", "redeemed", "profile", "requested", "restart"} \cup StartPlaces \cup StopPlaces => s.c \in Connectors
    /\ s.at \in {"remove", "delete"} => s.op \in {"reserve", "redeem", "cancel"}
    /\ s.at \in {"remove", "delete", "store"} /\ s.op # "cancel" => s.c \in Connectors
    /\ s.op = "reserve" => s.tag \in Tags
    /\ s.at = "store" => s.op = "reserve"
    /\ s.at \in {"remove"} \cup Between => s.r \in ReservationIds
    /\ s.at = "list" => s.r = None
    /\ s.at \in {"rated", "loop", "adopt"} \cup StopPlaces => s.tx \in Transactions
    /\ s.todo \subseteq Connectors \X (IF s.at \in StopPlaces THEN Transactions ELSE {0})
JobTypes == job \in [Jobs -> JobStates] /\ \A j \in Jobs : Shaped(job[j])

\* As long as no start was accepted next to another, it is alone on its connector, which
\* is marked, and has no transaction before the call.
Early == {"begin", "authorize", "prepare", "waiting", "call"}
StartsAlone ==
    ~doubled => \A c \in Connectors :
        /\ \A i, j \in Starting(c) : i = j
        /\ Starting(c) # {} => c \in pendingStarts
        /\ \A j \in Starting(c) : job[j].at \in Early => active[c] = 0

\* The stops that a handler has ahead.
Ahead(j) ==
    {entry \in Connectors \X Transactions :
        \/ job[j].at = "stop" /\ entry = <<job[j].c, job[j].tx>>
        \/ entry \in job[j].todo}
StopsKnown ==
    /\ \A j \in Jobs : job[j].at = "stopping" => stops[job[j].tx] > 0
    /\ ~doubled /\ ~restopped =>
         /\ \A j \in Jobs : \A entry \in Ahead(j) : active[entry[1]] = entry[2]
         /\ \A i, j \in Jobs : \A d \in Ahead(i) : \A e \in Ahead(j) : d[1] = e[1] => i = j
         /\ \A j \in Jobs : job[j].at = "stop" => <<job[j].c, job[j].tx>> \notin job[j].todo
         /\ \A tx \in issued : \/ \E c \in Connectors : active[c] = tx
                               \/ stops[tx] > 0 \/ Stopping(tx) # {}

LoopHeld(c) ==
    /\ loops[c] = IF handle[c] THEN 1 ELSE 0
    /\ handle[c] => active[c] # 0 /\ sim[c]
    /\ sim[c] => active[c] # 0 \/ \E j \in Jobs : job[j].c = c /\ job[j].at = "sample"
LoopAwaited(j, c) ==
    job[j].c = c =>
        /\ job[j].at \in {"rated", "loop", "restart"} => active[c] # 0
        /\ job[j].at = "rated" => ~sim[c]
        /\ job[j].at \in {"sample", "stopping"} => \A i \in Starting(c) : job[i].at \notin Early
        /\ job[j].at = "sample" => active[c] = 0
LoopsTied ==
    ~raced /\ ~doubled /\ ~restopped =>
        \A c \in Connectors : LoopHeld(c) /\ \A j \in Jobs : LoopAwaited(j, c)

\* Between the two writes of a removal, or of a new reservation, its timeout does not run.
ExpiryOf(r) ==
    /\ Len(armed[r]) = IF timers[r] = "live" THEN 1 ELSE 0
    /\ \A i, j \in Jobs : job[i].r = r /\ job[j].r = r => i = j
    /\ \A j \in Jobs : job[j].r = r /\ job[j].at \in Between => timers[r] # "live"
    /\ (\A j \in Jobs : job[j].r = r => job[j].at \notin Between) =>
         /\ timers[r] = "live" => reservations[r] # None
         /\ ~disposed /\ reservations[r] # None => timers[r] = "live"
ExpiryKept == ~crossed => \A r \in ReservationIds : ExpiryOf(r)

CommandInv ==
    /\ StoreTypes /\ RemoteTypes /\ JobTypes
    /\ StartsAlone /\ StopsKnown /\ LoopsTied /\ ExpiryKept

-----------------------------------------------------------------------------
(* How a handler moves *)

LEMMA NoneIsNothing ==
    None \notin Connectors /\ None \notin ReservationIds /\ None \notin Tags /\ None \notin [c : Connectors, tag : Tags]
BY ReservationAssumption

\* A handler that is idle is a well-formed job that holds nothing.
LEMMA IdleJob ==
    /\ Idle \in JobStates /\ Shaped(Idle) /\ Idle.op = "none" /\ Idle.at = "idle" /\ Idle.c = None
    /\ Idle.r = None /\ Idle.tag = None /\ Idle.tx = 0 /\ Idle.todo = {}
<1>1. Idle \in JobStates
  BY DEF Idle, JobStates, Operations, Places
<1>2. Shaped(Idle)
  BY DEF Idle, Shaped, StartPlaces, StopPlaces, Between
<1>. QED
  BY <1>1, <1>2 DEF Idle

\* Transaction ids are positive numbers: 0 stands for none.
LEMMA NoTransaction == 0 \notin Transactions /\ Transactions \cup {0} \subseteq Nat
BY RemoteAssumption DEF Transactions

\* One handler moves, the others stay where they are.
OneMoves(j) == job' \in [Jobs -> JobStates] /\ \A i \in Jobs \ {j} : job'[i] = job[i]

\* Writing one job moves that handler alone.
LEMMA SetMoves ==
    ASSUME job \in [Jobs -> JobStates], NEW j \in Jobs, NEW s \in JobStates, job' = [job EXCEPT ![j] = s]
    PROVE  OneMoves(j) /\ job'[j] = s
BY DEF OneMoves

\* Going to the next step changes where a handler is and nothing else it knows.
LEMMA GotoMoves ==
    ASSUME job \in [Jobs -> JobStates], NEW j \in Jobs, NEW at \in Places, job' = [job EXCEPT ![j].at = at]
    PROVE  /\ OneMoves(j) /\ job'[j].at = at /\ job'[j].op = job[j].op /\ job'[j].c = job[j].c
           /\ job'[j].r = job[j].r /\ job'[j].tag = job[j].tag /\ job'[j].tx = job[j].tx
           /\ job'[j].todo = job[j].todo
<1>. DEFINE s == [job[j] EXCEPT !.at = at]
<1>1. job[j] \in JobStates
  OBVIOUS
<1>2. /\ s \in JobStates /\ s.at = at /\ s.op = job[j].op /\ s.c = job[j].c /\ s.r = job[j].r
      /\ s.tag = job[j].tag /\ s.tx = job[j].tx /\ s.todo = job[j].todo
  BY <1>1 DEF JobStates
<1>3. job' = [job EXCEPT ![j] = s]
  OBVIOUS
<1>. HIDE DEF s
<1>. QED
  BY <1>2, <1>3, SetMoves

\* A handler that is done is idle, the others stay where they are.
LEMMA DoneMoves ==
    ASSUME job \in [Jobs -> JobStates], NEW j \in Jobs, job' = [job EXCEPT ![j] = Idle]
    PROVE  OneMoves(j) /\ job'[j] = Idle /\ job'[j].at = "idle" /\ job'[j].r = None /\ Shaped(job'[j])
BY IdleJob, SetMoves

\* One handler that moves to a well-formed job keeps the types of all.
LEMMA JobsTyped ==
    ASSUME JobTypes, NEW j \in Jobs, OneMoves(j), Shaped(job'[j])
    PROVE  JobTypes'
BY DEF JobTypes, OneMoves, Shaped

\* The type of each field of a job.
LEMMA JobIs ==
    ASSUME JobTypes, NEW j \in Jobs
    PROVE  /\ job[j] \in JobStates /\ job[j].op \in Operations /\ job[j].at \in Places /\ job[j].c \in Connectors \cup {None}
           /\ job[j].r \in ReservationIds \cup {None} /\ job[j].tag \in Tags \cup {None} /\ job[j].tx \in Nat
           /\ job[j].todo \subseteq Connectors \X Nat
BY DEF JobTypes, JobStates

-----------------------------------------------------------------------------
(* What a step that is not about them leaves *)

LEMMA StartsKept ==
    ASSUME StartsAlone, NEW j \in Jobs, OneMoves(j), UNCHANGED <<active, pendingStarts>>, ~doubled' => ~doubled,
           job'[j].at \in StartPlaces => /\ job[j].at \in StartPlaces /\ job'[j].c = job[j].c
                                         /\ job'[j].at \in Early => job[j].at \in Early
    PROVE  StartsAlone'
<1>. SUFFICES ASSUME ~doubled', NEW c \in Connectors
              PROVE  /\ \A i, k \in Starting(c)' : i = k
                     /\ Starting(c)' # {} => c \in pendingStarts
                     /\ \A i \in Starting(c)' : job'[i].at \in Early => active[c] = 0
  BY DEF StartsAlone
<1>1. Starting(c)' \subseteq Starting(c)
  BY DEF Starting, OneMoves
<1>2. \A i \in Starting(c)' : job'[i].at \in Early => job[i].at \in Early
  BY DEF Starting, OneMoves
<1>. QED
  BY <1>1, <1>2 DEF StartsAlone

\* The stops that a handler has ahead are a function of its own job.
LEMMA AheadKept ==
    ASSUME NEW i \in Jobs, job'[i] = job[i]
    PROVE  Ahead(i)' = Ahead(i)
BY DEF Ahead

\* Only a handler that stops transactions has some ahead of it.
LEMMA NothingAhead ==
    ASSUME NEW s, Shaped(s), s.at \notin StopPlaces
    PROVE  \A c \in Connectors, tx \in Transactions : <<c, tx>> \notin s.todo
BY NoTransaction DEF Shaped

\* Transactions stay known under a step of a handler that stops none, before or after it.
LEMMA StopsKept ==
    ASSUME JobTypes, StopsKnown, NEW j \in Jobs, OneMoves(j), Shaped(job'[j]), UNCHANGED <<active, issued>>,
           ~doubled' => ~doubled, ~restopped' => ~restopped, issued \subseteq Transactions,
           \A tx \in Transactions : stops[tx] > 0 => stops'[tx] > 0,
           job[j].at \notin StopPlaces, job'[j].at \notin StopPlaces
    PROVE  StopsKnown'
<1>1. Ahead(j) = {} /\ Ahead(j)' = {}
  <2>1. Shaped(job[j])
    BY DEF JobTypes
  <2>. QED
    BY <2>1, NothingAhead DEF Ahead, StopPlaces
<1>2. \A i \in Jobs \ {j} : job'[i] = job[i] /\ Ahead(i)' = Ahead(i)
  BY AheadKept DEF OneMoves
<1>3. \A i \in Jobs : job'[i].at = "stopping" => stops'[job'[i].tx] > 0
  <2>. SUFFICES ASSUME NEW i \in Jobs, job'[i].at = "stopping" PROVE stops'[job'[i].tx] > 0
    OBVIOUS
  <2>1. i # j /\ job'[i] = job[i] /\ Shaped(job[i])
    BY <1>2 DEF StopPlaces, JobTypes
  <2>2. job[i].tx \in Transactions
    BY <2>1 DEF Shaped, StopPlaces
  <2>. QED
    BY <2>1, <2>2 DEF StopsKnown
<1>. SUFFICES ASSUME ~doubled', ~restopped'
              PROVE  /\ \A i \in Jobs : \A entry \in Ahead(i)' : active[entry[1]] = entry[2]
                     /\ \A i, k \in Jobs : \A d \in Ahead(i)' : \A e \in Ahead(k)' : d[1] = e[1] => i = k
                     /\ \A i \in Jobs : job'[i].at = "stop" => <<job'[i].c, job'[i].tx>> \notin job'[i].todo
                     /\ \A tx \in issued : \/ \E c \in Connectors : active[c] = tx
                                           \/ stops'[tx] > 0 \/ Stopping(tx)' # {}
  BY <1>3 DEF StopsKnown
<1>4. \A i \in Jobs : Ahead(i)' = Ahead(i)
  BY <1>1, <1>2
<1>5. \A i \in Jobs : job'[i].at = "stop" => <<job'[i].c, job'[i].tx>> \notin job'[i].todo
  BY <1>2 DEF StopsKnown, StopPlaces
<1>6. ASSUME NEW tx \in issued
      PROVE  \/ \E c \in Connectors : active[c] = tx
             \/ stops'[tx] > 0 \/ Stopping(tx)' # {}
  <2>1. Stopping(tx) \subseteq Stopping(tx)'
    <3>. SUFFICES ASSUME NEW i \in Stopping(tx) PROVE i \in Stopping(tx)'
      OBVIOUS
    <3>1. i # j
      <4>1. Shaped(job[j])
        BY DEF JobTypes
      <4>. QED
        BY <4>1, NothingAhead DEF Stopping
    <3>2. job'[i] = job[i]
      BY <1>2, <3>1 DEF Stopping
    <3>. QED
      BY <3>2 DEF Stopping
  <2>. QED
    BY <2>1 DEF StopsKnown
<1>. QED
  BY <1>4, <1>5, <1>6 DEF StopsKnown

\* Loops stay tied to transactions under a step that touches neither them nor a sample.
LEMMA LoopsKept ==
    ASSUME LoopsTied, NEW j \in Jobs, OneMoves(j), UNCHANGED <<active, sim, handle, loops>>,
           ~doubled' => ~doubled, ~restopped' => ~restopped, ~raced' => ~raced,
           job[j].at # "sample", job'[j].at \notin {"rated", "loop", "restart", "sample", "stopping"},
           job'[j].at \in Early => job[j].at \in Early /\ job'[j].c = job[j].c
    PROVE  LoopsTied'
<1>. SUFFICES ASSUME ~raced', ~doubled', ~restopped', NEW c \in Connectors
              PROVE  /\ sim[c] => active[c] # 0 \/ \E i \in Jobs : job'[i].c = c /\ job'[i].at = "sample"
                     /\ \A i \in Jobs : job'[i].c = c =>
                          /\ job'[i].at \in {"rated", "loop", "restart"} => active[c] # 0
                          /\ job'[i].at = "rated" => ~sim[c]
                          /\ job'[i].at \in {"sample", "stopping"} => \A k \in Starting(c)' : job'[k].at \notin Early
                          /\ job'[i].at = "sample" => active[c] = 0
  BY DEF LoopsTied, LoopHeld, LoopAwaited
<1>1. \A i \in Jobs \ {j} : job'[i] = job[i]
  BY DEF OneMoves
<1>2. sim[c] => active[c] # 0 \/ \E i \in Jobs : job'[i].c = c /\ job'[i].at = "sample"
  BY <1>1 DEF LoopsTied, LoopHeld, LoopAwaited
<1>3. ASSUME NEW i \in Jobs, job'[i].c = c, job'[i].at \in {"rated", "loop", "restart", "sample", "stopping"}
      PROVE  /\ job'[i].at \in {"rated", "loop", "restart"} => active[c] # 0
             /\ job'[i].at = "rated" => ~sim[c]
             /\ job'[i].at \in {"sample", "stopping"} => \A k \in Starting(c)' : job'[k].at \notin Early
             /\ job'[i].at = "sample" => active[c] = 0
  <2>1. i # j /\ job'[i] = job[i]
    BY <1>1, <1>3
  <2>2. /\ job[i].at \in {"rated", "loop", "restart"} => active[c] # 0
        /\ job[i].at = "rated" => ~sim[c]
        /\ job[i].at \in {"sample", "stopping"} => \A k \in Starting(c) : job[k].at \notin Early
        /\ job[i].at = "sample" => active[c] = 0
    BY <1>3, <2>1 DEF LoopsTied, LoopHeld, LoopAwaited
  <2>3. ASSUME NEW k \in Starting(c)', job'[k].at \in Early PROVE k \in Starting(c) /\ job[k].at \in Early
    BY <1>1, <2>3 DEF Starting, Early, StartPlaces
  <2>. QED
    BY <2>1, <2>2, <2>3
<1>. QED
  BY <1>2, <1>3

\* Timers stay as they are owed under a step that touches no reservation.
LEMMA ExpiryHeld ==
    ASSUME ExpiryKept, NEW j \in Jobs, OneMoves(j), UNCHANGED <<reservations, timers, armed, disposed, crossed>>,
           job[j].at \notin Between, job'[j].at \notin Between, job'[j].r \in {job[j].r, None}
    PROVE  ExpiryKept'
<1>. SUFFICES ASSUME ~crossed, NEW r \in ReservationIds
              PROVE  /\ \A i, k \in Jobs : job'[i].r = r /\ job'[k].r = r => i = k
                     /\ \A i \in Jobs : job'[i].r = r /\ job'[i].at \in Between => timers[r] # "live"
                     /\ (\A i \in Jobs : job'[i].r = r => job'[i].at \notin Between) =>
                          \A i \in Jobs : job[i].r = r => job[i].at \notin Between
  BY DEF ExpiryKept, ExpiryOf
<1>1. \A i \in Jobs \ {j} : job'[i] = job[i]
  BY DEF OneMoves
<1>2. \A i \in Jobs : job'[i].r = r => job[i].r = r
  BY <1>1, NoneIsNothing
<1>. QED
  BY <1>1, <1>2 DEF ExpiryKept, ExpiryOf

-----------------------------------------------------------------------------
(* The steps that only move a handler *)

RestKept ==
    /\ UNCHANGED <<reservations, timers, armed, disposed, crossed, active, pendingStarts, sim, handle, loops, issued>>
    /\ ~doubled' => ~doubled
    /\ ~restopped' => ~restopped
    /\ ~raced' => ~raced

\* The whole invariant under a step of a handler away from stops, loops and reservations.
LEMMA QuietSteps ==
    ASSUME CommandInv, NEW j \in Jobs, OneMoves(j), Shaped(job'[j]), RestKept,
           rowTx' \in [Connectors -> Transactions \cup {0}], stops' \in [Transactions -> Nat],
           \A tx \in Transactions : stops[tx] > 0 => stops'[tx] > 0,
           job[j].at \notin StopPlaces \cup Between,
           job'[j].at \notin {"rated", "loop", "restart"} \cup StopPlaces \cup Between,
           job'[j].at \in StartPlaces => /\ job[j].at \in StartPlaces /\ job'[j].c = job[j].c
                                         /\ job'[j].at \in Early => job[j].at \in Early,
           job'[j].r \in {job[j].r, None}
    PROVE  CommandInv'
<1>. USE DEF RestKept
<1>1. StoreTypes' /\ RemoteTypes'
  BY DEF CommandInv, StoreTypes, RemoteTypes
<1>2. JobTypes'
  BY JobsTyped DEF CommandInv
<1>3. StartsAlone'
  BY StartsKept DEF CommandInv
<1>4. StopsKnown'
  BY StopsKept DEF CommandInv, RemoteTypes
<1>5. LoopsTied'
  BY LoopsKept DEF CommandInv, StopPlaces, Early, StartPlaces
<1>6. ExpiryKept'
  BY ExpiryHeld DEF CommandInv
<1>. QED
  BY <1>1, <1>2, <1>3, <1>4, <1>5, <1>6 DEF CommandInv

\* No handler moves; a transaction may be stopped once more.
LEMMA SessionSteps ==
    ASSUME CommandInv, UNCHANGED job, RestKept,
           rowTx' \in [Connectors -> Transactions \cup {0}], stops' \in [Transactions -> Nat],
           \A tx \in Transactions : stops[tx] > 0 => stops'[tx] > 0
    PROVE  CommandInv'
<1>. USE DEF RestKept
<1>1. StoreTypes' /\ RemoteTypes' /\ JobTypes'
  BY DEF CommandInv, StoreTypes, RemoteTypes, JobTypes
<1>2. StartsAlone' /\ LoopsTied' /\ ExpiryKept'
  BY DEF CommandInv, StartsAlone, LoopsTied, LoopHeld, LoopAwaited, ExpiryKept, ExpiryOf, Starting
<1>3. StopsKnown'
  <2>1. \A i \in Jobs : Ahead(i)' = Ahead(i)
    BY DEF Ahead
  <2>2. \A tx \in Transactions : Stopping(tx)' = Stopping(tx)
    BY DEF Stopping
  <2>3. \A i \in Jobs : job[i].at = "stopping" => job[i].tx \in Transactions
    BY DEF CommandInv, JobTypes, Shaped, StopPlaces
  <2>4. issued \subseteq Transactions
    BY DEF CommandInv, RemoteTypes
  <2>. QED
    BY <2>1, <2>2, <2>3, <2>4 DEF CommandInv, StopsKnown
<1>. QED
  BY <1>1, <1>2, <1>3 DEF CommandInv

\* Counting one more StopTransaction never takes a count back to zero.
LEMMA StopCounted ==
    ASSUME RemoteTypes, NEW tx \in Transactions \cup {0},
           stops' = IF tx = 0 THEN stops ELSE [stops EXCEPT ![tx] = @ + 1]
    PROVE  stops' \in [Transactions -> Nat] /\ \A t \in Transactions : stops[t] > 0 => stops'[t] > 0
BY NoTransaction DEF RemoteTypes

\* Nothing is stored, running or under way at first.
LEMMA CommandsStart == RemoteInit => CommandInv
<1>. SUFFICES ASSUME RemoteInit PROVE CommandInv
  OBVIOUS
<1>1. StoreTypes /\ RemoteTypes
  BY DEF RemoteInit, ReservationInit, StoreTypes, RemoteTypes
<1>2. \A j \in Jobs : job[j] = Idle
  BY DEF RemoteInit, ReservationInit
<1>3. JobTypes
  BY <1>2, IdleJob DEF RemoteInit, ReservationInit, JobTypes
<1>4. StartsAlone
  BY <1>2 DEF StartsAlone, Starting, StartPlaces, Idle
<1>5. StopsKnown
  BY <1>2 DEF StopsKnown, Ahead, Idle, RemoteInit
<1>6. LoopsTied
  BY <1>2 DEF LoopsTied, LoopHeld, LoopAwaited, Idle, RemoteInit
<1>7. ExpiryKept
  BY <1>2, NoneIsNothing DEF ExpiryKept, ExpiryOf, Idle, RemoteInit, ReservationInit
<1>. QED
  BY <1>1, <1>3, <1>4, <1>5, <1>6, <1>7 DEF CommandInv

\* The invariant says what the four properties say.
LEMMA CommandsSuffice ==
    ASSUME CommandInv
    PROVE  ExpiryIsOwned /\ StartCallExclusive /\ NoForgottenTransaction /\ LoopsOwned
<1>1. ExpiryIsOwned
  <2>. SUFFICES ASSUME ~crossed, NEW r \in ReservationIds, ~disposed, ~Meets(r)
                PROVE  (timers[r] = "live") = (reservations[r] # None)
    BY DEF CommandInv, ExpiryKept, ExpiryOf, ExpiryIsOwned
  <2>. QED
    BY DEF CommandInv, ExpiryKept, ExpiryOf, Meets
<1>2. StartCallExclusive
  <2>. SUFFICES ASSUME ~doubled, NEW c \in Connectors
                PROVE  /\ Cardinality(Starting(c)) <= 1
                       /\ \A j \in Starting(c) : job[j].at \in {"prepare", "waiting", "call"} => active[c] = 0
    BY DEF StartCallExclusive
  <2>1. Cardinality(Starting(c)) <= 1
    <3>1. CASE Starting(c) = {}
      BY <3>1, FS_EmptySet
    <3>2. ASSUME NEW j \in Starting(c) PROVE Cardinality(Starting(c)) <= 1
      <4>1. Starting(c) = {j}
        BY <3>2 DEF CommandInv, StartsAlone
      <4>2. Cardinality({j}) = 1
        BY FS_Singleton
      <4>. QED
        BY <4>1, <4>2
    <3>. QED
      BY <3>1, <3>2
  <2>. QED
    BY <2>1 DEF CommandInv, StartsAlone, Early
<1>3. NoForgottenTransaction
  BY DEF CommandInv, StopsKnown, NoForgottenTransaction
<1>4. LoopsOwned
  BY DEF CommandInv, LoopsTied, LoopHeld, LoopAwaited, LoopsOwned
<1>. QED
  BY <1>1, <1>2, <1>3, <1>4

\* The places a start, a stop and a change of a reservation go through, listed.
LEMMA PlacesDiffer ==
    /\ StartPlaces = {"begin", "authorize", "prepare", "waiting", "call", "rated", "loop", "adopt", "finally"}
    /\ StopPlaces = {"stop", "sample", "stopping"}
    /\ Early = {"begin", "authorize", "prepare", "waiting", "call"}
    /\ Between = {"delete", "store", "expire", "expired"}
    /\ StartPlaces \subseteq Places /\ StopPlaces \subseteq Places /\ Between \subseteq Places
BY DEF StartPlaces, StopPlaces, Early, Between, Places

\* The steps of a start that only wait or change the row (prepareStart, Authorize, adopt).
LEMMA StartStepsQuiet ==
    ASSUME CommandInv, NEW j \in Jobs,
           \/ StartBegins(j) \/ Authorized(j) \/ Prepares(j) \/ PreparePolls(j) \/ StartAdopted(j)
    PROVE  CommandInv'
<1>0. JobTypes /\ job \in [Jobs -> JobStates] /\ Shaped(job[j])
  BY DEF CommandInv, JobTypes
<1>1. PICK at \in {"authorize", "prepare", "finally", "waiting", "call"} :
        job' = [job EXCEPT ![j].at = at] /\ (at # "finally" => job[j].at \in Early)
  BY DEF StartBegins, Authorized, Prepares, PreparePolls, StartAdopted, StartFails, Goto, At, Early
<1>2. job[j].at \in {"begin", "authorize", "prepare", "waiting", "adopt"}
  BY DEF StartBegins, Authorized, Prepares, PreparePolls, StartAdopted, At
<1>3. RestKept /\ UNCHANGED stops
  BY DEF StartBegins, Authorized, Prepares, PreparePolls, StartAdopted, Keep, Store, Meter, Histories,
         remoteVars, RestKept
<1>4. rowTx' \in [Connectors -> Transactions \cup {0}]
  <2>1. CASE StartAdopted(j)
    <3>1. job[j].tx \in Transactions
      BY <1>0, <2>1 DEF StartAdopted, At, Shaped
    <3>. QED
      BY <2>1, <3>1 DEF StartAdopted, CommandInv, RemoteTypes
  <2>2. CASE ~StartAdopted(j)
    BY <2>2 DEF StartBegins, Authorized, Prepares, PreparePolls, Keep, remoteVars, CommandInv, RemoteTypes
  <2>. QED
    BY <2>1, <2>2
<1>5. at \in Places
  BY PlacesDiffer
<1>6. /\ OneMoves(j) /\ job'[j].at = at /\ job'[j].op = job[j].op /\ job'[j].c = job[j].c
      /\ job'[j].r = job[j].r /\ job'[j].tag = job[j].tag /\ job'[j].tx = job[j].tx
      /\ job'[j].todo = job[j].todo
  BY <1>0, <1>1, <1>5, GotoMoves
<1>7. Shaped(job'[j])
  BY <1>0, <1>2, <1>6, PlacesDiffer DEF Shaped
<1>8. stops \in [Transactions -> Nat]
  BY DEF CommandInv, RemoteTypes
<1>. QED
  BY <1>1, <1>2, <1>3, <1>4, <1>6, <1>7, <1>8, PlacesDiffer, QuietSteps

\* A handler that begins was idle and holds no reservation.
LEMMA BeginMoves ==
    ASSUME JobTypes, NEW j \in Jobs, NEW s \in JobStates, Begin(j, s)
    PROVE  OneMoves(j) /\ job'[j] = s /\ job[j].at = "idle" /\ job[j].r = None
<1>1. job[j] = Idle /\ job' = [job EXCEPT ![j] = s]
  BY DEF Begin
<1>. QED
  BY <1>1, SetMoves, IdleJob DEF JobTypes

\* What a step that keeps the state of both components leaves alone.
LEMMA RemoteRests ==
    ASSUME Keep(<<Store, disposed, crossed, remoteVars>>)
    PROVE  RestKept /\ UNCHANGED <<rowTx, stops>>
BY DEF Keep, Store, remoteVars, RestKept

\* The types of two variables that a step leaves alone.
LEMMA StopsRest ==
    ASSUME CommandInv, UNCHANGED <<rowTx, stops>>
    PROVE  /\ rowTx' \in [Connectors -> Transactions \cup {0}] /\ stops' \in [Transactions -> Nat]
           /\ \A tx \in Transactions : stops[tx] > 0 => stops'[tx] > 0
BY DEF CommandInv, RemoteTypes

\* A step to one of the places where a handler holds nothing keeps the invariant.
LEMMA StepsElsewhere ==
    ASSUME CommandInv, NEW j \in Jobs, NEW at \in {"idle", "reset", "snapshot", "config", "operative", "inoperative",
                                                   "requested", "list"},
           OneMoves(j), Shaped(job'[j]), job'[j].at = at, job'[j].r \in {job[j].r, None},
           RestKept, UNCHANGED <<rowTx, stops>>, job[j].at \notin StopPlaces \cup Between
    PROVE  CommandInv'
<1>1. at \notin {"rated", "loop", "restart"} \cup StopPlaces \cup Between /\ at \notin StartPlaces
  BY PlacesDiffer
<1>. QED
  BY <1>1, StopsRest, QuietSteps

\* Reset is answered and its work deferred: nothing has changed yet.
LEMMA ResetKeeps ==
    ASSUME CommandInv, NEW j \in Jobs, Reset(j)
    PROVE  CommandInv'
<1>. DEFINE s == [Idle EXCEPT !.op = "reset", !.at = "reset"]
<1>1. s \in JobStates /\ s.op = "reset" /\ s.at = "reset" /\ s.r = None /\ s.todo = {}
  BY IdleJob DEF JobStates, Operations, Places
<1>2. Begin(j, s)
  BY DEF Reset
<1>. HIDE DEF s
<1>3. OneMoves(j) /\ job'[j] = s /\ job[j].at = "idle"
  BY <1>1, <1>2, BeginMoves DEF CommandInv
<1>4. Shaped(s)
  BY <1>1, PlacesDiffer DEF Shaped
<1>5. RestKept /\ UNCHANGED <<rowTx, stops>>
  BY RemoteRests DEF Reset, Keep
<1>. QED
  BY <1>1, <1>3, <1>4, <1>5, PlacesDiffer, StepsElsewhere

\* ChangeConfiguration is answered before its callback touches the loops.
LEMMA IntervalKeeps ==
    ASSUME CommandInv, NEW j \in Jobs, ChangeInterval(j)
    PROVE  CommandInv'
<1>. DEFINE s == [Idle EXCEPT !.op = "config", !.at = "config"]
<1>1. s \in JobStates /\ s.op = "config" /\ s.at = "config" /\ s.r = None /\ s.todo = {}
  BY IdleJob DEF JobStates, Operations, Places
<1>2. Begin(j, s)
  BY DEF ChangeInterval
<1>. HIDE DEF s
<1>3. OneMoves(j) /\ job'[j] = s /\ job[j].at = "idle"
  BY <1>1, <1>2, BeginMoves DEF CommandInv
<1>4. Shaped(s)
  BY <1>1, PlacesDiffer DEF Shaped
<1>5. RestKept /\ UNCHANGED <<rowTx, stops>>
  BY RemoteRests DEF ChangeInterval, Keep
<1>. QED
  BY <1>1, <1>3, <1>4, <1>5, PlacesDiffer, StepsElsewhere

\* ChangeAvailability is answered before it is carried out.
LEMMA AvailabilityKeeps ==
    ASSUME CommandInv, NEW j \in Jobs, NEW cs \in (SUBSET Connectors) \ {{}}, NEW operative \in BOOLEAN,
           ChangeAvailability(j, cs, operative)
    PROVE  CommandInv'
<1>. DEFINE updates == {c \in cs : IF operative THEN connStatus[c] = "Unavailable" ELSE active[c] = 0}
            s == [Idle EXCEPT !.op = "availability", !.todo = updates \X {0},
                                !.at = IF operative THEN "operative" ELSE "inoperative"]
<1>0. updates \X {0} \subseteq Connectors \X Nat /\ updates \X {0} \subseteq Connectors \X {0}
  OBVIOUS
<1>2. Begin(j, s)
  BY DEF ChangeAvailability
<1>. HIDE DEF updates
<1>1. /\ s \in JobStates /\ s.op = "availability" /\ s.at \in {"operative", "inoperative"} /\ s.r = None
      /\ s.todo = updates \X {0}
  BY <1>0, IdleJob DEF JobStates, Operations, Places
<1>. HIDE DEF s
<1>3. OneMoves(j) /\ job'[j] = s /\ job[j].at = "idle"
  BY <1>1, <1>2, BeginMoves DEF CommandInv
<1>4. Shaped(s)
  BY <1>0, <1>1, PlacesDiffer DEF Shaped
<1>5. RestKept /\ UNCHANGED <<rowTx, stops>>
  BY RemoteRests DEF ChangeAvailability, Keep
<1>. QED
  BY <1>1, <1>3, <1>4, <1>5, PlacesDiffer, StepsElsewhere

\* requestStop defers the stop of a transaction that the row has and the table has not.
LEMMA RequestKeeps ==
    ASSUME CommandInv, NEW j \in Jobs, NEW c \in Connectors, RequestStop(j, c)
    PROVE  CommandInv'
<1>. DEFINE s == [Idle EXCEPT !.op = "requested", !.at = "requested", !.c = c, !.tx = rowTx[c]]
<1>0. rowTx[c] \in Nat
  <2>1. rowTx[c] \in Transactions \cup {0}
    BY DEF CommandInv, RemoteTypes
  <2>. QED
    BY <2>1, NoTransaction
<1>1. /\ s \in JobStates /\ s.op = "requested" /\ s.at = "requested" /\ s.r = None /\ s.todo = {} /\ s.c = c
  BY <1>0, IdleJob DEF JobStates, Operations, Places
<1>2. Begin(j, s)
  BY DEF RequestStop
<1>. HIDE DEF s
<1>3. OneMoves(j) /\ job'[j] = s /\ job[j].at = "idle"
  BY <1>1, <1>2, BeginMoves DEF CommandInv
<1>4. Shaped(s)
  BY <1>1, PlacesDiffer DEF Shaped
<1>5. RestKept /\ UNCHANGED <<rowTx, stops>>
  BY DEF RequestStop, Keep, Store, Meter, RestKept
<1>. QED
  BY <1>1, <1>3, <1>4, <1>5, PlacesDiffer, StepsElsewhere

\* What requestStop deferred stops the transaction of the row and frees it.
LEMMA RequestedKeeps ==
    ASSUME CommandInv, NEW j \in Jobs, RequestedStops(j)
    PROVE  CommandInv'
<1>0. JobTypes /\ Shaped(job[j]) /\ job[j].at = "requested" /\ RemoteTypes /\ job \in [Jobs -> JobStates]
  BY DEF CommandInv, JobTypes, RequestedStops, At
<1>1. PICK c \in Connectors : c = job[j].c
  BY <1>0 DEF Shaped
<1>2. job' = [job EXCEPT ![j] = Idle] /\ RestKept
  BY DEF RequestedStops, Keep, Store, Meter, Histories, RestKept
<1>3. OneMoves(j) /\ job'[j].at = "idle" /\ job'[j].r = None /\ Shaped(job'[j])
  BY <1>0, <1>2, DoneMoves
<1>4. rowTx' = [rowTx EXCEPT ![c] = 0] /\ rowTx[c] \in Transactions \cup {0}
  BY <1>0, <1>1 DEF RequestedStops, FreeRow, RemoteTypes
<1>5. stops' = IF rowTx[c] = 0 THEN stops ELSE [stops EXCEPT ![rowTx[c]] = @ + 1]
  BY <1>1 DEF RequestedStops
<1>6. stops' \in [Transactions -> Nat] /\ \A t \in Transactions : stops[t] > 0 => stops'[t] > 0
  BY <1>0, <1>4, <1>5, StopCounted
<1>7. rowTx' \in [Connectors -> Transactions \cup {0}]
  BY <1>0, <1>4 DEF RemoteTypes
<1>. QED
  BY <1>0, <1>2, <1>3, <1>6, <1>7, PlacesDiffer, QuietSteps

\* A Reset frees the rows that wait for a vehicle; the table stays as it is.
LEMMA CancelsKeep ==
    ASSUME CommandInv, NEW j \in Jobs, ResetCancels(j)
    PROVE  CommandInv'
<1>0. JobTypes /\ Shaped(job[j]) /\ job[j].at = "reset" /\ job \in [Jobs -> JobStates]
  BY DEF CommandInv, JobTypes, ResetCancels, At
<1>1. job' = [job EXCEPT ![j].at = "snapshot"] /\ RestKept /\ UNCHANGED <<rowTx, stops>>
  BY DEF ResetCancels, Keep, Store, Meter, Histories, RestKept
<1>2. "snapshot" \in Places
  BY DEF Places
<1>3. /\ OneMoves(j) /\ job'[j].at = "snapshot" /\ job'[j].op = job[j].op /\ job'[j].r = job[j].r
      /\ job'[j].tag = job[j].tag /\ job'[j].todo = job[j].todo
  BY <1>0, <1>1, <1>2, GotoMoves
<1>4. Shaped(job'[j])
  BY <1>0, <1>3, PlacesDiffer DEF Shaped
<1>. QED
  BY <1>0, <1>1, <1>3, <1>4, PlacesDiffer, StepsElsewhere

\* A deferred ChangeAvailability changes statuses only.
LEMMA ChangesKeep ==
    ASSUME CommandInv, NEW j \in Jobs, AvailabilityChanges(j)
    PROVE  CommandInv'
<1>0. JobTypes /\ job[j].at \in {"operative", "inoperative"} /\ job \in [Jobs -> JobStates]
  BY DEF CommandInv, JobTypes, AvailabilityChanges
<1>1. job' = [job EXCEPT ![j] = Idle] /\ Keep(<<Store, disposed, crossed, remoteVars>>)
  BY DEF AvailabilityChanges, Keep
<1>2. OneMoves(j) /\ job'[j].at = "idle" /\ job'[j].r = None /\ Shaped(job'[j])
  BY <1>0, <1>1, DoneMoves
<1>. QED
  BY <1>0, <1>1, <1>2, PlacesDiffer, RemoteRests, StepsElsewhere

-----------------------------------------------------------------------------
(* A start is accepted *)

LEMMA AcceptedKeeps ==
    ASSUME CommandInv, NEW j \in Jobs, NEW c \in Connectors, OneMoves(j), job'[j].at = "begin", job'[j].c = c,
           Shaped(job'[j]), job'[j].r \in {job[j].r, None}, job[j].at \in {"idle", "redeemed", "profile"},
           pendingStarts' = pendingStarts \cup {c},
           UNCHANGED <<reservations, timers, armed, disposed, crossed, active, rowTx, sim, handle, loops, issued,
                       stops, restopped, raced>>,
           ~doubled' => /\ ~doubled /\ active[c] = 0 /\ Starting(c) = {}
                        /\ \A i \in Jobs : job[i].c = c => job[i].at \notin StopPlaces
    PROVE  CommandInv'
<1>1. StoreTypes' /\ RemoteTypes'
  BY DEF CommandInv, StoreTypes, RemoteTypes
<1>2. JobTypes'
  BY JobsTyped DEF CommandInv
<1>3. \A i \in Jobs \ {j} : job'[i] = job[i]
  BY DEF OneMoves
<1>4. Starting(c)' \subseteq Starting(c) \cup {j} /\ \A d \in Connectors \ {c} : Starting(d)' = Starting(d)
  BY <1>3, PlacesDiffer DEF Starting
<1>5. StartsAlone'
  BY <1>4, <1>3 DEF CommandInv, StartsAlone, Starting
<1>6. StopsKnown'
  BY PlacesDiffer, StopsKept DEF CommandInv, RemoteTypes
<1>7. LoopsTied'
  <2>. SUFFICES ASSUME ~raced', ~doubled', ~restopped', NEW d \in Connectors
                PROVE  /\ sim[d] => active[d] # 0 \/ \E i \in Jobs : job'[i].c = d /\ job'[i].at = "sample"
                       /\ \A i \in Jobs : job'[i].c = d =>
                            /\ job'[i].at \in {"rated", "loop", "restart"} => active[d] # 0
                            /\ job'[i].at = "rated" => ~sim[d]
                            /\ job'[i].at \in {"sample", "stopping"} => \A k \in Starting(d)' : job'[k].at \notin Early
                            /\ job'[i].at = "sample" => active[d] = 0
    BY DEF CommandInv, LoopsTied, LoopHeld, LoopAwaited
  <2>1. LoopsTied /\ ~raced /\ ~doubled /\ ~restopped
    BY DEF CommandInv
  <2>2. sim[d] => active[d] # 0 \/ \E i \in Jobs : job'[i].c = d /\ job'[i].at = "sample"
    BY <1>3, <2>1 DEF LoopsTied, LoopHeld, LoopAwaited
  <2>3. ASSUME NEW i \in Jobs, job'[i].c = d, i # j
        PROVE  /\ job'[i].at \in {"rated", "loop", "restart"} => active[d] # 0
               /\ job'[i].at = "rated" => ~sim[d]
               /\ job'[i].at \in {"sample", "stopping"} => \A k \in Starting(d)' : job'[k].at \notin Early
               /\ job'[i].at = "sample" => active[d] = 0
    <3>1. job'[i] = job[i]
      BY <1>3, <2>3
    <3>2. job'[i].at \in {"sample", "stopping"} => \A k \in Starting(d)' : job'[k].at \notin Early
      <4>. SUFFICES ASSUME job[i].at \in {"sample", "stopping"}, NEW k \in Starting(d)' PROVE job'[k].at \notin Early
        BY <3>1
      <4>1. d # c
        BY <2>3, <3>1, PlacesDiffer
      <4>2. k \in Starting(d) /\ k # j
        BY <1>4, <4>1 DEF Starting
      <4>. QED
        BY <1>3, <2>1, <2>3, <3>1, <4>2 DEF LoopsTied, LoopHeld, LoopAwaited, Starting
    <3>. QED
      BY <2>1, <2>3, <3>1, <3>2 DEF LoopsTied, LoopHeld, LoopAwaited
  <2>. QED
    BY <2>2, <2>3
<1>8. ExpiryKept'
  BY PlacesDiffer, ExpiryHeld DEF CommandInv
<1>. QED
  BY <1>1, <1>2, <1>5, <1>6, <1>7, <1>8 DEF CommandInv

\* Accepted at once, or after the profile is stored.
LEMMA AcceptsOrStores ==
    ASSUME CommandInv, NEW j \in Jobs, NEW c \in Connectors, NEW start \in JobStates, start.c = c, start.op = "start",
           start.todo \subseteq Connectors \X {0}, start.r \in {job[j].r, None}, AcceptOrStore(j, start), job[j].at \in {"idle", "redeemed"},
           UNCHANGED <<reservations, timers, armed, disposed, crossed, active, rowTx, sim, handle, loops, issued,
                       stops, restopped, raced>>,
           ~doubled' => /\ ~doubled /\ active[c] = 0 /\ Starting(c) = {}
                        /\ \A i \in Jobs : job[i].c = c => job[i].at \notin StopPlaces
    PROVE  CommandInv'
<1>0. job \in [Jobs -> JobStates]
  BY DEF CommandInv, JobTypes
<1>1. CASE Accept(j, start.c) /\ job' = [job EXCEPT ![j] = [start EXCEPT !.at = "begin"]]
  <2>. DEFINE s == [start EXCEPT !.at = "begin"]
  <2>1. /\ s \in JobStates /\ s.at = "begin" /\ s.c = c /\ s.op = "start" /\ s.todo = start.todo /\ s.r = start.r
    BY DEF JobStates, Places, StartPlaces
  <2>2. job' = [job EXCEPT ![j] = s]
    BY <1>1
  <2>. HIDE DEF s
  <2>3. OneMoves(j) /\ job'[j] = s
    BY <1>0, <2>1, <2>2, SetMoves
  <2>4. Shaped(s)
    BY <2>1, PlacesDiffer DEF Shaped
  <2>5. pendingStarts' = pendingStarts \cup {c}
    BY <1>1 DEF Accept
  <2>. QED
    BY <2>1, <2>3, <2>4, <2>5, AcceptedKeeps
<1>2. CASE job' = [job EXCEPT ![j] = [start EXCEPT !.at = "profile"]] /\ UNCHANGED <<pendingStarts, deferred>>
  <2>. DEFINE s == [start EXCEPT !.at = "profile"]
  <2>1. /\ s \in JobStates /\ s.at = "profile" /\ s.c = c /\ s.op = "start" /\ s.todo = start.todo /\ s.r = start.r
    BY DEF JobStates, Places
  <2>2. job' = [job EXCEPT ![j] = s]
    BY <1>2
  <2>. HIDE DEF s
  <2>3. OneMoves(j) /\ job'[j] = s
    BY <1>0, <2>1, <2>2, SetMoves
  <2>4. Shaped(s)
    BY <2>1, PlacesDiffer DEF Shaped
  <2>5. RestKept
    BY <1>2 DEF RestKept
  <2>. QED
    BY <2>1, <2>3, <2>4, <2>5, PlacesDiffer, StopsRest, QuietSteps
<1>. QED
  BY <1>1, <1>2 DEF AcceptOrStore

\* RemoteStartTransaction is accepted, or awaits a reservation or a profile first.
LEMMA RemoteStartKeeps ==
    ASSUME CommandInv, NEW j \in Jobs, NEW c \in Connectors, NEW tag \in Tags, RemoteStart(j, c, tag)
    PROVE  CommandInv'
<1>0. UNCHANGED <<reservations, timers, armed, disposed, crossed, active, rowTx, sim, handle, loops, issued, stops,
                  restopped, raced>>
  BY DEF RemoteStart, Keep, Store, Meter
<1>1. CASE /\ Begin(j, [Idle EXCEPT !.op = "redeem", !.at = "list", !.c = c, !.tag = tag])
           /\ UNCHANGED <<pendingStarts, doubled, deferred>>
  <2>. DEFINE s == [Idle EXCEPT !.op = "redeem", !.at = "list", !.c = c, !.tag = tag]
  <2>1. s \in JobStates /\ s.op = "redeem" /\ s.at = "list" /\ s.r = None /\ s.todo = {} /\ s.c = c
    BY IdleJob DEF JobStates, Operations, Places
  <2>2. Begin(j, s)
    BY <1>1
  <2>. HIDE DEF s
  <2>3. OneMoves(j) /\ job'[j] = s /\ job[j].at = "idle"
    BY <2>1, <2>2, BeginMoves DEF CommandInv
  <2>4. Shaped(s)
    BY <2>1, PlacesDiffer DEF Shaped
  <2>5. RestKept
    BY <1>0, <1>1 DEF RestKept
  <2>. QED
    BY <1>0, <2>1, <2>3, <2>4, <2>5, PlacesDiffer, StepsElsewhere
<1>2. CASE /\ job[j] = Idle
           /\ AcceptOrStore(j, [Idle EXCEPT !.op = "start", !.c = c, !.tag = tag])
           /\ doubled' = (doubled \/ \E i \in Jobs : job[i].c = c /\ job[i].at \in StopPlaces)
  <2>. DEFINE s == [Idle EXCEPT !.op = "start", !.c = c, !.tag = tag]
  <2>1. s \in JobStates /\ s.op = "start" /\ s.r = None /\ s.todo = {} /\ s.c = c
    BY IdleJob DEF JobStates, Operations, Places
  <2>2. AcceptOrStore(j, s)
    BY <1>2
  <2>. HIDE DEF s
  <2>3. c \notin pendingStarts /\ active[c] = 0
    BY DEF RemoteStart
  <2>4. ~doubled' => ~doubled /\ \A i \in Jobs : job[i].c = c => job[i].at \notin StopPlaces
    BY <1>2
  <2>5. ~doubled => Starting(c) = {}
    BY <2>3 DEF CommandInv, StartsAlone
  <2>6. job[j].at = "idle"
    BY <1>2, IdleJob
  <2>. QED
    BY <1>0, <2>1, <2>2, <2>3, <2>4, <2>5, <2>6, AcceptsOrStores
<1>. QED
  BY <1>1, <1>2 DEF RemoteStart

\* A connector that nothing is under way on has no transaction, no start and no stop.
LEMMA NotUnderWay ==
    ASSUME NEW c \in Connectors, ~UnderWay(c)
    PROVE  /\ active[c] = 0 /\ Starting(c) = {}
           /\ \A i \in Jobs : job[i].c = c => job[i].at \notin StopPlaces
BY DEF UnderWay, Starting

\* A start that has redeemed a reservation; two that meet there are counted as doubled.
LEMMA RedeemedKeeps ==
    ASSUME CommandInv, NEW j \in Jobs, Redeemed(j)
    PROVE  CommandInv'
<1>0. JobTypes /\ Shaped(job[j]) /\ job[j].at = "redeemed" /\ job[j] \in JobStates
  BY DEF CommandInv, JobTypes, Redeemed, At
<1>1. PICK c \in Connectors : c = job[j].c
  BY <1>0 DEF Shaped
<1>. DEFINE s == [job[j] EXCEPT !.op = "start"]
<1>2. s \in JobStates /\ s.op = "start" /\ s.r = job[j].r /\ s.todo = job[j].todo /\ s.c = c
  BY <1>0, <1>1 DEF JobStates, Operations
<1>6. job[j].todo \subseteq Connectors \X {0}
  BY <1>0, PlacesDiffer DEF Shaped
<1>3. AcceptOrStore(j, s)
  BY DEF Redeemed
<1>. HIDE DEF s
<1>4. UNCHANGED <<reservations, timers, armed, disposed, crossed, active, rowTx, sim, handle, loops, issued, stops,
                  restopped, raced>>
  BY DEF Redeemed, Keep, Store, Meter
<1>5. ~doubled' => ~doubled /\ ~UnderWay(c)
  BY <1>1 DEF Redeemed
<1>. QED
  BY <1>0, <1>2, <1>3, <1>4, <1>5, <1>6, NotUnderWay, AcceptsOrStores

\* A start that has stored its profile; two that meet there are counted as doubled.
LEMMA StoredKeeps ==
    ASSUME CommandInv, NEW j \in Jobs, ProfileStored(j)
    PROVE  CommandInv'
<1>0. JobTypes /\ Shaped(job[j]) /\ job[j].at = "profile" /\ job \in [Jobs -> JobStates]
  BY DEF CommandInv, JobTypes, ProfileStored, At
<1>1. PICK c \in Connectors : c = job[j].c
  BY <1>0 DEF Shaped
<1>2. "begin" \in Places
  BY PlacesDiffer
<1>3. job' = [job EXCEPT ![j].at = "begin"]
  BY DEF ProfileStored
<1>4. /\ OneMoves(j) /\ job'[j].at = "begin" /\ job'[j].c = c /\ job'[j].op = job[j].op /\ job'[j].r = job[j].r
      /\ job'[j].tag = job[j].tag /\ job'[j].todo = job[j].todo
  BY <1>0, <1>1, <1>2, <1>3, GotoMoves
<1>5. Shaped(job'[j])
  BY <1>0, <1>4, PlacesDiffer DEF Shaped
<1>6. pendingStarts' = pendingStarts \cup {c} /\ (~doubled' => ~doubled /\ ~UnderWay(c))
  BY <1>1 DEF ProfileStored, Accept
<1>7. UNCHANGED <<reservations, timers, armed, disposed, crossed, active, rowTx, sim, handle, loops, issued, stops,
                  restopped, raced>>
  BY DEF ProfileStored, Keep, Store, Meter
<1>. QED
  BY <1>0, <1>4, <1>5, <1>6, <1>7, NotUnderWay, AcceptedKeeps

-----------------------------------------------------------------------------
(* A start is answered, simulated and ends *)

LEMMA NextTransaction ==
    ASSUME RemoteTypes, Cardinality(issued) < MaxTransactions
    PROVE  Cardinality(issued) + 1 \in Transactions
<1>1. IsFiniteSet(Transactions)
  BY RemoteAssumption, FS_Interval DEF Transactions
<1>2. IsFiniteSet(issued)
  BY <1>1, FS_Subset DEF RemoteTypes
<1>3. Cardinality(issued) \in Nat
  BY <1>2, FS_CardinalityType
<1>. QED
  BY <1>3, RemoteAssumption DEF Transactions

\* StartTransaction is accepted: the transaction enters the table, its start goes on.
LEMMA AnsweredKeeps ==
    ASSUME CommandInv, NEW j \in Jobs, NEW tx \in Transactions, NEW c \in Connectors, job[j].at = "call", job[j].c = c,
           OneMoves(j), job'[j].at = "rated", job'[j].tx = tx, job'[j].c = c, job'[j].r = job[j].r,
           job'[j].todo = job[j].todo, Shaped(job'[j]),
           issued' = issued \cup {tx}, active' = [active EXCEPT ![c] = tx],
           UNCHANGED <<reservations, timers, armed, disposed, crossed, pendingStarts, rowTx, sim, handle, loops, stops,
                       doubled, restopped, raced>>
    PROVE  CommandInv'
<1>0. JobTypes /\ Shaped(job[j]) /\ RemoteTypes
  BY DEF CommandInv, JobTypes
<1>4. \A i \in Jobs \ {j} : job'[i] = job[i]
  BY DEF OneMoves
<1>6. /\ active \in [Connectors -> Transactions \cup {0}] /\ tx # 0 /\ active'[c] = tx
      /\ \A d \in Connectors \ {c} : active'[d] = active[d]
  BY <1>0, NoTransaction DEF RemoteTypes
<1>7. StoreTypes' /\ RemoteTypes'
  BY <1>6 DEF CommandInv, StoreTypes, RemoteTypes
<1>8. JobTypes'
  BY <1>0, JobsTyped
<1>9. j \in Starting(c) /\ \A d \in Connectors : Starting(d)' = Starting(d)
  BY <1>4, PlacesDiffer DEF Starting
<1>10. ~doubled => active[c] = 0 /\ \A i \in Starting(c) : i = j
  BY <1>0, <1>9, PlacesDiffer DEF CommandInv, StartsAlone
<1>11. StartsAlone'
  <2>1. ASSUME ~doubled, NEW d \in Connectors, NEW i \in Starting(d), job'[i].at \in Early
        PROVE  active'[d] = 0
    <3>1. i # j
      BY <2>1, PlacesDiffer
    <3>2. d # c /\ job'[i] = job[i]
      BY <1>4, <1>10, <2>1, <3>1 DEF Starting
    <3>. QED
      BY <1>6, <2>1, <3>2 DEF CommandInv, StartsAlone
  <2>2. \A d \in Connectors : Starting(d)' = Starting(d)
    BY <1>9
  <2>. QED
    BY <2>1, <2>2 DEF CommandInv, StartsAlone
<1>12. StopsKnown'
  <2>1. \A i \in Jobs : Ahead(i)' = Ahead(i)
    BY <1>4 DEF Ahead
  <2>2. \A i \in Jobs : job'[i].at = "stopping" => stops[job'[i].tx] > 0
    BY <1>4 DEF CommandInv, StopsKnown
  <2>3. ASSUME ~doubled, ~restopped, NEW i \in Jobs, NEW entry \in Ahead(i) PROVE active'[entry[1]] = entry[2]
    <3>1. entry[1] \in Connectors /\ entry[2] # 0 /\ active[entry[1]] = entry[2]
      BY <2>3, NoTransaction DEF Ahead, CommandInv, StopsKnown
    <3>2. entry[1] # c
      BY <1>10, <2>3, <3>1
    <3>. QED
      BY <1>6, <3>1, <3>2
  <2>4. \A i \in Jobs : ~doubled /\ ~restopped /\ job'[i].at = "stop" =>
          <<job'[i].c, job'[i].tx>> \notin job'[i].todo
    BY <1>4 DEF CommandInv, StopsKnown
  <2>5. ASSUME ~doubled, ~restopped, NEW t \in issued'
        PROVE  \/ \E d \in Connectors : active'[d] = t
               \/ stops[t] > 0 \/ Stopping(t)' # {}
    <3>1. CASE t = tx
      BY <1>6, <3>1
    <3>2. CASE t \in issued
      <4>0. t \in Transactions
        BY <1>0, <3>2 DEF RemoteTypes
      <4>1. Stopping(t) \subseteq Stopping(t)'
        BY <1>4, PlacesDiffer DEF Stopping
      <4>2. ASSUME NEW d \in Connectors, active[d] = t PROVE active'[d] = t
        BY <1>6, <1>10, <2>5, <4>0, <4>2, NoTransaction
      <4>. QED
        BY <2>5, <3>2, <4>1, <4>2 DEF CommandInv, StopsKnown
    <3>. QED
      BY <3>1, <3>2
  <2>6. /\ ~doubled' => ~doubled
        /\ ~restopped' => ~restopped
    OBVIOUS
  <2>7. \A i, k \in Jobs : \A d \in Ahead(i)' : \A e \in Ahead(k)' :
          ~doubled /\ ~restopped /\ d[1] = e[1] => i = k
    BY <2>1 DEF CommandInv, StopsKnown
  <2>. QED
    BY <2>1, <2>2, <2>3, <2>4, <2>5, <2>6, <2>7 DEF StopsKnown
<1>13. LoopsTied'
  <2>. SUFFICES ASSUME ~raced, ~doubled, ~restopped, NEW d \in Connectors
                PROVE  /\ handle[d] => active'[d] # 0
                       /\ sim[d] => active'[d] # 0 \/ \E i \in Jobs : job'[i].c = d /\ job'[i].at = "sample"
                       /\ \A i \in Jobs : job'[i].c = d =>
                            /\ job'[i].at \in {"rated", "loop", "restart"} => active'[d] # 0
                            /\ job'[i].at = "rated" => ~sim[d]
                            /\ job'[i].at \in {"sample", "stopping"} => \A k \in Starting(d)' : job'[k].at \notin Early
                            /\ job'[i].at = "sample" => active'[d] = 0
    BY DEF CommandInv, LoopsTied, LoopHeld, LoopAwaited
  <2>0. LoopsTied /\ ~raced /\ ~doubled /\ ~restopped
    BY DEF CommandInv
  <2>1. (active[d] # 0 => active'[d] # 0) /\ active'[c] # 0 /\ (d # c => active'[d] = active[d])
    BY <1>6
  <2>2. handle[d] => active'[d] # 0
    BY <2>0, <2>1 DEF LoopsTied, LoopHeld, LoopAwaited
  <2>3. \A i \in Jobs : job[i].c = c => job[i].at \notin {"sample", "stopping"}
    BY <1>0, <1>9, <2>0, PlacesDiffer DEF LoopsTied, LoopHeld, LoopAwaited
  <2>4. ~sim[c]
    BY <1>10, <2>0, <2>3 DEF LoopsTied, LoopHeld, LoopAwaited
  <2>5. sim[d] => active'[d] # 0 \/ \E i \in Jobs : job'[i].c = d /\ job'[i].at = "sample"
    BY <1>4, <2>0, <2>1 DEF LoopsTied, LoopHeld, LoopAwaited
  <2>6. CASE d = c
    BY <1>4, <2>1, <2>2, <2>3, <2>4, <2>5, <2>6
  <2>7. CASE d # c
    <3>1. \A i \in Jobs : job'[i].c = d => i # j /\ job'[i] = job[i]
      BY <1>4, <2>7
    <3>2. \A k \in Starting(d)' : k \in Starting(d) /\ job'[k] = job[k]
      BY <1>9, <3>1 DEF Starting
    <3>3. \A i \in Jobs : job'[i].c = d =>
            /\ job'[i].at \in {"rated", "loop", "restart"} => active'[d] # 0
            /\ job'[i].at = "rated" => ~sim[d]
            /\ job'[i].at = "sample" => active'[d] = 0
      BY <2>0, <2>1, <2>7, <3>1 DEF LoopsTied, LoopHeld, LoopAwaited
    <3>4. \A i \in Jobs : job'[i].c = d /\ job'[i].at \in {"sample", "stopping"} =>
            \A k \in Starting(d)' : job'[k].at \notin Early
      BY <2>0, <3>1, <3>2 DEF LoopsTied, LoopHeld, LoopAwaited
    <3>. QED
      BY <2>2, <2>5, <3>3, <3>4
  <2>. QED
    BY <2>6, <2>7, <2>5
<1>14. ExpiryKept'
  BY PlacesDiffer, ExpiryHeld DEF CommandInv
<1>. QED
  BY <1>7, <1>8, <1>11, <1>12, <1>13, <1>14 DEF CommandInv

\* A start that fails goes to its finally, with nothing to undo but the pending start.
LEMMA FailsQuiet ==
    ASSUME CommandInv, NEW j \in Jobs, job[j].at \in StartPlaces,
           job' = [job EXCEPT ![j].at = "finally"], RestKept, UNCHANGED <<rowTx, stops>>
    PROVE  CommandInv'
<1>0. JobTypes /\ Shaped(job[j]) /\ job \in [Jobs -> JobStates] /\ "finally" \in Places
  BY PlacesDiffer DEF CommandInv, JobTypes
<1>1. /\ OneMoves(j) /\ job'[j].at = "finally" /\ job'[j].op = job[j].op /\ job'[j].c = job[j].c
      /\ job'[j].r = job[j].r /\ job'[j].tag = job[j].tag /\ job'[j].todo = job[j].todo
  BY <1>0, GotoMoves
<1>2. Shaped(job'[j])
  BY <1>0, <1>1, PlacesDiffer DEF Shaped
<1>. QED
  BY <1>1, <1>2, PlacesDiffer, StopsRest, QuietSteps

\* StartTransaction is answered, refused or lost.
LEMMA StartAnsweredKeeps ==
    ASSUME CommandInv, NEW j \in Jobs, StartAnswered(j)
    PROVE  CommandInv'
<1>0. JobTypes /\ Shaped(job[j]) /\ job[j].at = "call" /\ job[j] \in JobStates /\ RemoteTypes
  BY DEF CommandInv, JobTypes, StartAnswered, At
<1>1. PICK c \in Connectors : c = job[j].c
  BY <1>0, PlacesDiffer DEF Shaped
<1>2. UNCHANGED <<reservations, timers, armed, disposed, crossed, pendingStarts, rowTx, sim, handle, loops, stops,
                  doubled, restopped, raced>>
  BY DEF StartAnswered, Keep, Store, Meter, Histories
<1>3. CASE /\ Cardinality(issued) < MaxTransactions
           /\ LET tx == Cardinality(issued) + 1 IN
              /\ issued' = issued \cup {tx}
              /\ active' = [active EXCEPT ![job[j].c] = tx]
              /\ job' = [job EXCEPT ![j].at = "rated", ![j].tx = tx]
  <2>1. PICK tx \in Transactions : tx = Cardinality(issued) + 1
    BY <1>0, <1>3, NextTransaction
  <2>2. issued' = issued \cup {tx} /\ active' = [active EXCEPT ![c] = tx]
    BY <1>1, <1>3, <2>1
  <2>. DEFINE s == [job[j] EXCEPT !.at = "rated", !.tx = tx]
  <2>3. job' = [job EXCEPT ![j] = s]
    BY <1>3, <2>1
  <2>4. /\ s \in JobStates /\ s.at = "rated" /\ s.tx = tx /\ s.c = c /\ s.r = job[j].r /\ s.todo = job[j].todo
        /\ s.op = job[j].op /\ s.tag = job[j].tag
    BY <1>0, <1>1, PlacesDiffer, NoTransaction DEF JobStates
  <2>. HIDE DEF s
  <2>5. OneMoves(j) /\ job'[j] = s
    BY <1>0, <2>3, <2>4, SetMoves DEF JobTypes
  <2>6. Shaped(s)
    BY <1>0, <2>4, PlacesDiffer DEF Shaped
  <2>. QED
    BY <1>0, <1>1, <1>2, <2>2, <2>4, <2>5, <2>6, AnsweredKeeps
<1>4. CASE StartFails(j) /\ UNCHANGED <<issued, active>>
  <2>1. job' = [job EXCEPT ![j].at = "finally"] /\ RestKept
    BY <1>2, <1>4 DEF StartFails, Goto, RestKept
  <2>. QED
    BY <1>0, <1>2, <2>1, PlacesDiffer, FailsQuiet
<1>. QED
  BY <1>3, <1>4 DEF StartAnswered

\* A handler that does not move still finds what it found.
LEMMA AwaitedKept ==
    ASSUME NEW j \in Jobs, NEW i \in Jobs \ {j}, NEW c \in Connectors, OneMoves(j), LoopAwaited(i, c),
           active'[c] = active[c], job[i].at = "rated" /\ job[i].c = c => ~sim'[c],
           job'[j].at \in Early => job[j].at \in Early /\ job'[j].c = job[j].c
    PROVE  LoopAwaited(i, c)'
<1>1. \A k \in Jobs \ {j} : job'[k] = job[k]
  BY DEF OneMoves
<1>2. ASSUME NEW k \in Starting(c)', job'[k].at \in Early PROVE k \in Starting(c) /\ job[k].at \in Early
  BY <1>1, <1>2, PlacesDiffer DEF Starting
<1>. QED
  BY <1>1, <1>2 DEF LoopAwaited

\* An interval is armed, or not, by a handler that has read how long it is.
LEMMA ArmsLoop ==
    ASSUME CommandInv, NEW j \in Jobs, NEW c \in Connectors, job[j].at \in {"loop", "restart"}, job[j].c = c,
           OneMoves(j), job'[j].at \in {"adopt", "finally", "config"}, StartLoop(c),
           raced' = (raced \/ handle[c]), UNCHANGED <<active, sim, doubled, restopped>>
    PROVE  LoopsTied'
<1>. SUFFICES ASSUME ~raced', ~doubled', ~restopped', NEW d \in Connectors
              PROVE  LoopHeld(d)' /\ \A i \in Jobs : LoopAwaited(i, d)'
  BY DEF LoopsTied
<1>0. (\A e \in Connectors : LoopHeld(e) /\ \A i \in Jobs : LoopAwaited(i, e)) /\ ~handle[c]
  BY DEF CommandInv, LoopsTied
<1>1. \A i \in Jobs : LoopAwaited(i, d)'
  <2>1. ASSUME NEW i \in Jobs \ {j} PROVE LoopAwaited(i, d)'
    <3>1. LoopAwaited(i, d)
      BY <1>0
    <3>2. job[i].at = "rated" /\ job[i].c = d => ~sim[d]
      BY <3>1 DEF LoopAwaited
    <3>. QED
      BY <3>1, <3>2, PlacesDiffer, AwaitedKept
  <2>2. LoopAwaited(j, d)'
    BY DEF LoopAwaited
  <2>. QED
    BY <2>1, <2>2
<1>2. active[c] # 0
  BY <1>0 DEF LoopAwaited
<1>3. \A i \in Jobs : job[i].c = d /\ job[i].at = "sample" => job'[i].c = d /\ job'[i].at = "sample"
  BY DEF OneMoves
<1>4. handle \in [Connectors -> BOOLEAN] /\ loops \in [Connectors -> Int] /\ LoopHeld(d)
  BY <1>0 DEF CommandInv, RemoteTypes
<1>5. LoopHeld(d)'
  <2>1. CASE UNCHANGED <<loops, handle>>
    BY <1>3, <1>4, <2>1 DEF LoopHeld
  <2>2. CASE sim[c] /\ loops' = [loops EXCEPT ![c] = @ + 1] /\ handle' = [handle EXCEPT ![c] = TRUE]
    <3>1. CASE d = c
      <4>1. loops'[c] = 1 /\ handle'[c]
        BY <1>0, <1>4, <2>2, <3>1 DEF LoopHeld
      <4>. QED
        BY <1>2, <2>2, <3>1, <4>1 DEF LoopHeld
    <3>2. CASE d # c
      <4>1. loops'[d] = loops[d] /\ handle'[d] = handle[d]
        BY <1>4, <2>2, <3>2
      <4>. QED
        BY <1>3, <1>4, <4>1 DEF LoopHeld
    <3>. QED
      BY <3>1, <3>2
  <2>. QED
    BY <2>1, <2>2 DEF StartLoop
<1>. QED
  BY <1>1, <1>5

\* The four other parts of the invariant, for a step that is about the meter values alone.
LEMMA MeterSteps ==
    ASSUME CommandInv, NEW j \in Jobs, OneMoves(j), Shaped(job'[j]), LoopsTied',
           UNCHANGED <<reservations, timers, armed, disposed, crossed, active, pendingStarts, rowTx, issued, stops,
                       doubled, restopped>>,
           sim' \in [Connectors -> BOOLEAN], handle' \in [Connectors -> BOOLEAN], loops' \in [Connectors -> Int],
           job[j].at \in {"rated", "loop", "restart", "config"},
           job'[j].at \in {"loop", "adopt", "finally", "restart", "config"}, job'[j].r = job[j].r,
           job'[j].at \in StartPlaces => job[j].at \in StartPlaces /\ job'[j].c = job[j].c
    PROVE  CommandInv'
<1>1. StoreTypes' /\ RemoteTypes'
  BY DEF CommandInv, StoreTypes, RemoteTypes
<1>2. JobTypes'
  BY JobsTyped DEF CommandInv
<1>3. StartsAlone'
  BY PlacesDiffer, StartsKept DEF CommandInv
<1>4. StopsKnown'
  BY PlacesDiffer, StopsKept DEF CommandInv, RemoteTypes
<1>5. ExpiryKept'
  BY PlacesDiffer, ExpiryHeld DEF CommandInv
<1>. QED
  BY <1>1, <1>2, <1>3, <1>4, <1>5 DEF CommandInv

\* Starting or stopping a loop keeps the types of its handle and its count.
LEMMA LoopTypes ==
    ASSUME RemoteTypes, NEW c \in Connectors, StartLoop(c) \/ StopLoop(c)
    PROVE  handle' \in [Connectors -> BOOLEAN] /\ loops' \in [Connectors -> Int]
<1>1. handle' \in [Connectors -> BOOLEAN]
  <2>1. handle \in [Connectors -> BOOLEAN]
    BY DEF RemoteTypes
  <2>. QED
    BY <2>1 DEF StartLoop, StopLoop
<1>2. loops' \in [Connectors -> Int]
  <2>1. loops \in [Connectors -> Int]
    BY DEF RemoteTypes
  <2>2. loops' = loops \/ loops' = [loops EXCEPT ![c] = @ + 1] \/ loops' = [loops EXCEPT ![c] = @ - 1]
    BY <2>1 DEF StartLoop, StopLoop
  <2>. QED
    BY <2>1, <2>2
<1>. QED
  BY <1>1, <1>2

\* A start begins its loop; one that runs already is counted as raced.
LEMMA StartLoopsKeeps ==
    ASSUME CommandInv, NEW j \in Jobs, StartLoops(j)
    PROVE  CommandInv'
<1>0. JobTypes /\ Shaped(job[j]) /\ job[j].at = "loop" /\ job \in [Jobs -> JobStates] /\ RemoteTypes
  BY DEF CommandInv, JobTypes, StartLoops, At
<1>1. PICK c \in Connectors : c = job[j].c
  BY <1>0, PlacesDiffer DEF Shaped
<1>2. /\ StartLoop(c) /\ raced' = (raced \/ handle[c])
      /\ UNCHANGED <<reservations, timers, armed, disposed, crossed, active, pendingStarts, rowTx, sim, issued, stops,
                     doubled, restopped>>
  BY <1>1 DEF StartLoops, Keep, Store
<1>3. PICK at \in {"adopt", "finally"} : job' = [job EXCEPT ![j].at = at]
  BY DEF StartLoops, Goto
<1>4. at \in Places
  BY PlacesDiffer
<1>5. /\ OneMoves(j) /\ job'[j].at = at /\ job'[j].op = job[j].op /\ job'[j].c = job[j].c /\ job'[j].r = job[j].r
      /\ job'[j].tag = job[j].tag /\ job'[j].todo = job[j].todo /\ job'[j].tx = job[j].tx
  BY <1>0, <1>3, <1>4, GotoMoves
<1>6. Shaped(job'[j])
  BY <1>0, <1>5, PlacesDiffer DEF Shaped
<1>7. LoopsTied'
  BY <1>0, <1>1, <1>2, <1>5, ArmsLoop
<1>8. sim' \in [Connectors -> BOOLEAN] /\ handle' \in [Connectors -> BOOLEAN] /\ loops' \in [Connectors -> Int]
  BY <1>0, <1>2, LoopTypes DEF RemoteTypes
<1>. QED
  BY <1>0, <1>2, <1>5, <1>6, <1>7, <1>8, PlacesDiffer, MeterSteps

\* A new interval begins the loop again for the transaction it stopped it for.
LEMMA IntervalStartsKeeps ==
    ASSUME CommandInv, NEW j \in Jobs, IntervalStarts(j)
    PROVE  CommandInv'
<1>0. JobTypes /\ Shaped(job[j]) /\ job[j].at = "restart" /\ job \in [Jobs -> JobStates] /\ RemoteTypes
  BY DEF CommandInv, JobTypes, IntervalStarts, At
<1>1. PICK c \in Connectors : c = job[j].c
  BY <1>0, PlacesDiffer DEF Shaped
<1>2. /\ StartLoop(c) /\ raced' = (raced \/ handle[c])
      /\ UNCHANGED <<reservations, timers, armed, disposed, crossed, active, pendingStarts, rowTx, sim, issued, stops,
                     doubled, restopped>>
  BY <1>1 DEF IntervalStarts, Keep, Store
<1>3. job' = [job EXCEPT ![j].at = "config"] /\ "config" \in Places
  BY DEF IntervalStarts, Goto, Places
<1>5. /\ OneMoves(j) /\ job'[j].at = "config" /\ job'[j].op = job[j].op /\ job'[j].c = job[j].c /\ job'[j].r = job[j].r
      /\ job'[j].tag = job[j].tag /\ job'[j].todo = job[j].todo /\ job'[j].tx = job[j].tx
  BY <1>0, <1>3, GotoMoves
<1>6. Shaped(job'[j])
  BY <1>0, <1>5, PlacesDiffer DEF Shaped
<1>7. LoopsTied'
  BY <1>0, <1>1, <1>2, <1>5, ArmsLoop
<1>8. sim' \in [Connectors -> BOOLEAN] /\ handle' \in [Connectors -> BOOLEAN] /\ loops' \in [Connectors -> Int]
  BY <1>0, <1>2, LoopTypes DEF RemoteTypes
<1>. QED
  BY <1>0, <1>2, <1>5, <1>6, <1>7, <1>8, PlacesDiffer, MeterSteps

\* A start sets up its simulated meter; a stop that came before is counted as raced.
LEMMA SimulatesKeeps ==
    ASSUME CommandInv, NEW j \in Jobs, StartSimulates(j)
    PROVE  CommandInv'
<1>0. JobTypes /\ Shaped(job[j]) /\ job[j].at = "rated" /\ job \in [Jobs -> JobStates] /\ RemoteTypes
  BY DEF CommandInv, JobTypes, StartSimulates, At
<1>1. PICK c \in Connectors : c = job[j].c
  BY <1>0, PlacesDiffer DEF Shaped
<1>2. /\ UNCHANGED <<reservations, timers, armed, disposed, crossed, active, pendingStarts, rowTx, loops, issued, stops,
                     doubled, restopped>>
      /\ raced' = (raced \/ active[c] = 0)
      /\ sim' = [sim EXCEPT ![c] = TRUE] /\ handle' = [handle EXCEPT ![c] = FALSE]
  BY <1>1 DEF StartSimulates, Keep, Store
<1>3. job' = [job EXCEPT ![j].at = "loop"] /\ "loop" \in Places
  BY PlacesDiffer DEF StartSimulates, Goto
<1>4. /\ OneMoves(j) /\ job'[j].at = "loop" /\ job'[j].op = job[j].op /\ job'[j].c = c /\ job'[j].r = job[j].r
      /\ job'[j].tag = job[j].tag /\ job'[j].todo = job[j].todo /\ job'[j].tx = job[j].tx
      /\ \A i \in Jobs \ {j} : job'[i] = job[i]
  BY <1>0, <1>1, <1>3, GotoMoves DEF OneMoves
<1>5. Shaped(job'[j])
  BY <1>0, <1>1, <1>4, PlacesDiffer DEF Shaped
<1>6. /\ sim \in [Connectors -> BOOLEAN] /\ handle \in [Connectors -> BOOLEAN] /\ loops \in [Connectors -> Int]
      /\ sim'[c] /\ ~handle'[c] /\ \A d \in Connectors \ {c} : sim'[d] = sim[d] /\ handle'[d] = handle[d]
  BY <1>0, <1>2 DEF RemoteTypes
<1>7. sim' \in [Connectors -> BOOLEAN] /\ handle' \in [Connectors -> BOOLEAN] /\ loops' \in [Connectors -> Int]
  BY <1>2, <1>6
<1>8. LoopsTied'
  <2>. SUFFICES ASSUME ~raced', ~doubled', ~restopped', NEW d \in Connectors
                PROVE  LoopHeld(d)' /\ \A i \in Jobs : LoopAwaited(i, d)'
    BY DEF LoopsTied
  <2>0. (\A e \in Connectors : LoopHeld(e) /\ \A i \in Jobs : LoopAwaited(i, e)) /\ active[c] # 0 /\ ~doubled
    BY <1>2 DEF CommandInv, LoopsTied
  <2>1. \A i \in Starting(c) : i = j
    BY <1>0, <1>1, <2>0, PlacesDiffer DEF CommandInv, StartsAlone, Starting
  <2>2. LoopHeld(d)'
    <3>1. CASE d = c
      <4>1. ~sim[c] /\ loops[c] = 0
        BY <1>0, <1>1, <2>0 DEF LoopAwaited, LoopHeld
      <4>. QED
        BY <1>2, <1>6, <2>0, <3>1, <4>1 DEF LoopHeld
    <3>2. CASE d # c
      <4>1. LoopHeld(d) /\ sim'[d] = sim[d] /\ handle'[d] = handle[d]
        BY <1>6, <2>0, <3>2
      <4>2. \A i \in Jobs : job[i].at = "sample" => job'[i] = job[i]
        BY <1>0, <1>4
      <4>. QED
        BY <1>2, <4>1, <4>2 DEF LoopHeld
    <3>. QED
      BY <3>1, <3>2
  <2>3. ASSUME NEW i \in Jobs \ {j} PROVE LoopAwaited(i, d)'
    <3>1. LoopAwaited(i, d)
      BY <2>0
    <3>2. job[i].at = "rated" /\ job[i].c = d => d # c
      BY <2>1, <2>3, PlacesDiffer DEF Starting
    <3>3. job[i].at = "rated" /\ job[i].c = d => ~sim'[d]
      BY <1>6, <3>1, <3>2 DEF LoopAwaited
    <3>. QED
      BY <1>2, <1>4, <3>1, <3>3, PlacesDiffer, AwaitedKept
  <2>4. LoopAwaited(j, d)'
    BY <1>2, <1>4, <2>0 DEF LoopAwaited
  <2>. QED
    BY <2>2, <2>3, <2>4
<1>. QED
  BY <1>0, <1>1, <1>2, <1>4, <1>5, <1>7, <1>8, PlacesDiffer, MeterSteps

\* A start ends: its connector leaves pendingStarts, and no other start is on it.
LEMMA StartEndsKeeps ==
    ASSUME CommandInv, NEW j \in Jobs, StartEnds(j)
    PROVE  CommandInv'
<1>0. JobTypes /\ Shaped(job[j]) /\ job[j].at = "finally" /\ job \in [Jobs -> JobStates] /\ RemoteTypes
  BY DEF CommandInv, JobTypes, StartEnds, At
<1>1. PICK c \in Connectors : c = job[j].c
  BY <1>0, PlacesDiffer DEF Shaped
<1>2. /\ UNCHANGED <<reservations, timers, armed, disposed, crossed, active, rowTx, sim, handle, loops, issued, stops,
                     doubled, restopped, raced>>
      /\ pendingStarts' = pendingStarts \ {c} /\ job' = [job EXCEPT ![j] = Idle]
  BY <1>1 DEF StartEnds, Keep, Store, Meter, Histories, Done
<1>3. OneMoves(j) /\ job'[j].at = "idle" /\ job'[j].r = None /\ Shaped(job'[j])
  BY <1>0, <1>2, DoneMoves
<1>4. \A i \in Jobs \ {j} : job'[i] = job[i]
  BY <1>3 DEF OneMoves
<1>5. StoreTypes' /\ RemoteTypes'
  BY <1>2 DEF CommandInv, StoreTypes, RemoteTypes
<1>6. JobTypes'
  BY <1>0, <1>3, JobsTyped
<1>7. StartsAlone'
  <2>1. \A d \in Connectors : Starting(d)' = Starting(d) \ {j}
    BY <1>3, <1>4, PlacesDiffer DEF Starting
  <2>2. j \in Starting(c)
    BY <1>0, <1>1, PlacesDiffer DEF Starting
  <2>3. \A d \in Connectors : \A i \in Starting(d) \ {j} : job'[i] = job[i]
    BY <1>4 DEF Starting
  <2>. QED
    BY <1>2, <2>1, <2>2, <2>3 DEF CommandInv, StartsAlone
<1>8. StopsKnown'
  BY <1>0, <1>2, <1>3, PlacesDiffer, StopsKept DEF CommandInv, RemoteTypes
<1>9. LoopsTied'
  BY <1>0, <1>2, <1>3, PlacesDiffer, LoopsKept DEF CommandInv
<1>10. ExpiryKept'
  BY <1>0, <1>2, <1>3, PlacesDiffer, ExpiryHeld DEF CommandInv
<1>. QED
  BY <1>5, <1>6, <1>7, <1>8, <1>9, <1>10 DEF CommandInv

-----------------------------------------------------------------------------
(* Transactions are stopped *)

LEMMA AheadStops ==
    ASSUME NEW i \in Jobs, NEW entry \in Ahead(i)
    PROVE  entry[1] \in Connectors /\ entry[2] \in Transactions /\ entry = <<entry[1], entry[2]>> /\ i \in Stopping(entry[2])
<1>1. PICK c \in Connectors, tx \in Transactions : entry = <<c, tx>>
  BY DEF Ahead
<1>2. \/ job[i].at = "stop" /\ <<c, tx>> = <<job[i].c, job[i].tx>>
      \/ <<c, tx>> \in job[i].todo
  BY <1>1 DEF Ahead
<1>3. i \in Stopping(tx)
  BY <1>2, PlacesDiffer DEF Stopping
<1>. QED
  BY <1>1, <1>3

\* A handler goes on stopping, or begins, what no other one stops.
LEMMA StopsMove ==
    ASSUME CommandInv, NEW j \in Jobs, OneMoves(j), Shaped(job'[j]), UNCHANGED <<active, issued>>,
           ~doubled' => ~doubled, ~restopped' => ~restopped,
           \A tx \in Transactions : stops[tx] > 0 => stops'[tx] > 0,
           job'[j].at = "stopping" => stops'[job'[j].tx] > 0,
           \A entry \in Ahead(j)' : ~doubled' /\ ~restopped' =>
             entry \in Ahead(j) \/ (active[entry[1]] = entry[2] /\ Stopping(entry[2]) = {}),
           job'[j].at = "stop" => <<job'[j].c, job'[j].tx>> \notin job'[j].todo,
           \A tx \in Transactions : j \in Stopping(tx) => j \in Stopping(tx)' \/ stops'[tx] > 0
    PROVE  StopsKnown'
<1>0. StopsKnown /\ JobTypes /\ issued \subseteq Transactions
  BY DEF CommandInv, RemoteTypes
<1>1. \A i \in Jobs \ {j} : job'[i] = job[i] /\ Ahead(i)' = Ahead(i)
  BY AheadKept DEF OneMoves
<1>2. ASSUME NEW i \in Jobs, job'[i].at = "stopping" PROVE stops'[job'[i].tx] > 0
  <2>1. CASE i = j
    BY <1>2, <2>1
  <2>2. CASE i # j
    <3>1. job'[i] = job[i] /\ Shaped(job[i])
      BY <1>0, <1>1, <2>2 DEF JobTypes
    <3>2. job[i].tx \in Transactions
      BY <1>2, <3>1, PlacesDiffer DEF Shaped
    <3>. QED
      BY <1>0, <1>2, <3>1, <3>2 DEF StopsKnown
  <2>. QED
    BY <2>1, <2>2
<1>3. ASSUME ~doubled', ~restopped', NEW i \in Jobs, NEW entry \in Ahead(i)' PROVE active[entry[1]] = entry[2]
  BY <1>0, <1>1, <1>3 DEF StopsKnown
<1>4. ASSUME ~doubled', ~restopped', NEW i \in Jobs, NEW k \in Jobs, NEW d \in Ahead(i)', NEW e \in Ahead(k)', d[1] = e[1]
      PROVE  i = k
  <2>1. ASSUME NEW l \in Jobs \ {j}, NEW a \in Ahead(l), NEW b \in Ahead(j)', a[1] = b[1] PROVE FALSE
    <3>1. active[a[1]] = a[2] /\ l \in Stopping(a[2])
      BY <1>0, <1>4, <2>1, AheadStops DEF StopsKnown
    <3>2. b \notin Ahead(j)
      BY <1>0, <1>4, <2>1 DEF StopsKnown
    <3>. QED
      BY <1>4, <2>1, <3>1, <3>2
  <2>. QED
    BY <1>0, <1>1, <1>4, <2>1 DEF StopsKnown
<1>5. ASSUME ~doubled', ~restopped', NEW i \in Jobs, job'[i].at = "stop" PROVE <<job'[i].c, job'[i].tx>> \notin job'[i].todo
  BY <1>0, <1>1, <1>5 DEF StopsKnown
<1>6. ASSUME ~doubled', ~restopped', NEW tx \in issued
      PROVE  \/ \E c \in Connectors : active[c] = tx
             \/ stops'[tx] > 0 \/ Stopping(tx)' # {}
  <2>1. \A i \in Jobs : i \in Stopping(tx) => i \in Stopping(tx)' \/ stops'[tx] > 0
    BY <1>0, <1>1 DEF Stopping
  <2>2. Stopping(tx) \subseteq Jobs
    BY DEF Stopping
  <2>. QED
    BY <1>0, <1>6, <2>1, <2>2 DEF StopsKnown
<1>. QED
  BY <1>2, <1>3, <1>4, <1>5, <1>6 DEF StopsKnown

\* RemoteStopTransaction is answered, its stop deferred.
LEMMA RemoteStopKeeps ==
    ASSUME CommandInv, NEW j \in Jobs, NEW c \in Connectors, RemoteStop(j, c)
    PROVE  CommandInv'
<1>0. JobTypes /\ job \in [Jobs -> JobStates] /\ RemoteTypes /\ job[j] = Idle
  BY DEF CommandInv, JobTypes, RemoteStop
<1>1. PICK tx \in Transactions : tx = active[c]
  BY <1>0 DEF RemoteStop, RemoteTypes
<1>. DEFINE s == [Idle EXCEPT !.op = "stop", !.at = "stop", !.c = c, !.tx = tx]
<1>2. job' = [job EXCEPT ![j] = s]
  BY <1>1 DEF RemoteStop
<1>3. /\ s \in JobStates /\ s.op = "stop" /\ s.at = "stop" /\ s.r = None /\ s.todo = {} /\ s.c = c /\ s.tx = tx
  BY IdleJob, NoTransaction, PlacesDiffer DEF JobStates, Operations
<1>. HIDE DEF s
<1>4. OneMoves(j) /\ job'[j] = s
  BY <1>0, <1>2, <1>3, SetMoves
<1>5. Shaped(s)
  BY <1>3, PlacesDiffer DEF Shaped
<1>6. RestKept /\ UNCHANGED <<rowTx, stops>> /\ restopped' = (restopped \/ Stopping(tx) # {})
  BY <1>1 DEF RemoteStop, Keep, Store, Meter, RestKept
<1>7. StoreTypes' /\ RemoteTypes'
  BY <1>6 DEF CommandInv, StoreTypes, RemoteTypes, RestKept
<1>8. JobTypes'
  BY <1>0, <1>4, <1>5, JobsTyped
<1>9. StartsAlone'
  BY <1>3, <1>4, <1>6, PlacesDiffer, StartsKept DEF CommandInv, RestKept
<1>10. LoopsTied'
  BY <1>0, <1>3, <1>4, <1>6, IdleJob, PlacesDiffer, LoopsKept DEF CommandInv, RestKept
<1>11. ExpiryKept'
  BY <1>0, <1>3, <1>4, <1>6, IdleJob, PlacesDiffer, ExpiryHeld DEF CommandInv, RestKept
<1>12. StopsKnown'
  <2>1. \A entry \in Ahead(j)' : entry[1] = c /\ entry[2] = tx
    BY <1>3, <1>4 DEF Ahead
  <2>2. \A t \in Transactions : j \notin Stopping(t)
    BY <1>0, IdleJob, PlacesDiffer DEF Stopping
  <2>3. \A entry \in Ahead(j)' : ~restopped' => active[entry[1]] = entry[2] /\ Stopping(entry[2]) = {}
    BY <1>1, <1>6, <2>1
  <2>. QED
    BY <1>3, <1>4, <1>5, <1>6, <2>2, <2>3, StopsMove DEF RestKept
<1>. QED
  BY <1>7, <1>8, <1>9, <1>10, <1>11, <1>12 DEF CommandInv

\* A stop takes its final sample and calls StopTransaction for what left the table.
LEMMA StopSamplesKeeps ==
    ASSUME CommandInv, NEW j \in Jobs, StopSamples(j)
    PROVE  CommandInv'
<1>0. JobTypes /\ Shaped(job[j]) /\ job[j].at = "sample" /\ job \in [Jobs -> JobStates] /\ RemoteTypes
  BY DEF CommandInv, JobTypes, StopSamples, At
<1>1. PICK c \in Connectors, tx \in Transactions : c = job[j].c /\ tx = job[j].tx
  BY <1>0, PlacesDiffer DEF Shaped
<1>2. /\ UNCHANGED <<reservations, timers, armed, disposed, crossed, active, pendingStarts, rowTx, loops, issued,
                     doubled, restopped, raced>>
      /\ sim' = [sim EXCEPT ![c] = FALSE] /\ handle' = [handle EXCEPT ![c] = FALSE]
      /\ stops' = [stops EXCEPT ![tx] = @ + 1]
  BY <1>1 DEF StopSamples, Keep, Store, Histories
<1>3. job' = [job EXCEPT ![j].at = "stopping"] /\ "stopping" \in Places
  BY PlacesDiffer DEF StopSamples, Goto
<1>4. /\ OneMoves(j) /\ job'[j].at = "stopping" /\ job'[j].op = job[j].op /\ job'[j].c = c /\ job'[j].r = job[j].r
      /\ job'[j].tag = job[j].tag /\ job'[j].todo = job[j].todo /\ job'[j].tx = tx
      /\ \A i \in Jobs \ {j} : job'[i] = job[i]
  BY <1>0, <1>1, <1>3, GotoMoves DEF OneMoves
<1>5. Shaped(job'[j])
  BY <1>0, <1>1, <1>4, PlacesDiffer DEF Shaped
<1>6. /\ sim \in [Connectors -> BOOLEAN] /\ handle \in [Connectors -> BOOLEAN]
      /\ ~sim'[c] /\ ~handle'[c] /\ \A d \in Connectors \ {c} : sim'[d] = sim[d] /\ handle'[d] = handle[d]
  BY <1>0, <1>2 DEF RemoteTypes
<1>7. sim' \in [Connectors -> BOOLEAN] /\ handle' \in [Connectors -> BOOLEAN]
  BY <1>2, <1>6
<1>8. stops' \in [Transactions -> Nat] /\ stops'[tx] > 0 /\ \A t \in Transactions : stops[t] > 0 => stops'[t] > 0
  BY <1>0, <1>2 DEF RemoteTypes
<1>9. StoreTypes' /\ RemoteTypes'
  BY <1>2, <1>7, <1>8 DEF CommandInv, StoreTypes, RemoteTypes
<1>10. JobTypes'
  BY <1>0, <1>4, <1>5, JobsTyped
<1>11. StartsAlone'
  BY <1>2, <1>4, PlacesDiffer, StartsKept DEF CommandInv
<1>12. StopsKnown'
  <2>1. Ahead(j)' = Ahead(j)
    BY <1>0, <1>4 DEF Ahead
  <2>2. \A t \in Transactions : j \in Stopping(t) => j \in Stopping(t)'
    BY <1>0, <1>1, <1>4, PlacesDiffer DEF Stopping
  <2>. QED
    BY <1>2, <1>4, <1>5, <1>8, <2>1, <2>2, StopsMove
<1>13. LoopsTied'
  <2>. SUFFICES ASSUME ~raced', ~doubled', ~restopped', NEW d \in Connectors
                PROVE  LoopHeld(d)' /\ \A i \in Jobs : LoopAwaited(i, d)'
    BY DEF LoopsTied
  <2>0. \A e \in Connectors : LoopHeld(e) /\ \A i \in Jobs : LoopAwaited(i, e)
    BY <1>2 DEF CommandInv, LoopsTied
  <2>1. active[c] = 0 /\ \A i \in Starting(c) : job[i].at \notin Early
    BY <1>0, <1>1, <2>0 DEF LoopAwaited
  <2>2. LoopHeld(d)'
    <3>1. CASE d = c
      <4>1. loops[c] = 0
        BY <2>0, <2>1 DEF LoopHeld
      <4>. QED
        BY <1>2, <1>6, <3>1, <4>1 DEF LoopHeld
    <3>2. CASE d # c
      <4>1. LoopHeld(d) /\ sim'[d] = sim[d] /\ handle'[d] = handle[d]
        BY <1>6, <2>0, <3>2
      <4>2. \A i \in Jobs : job[i].c = d => job'[i] = job[i]
        BY <1>1, <1>4, <3>2
      <4>. QED
        BY <1>2, <4>1, <4>2 DEF LoopHeld
    <3>. QED
      BY <3>1, <3>2
  <2>3. ASSUME NEW i \in Jobs \ {j} PROVE LoopAwaited(i, d)'
    <3>1. LoopAwaited(i, d)
      BY <2>0
    <3>2. job[i].at = "rated" /\ job[i].c = d => ~sim'[d]
      BY <1>6, <3>1 DEF LoopAwaited
    <3>. QED
      BY <1>2, <1>4, <3>1, <3>2, PlacesDiffer, AwaitedKept
  <2>4. LoopAwaited(j, d)'
    <3>1. \A i \in Starting(c)' : i \in Starting(c) /\ job'[i].at = job[i].at
      BY <1>4, PlacesDiffer DEF Starting
    <3>. QED
      BY <1>4, <2>1, <3>1 DEF LoopAwaited
  <2>. QED
    BY <2>2, <2>3, <2>4
<1>14. ExpiryKept'
  BY <1>0, <1>2, <1>4, PlacesDiffer, ExpiryHeld DEF CommandInv
<1>. QED
  BY <1>9, <1>10, <1>11, <1>12, <1>13, <1>14 DEF CommandInv

\* The meter values of a connector stop, unless they are about to start.
LEMMA StopsLoop ==
    ASSUME RemoteTypes, NEW c \in Connectors, StopLoop(c)
    PROVE  /\ handle' \in [Connectors -> BOOLEAN] /\ loops' \in [Connectors -> Int]
           /\ ~handle'[c] /\ (LoopHeld(c) => loops'[c] = 0)
           /\ \A d \in Connectors \ {c} : loops'[d] = loops[d] /\ handle'[d] = handle[d]
<1>1. handle \in [Connectors -> BOOLEAN] /\ loops \in [Connectors -> Int]
  BY DEF RemoteTypes
<1>2. handle' \in [Connectors -> BOOLEAN] /\ ~handle'[c] /\ \A d \in Connectors \ {c} : handle'[d] = handle[d]
  BY <1>1 DEF StopLoop
<1>3. loops' \in [Connectors -> Int]
  BY LoopTypes
<1>4. loops'[c] = IF handle[c] THEN loops[c] - 1 ELSE loops[c]
  BY <1>1 DEF StopLoop
<1>5. LoopHeld(c) => loops'[c] = 0
  BY <1>1, <1>4 DEF LoopHeld
<1>6. \A d \in Connectors \ {c} : loops'[d] = loops[d]
  BY <1>1 DEF StopLoop
<1>. QED
  BY <1>2, <1>3, <1>5, <1>6

\* A stop takes its transaction out of the table and stops the loop.
LEMMA StopBeginsKeeps ==
    ASSUME CommandInv, NEW j \in Jobs, StopBegins(j)
    PROVE  CommandInv'
<1>0. JobTypes /\ Shaped(job[j]) /\ job[j].at = "stop" /\ job \in [Jobs -> JobStates] /\ RemoteTypes
  BY DEF CommandInv, JobTypes, StopBegins, At
<1>1. PICK c \in Connectors, tx \in Transactions : c = job[j].c /\ tx = job[j].tx
  BY <1>0, PlacesDiffer DEF Shaped
<1>2. /\ UNCHANGED <<reservations, timers, armed, disposed, crossed, pendingStarts, rowTx, sim, issued, stops,
                     doubled, restopped>>
      /\ StopLoop(c) /\ active' = [active EXCEPT ![c] = 0] /\ raced' = (raced \/ LoopComes(c))
  BY <1>1 DEF StopBegins, StopForgets, Keep, Store
<1>3. job' = [job EXCEPT ![j].at = "sample"] /\ "sample" \in Places
  BY PlacesDiffer DEF StopBegins
<1>4. /\ OneMoves(j) /\ job'[j].at = "sample" /\ job'[j].op = job[j].op /\ job'[j].c = c /\ job'[j].r = job[j].r
      /\ job'[j].tag = job[j].tag /\ job'[j].todo = job[j].todo /\ job'[j].tx = tx
      /\ \A i \in Jobs \ {j} : job'[i] = job[i]
  BY <1>0, <1>1, <1>3, GotoMoves DEF OneMoves
<1>5. Shaped(job'[j])
  BY <1>0, <1>1, <1>4, PlacesDiffer DEF Shaped
<1>6. /\ active \in [Connectors -> Transactions \cup {0}] /\ active'[c] = 0
      /\ \A d \in Connectors \ {c} : active'[d] = active[d]
  BY <1>0, <1>2 DEF RemoteTypes
<1>7. StoreTypes' /\ RemoteTypes'
  <2>1. handle' \in [Connectors -> BOOLEAN] /\ loops' \in [Connectors -> Int]
    BY <1>0, <1>2, StopsLoop
  <2>. QED
    BY <1>2, <1>6, <2>1 DEF CommandInv, StoreTypes, RemoteTypes
<1>8. JobTypes'
  BY <1>0, <1>4, <1>5, JobsTyped
<1>9. \A d \in Connectors : Starting(d)' = Starting(d) /\ \A i \in Starting(d) : job'[i] = job[i]
  BY <1>0, <1>4, PlacesDiffer DEF Starting
<1>10. StartsAlone'
  <2>1. \A d \in Connectors : \A i, k \in Starting(d)' : ~doubled => i = k
    BY <1>9 DEF CommandInv, StartsAlone
  <2>2. \A d \in Connectors : ~doubled /\ Starting(d)' # {} => d \in pendingStarts
    BY <1>9 DEF CommandInv, StartsAlone
  <2>3. \A d \in Connectors : \A i \in Starting(d)' : ~doubled /\ job'[i].at \in Early => active'[d] = 0
    BY <1>6, <1>9 DEF CommandInv, StartsAlone
  <2>. QED
    BY <1>2, <2>1, <2>2, <2>3 DEF StartsAlone
<1>11. <<c, tx>> \in Ahead(j)
  BY <1>0, <1>1 DEF Ahead
<1>12. ~doubled /\ ~restopped => active[c] = tx
  BY <1>11 DEF CommandInv, StopsKnown
<1>13. StopsKnown'
  <2>1. \A i \in Jobs : Ahead(i)' \subseteq Ahead(i) /\ \A t \in Transactions : i \in Stopping(t) => i \in Stopping(t)'
    BY <1>0, <1>1, <1>4, PlacesDiffer DEF Ahead, Stopping
  <2>2. \A i \in Jobs : job'[i].at \in {"stop", "stopping"} => i # j /\ job'[i] = job[i]
    BY <1>4
  <2>3. ASSUME ~doubled, ~restopped, NEW i \in Jobs, NEW entry \in Ahead(i)' PROVE active'[entry[1]] = entry[2]
    <3>1. entry \in Ahead(i)
      BY <2>1
    <3>2. entry[1] \in Connectors /\ entry = <<entry[1], entry[2]>> /\ active[entry[1]] = entry[2]
      BY <2>3, <3>1, AheadStops DEF CommandInv, StopsKnown
    <3>3. entry[1] # c
      <4>. SUFFICES ASSUME entry[1] = c PROVE FALSE
        OBVIOUS
      <4>1. i = j
        BY <1>11, <2>3, <3>1 DEF CommandInv, StopsKnown
      <4>2. entry = <<c, tx>>
        BY <1>12, <2>3, <3>2
      <4>3. <<c, tx>> \notin job[j].todo
        BY <1>0, <1>1, <2>3 DEF CommandInv, StopsKnown
      <4>. QED
        BY <1>4, <2>3, <4>1, <4>2, <4>3 DEF Ahead
    <3>. QED
      BY <1>6, <3>2, <3>3
  <2>4. ASSUME ~doubled, ~restopped, NEW t \in issued
        PROVE  \/ \E d \in Connectors : active'[d] = t
               \/ stops[t] > 0 \/ Stopping(t)' # {}
    <3>0. t \in Transactions
      BY <1>0 DEF RemoteTypes
    <3>1. ASSUME Stopping(t) # {} PROVE Stopping(t)' # {}
      BY <2>1, <3>0, <3>1 DEF Stopping
    <3>2. ASSUME NEW d \in Connectors, active[d] = t PROVE active'[d] = t \/ Stopping(t)' # {}
      <4>1. CASE d = c
        <5>1. j \in Stopping(t)'
          BY <1>4, <1>12, <2>4, <3>2, <4>1, PlacesDiffer DEF Stopping
        <5>. QED
          BY <5>1
      <4>2. CASE d # c
        BY <1>6, <3>2, <4>2
      <4>. QED
        BY <4>1, <4>2
    <3>. QED
      BY <2>4, <3>1, <3>2 DEF CommandInv, StopsKnown
  <2>5. \A i \in Jobs : job'[i].at = "stopping" => stops[job'[i].tx] > 0
    BY <2>2 DEF CommandInv, StopsKnown
  <2>6. \A i \in Jobs : ~doubled /\ ~restopped /\ job'[i].at = "stop" => <<job'[i].c, job'[i].tx>> \notin job'[i].todo
    BY <2>2 DEF CommandInv, StopsKnown
  <2>7. \A i, k \in Jobs : \A d \in Ahead(i)' : \A e \in Ahead(k)' : ~doubled /\ ~restopped /\ d[1] = e[1] => i = k
    BY <2>1 DEF CommandInv, StopsKnown
  <2>. QED
    BY <1>2, <2>3, <2>4, <2>5, <2>6, <2>7 DEF StopsKnown
<1>14. LoopsTied'
  <2>. SUFFICES ASSUME ~raced', ~doubled', ~restopped', NEW d \in Connectors
                PROVE  LoopHeld(d)' /\ \A i \in Jobs : LoopAwaited(i, d)'
    BY DEF LoopsTied
  <2>0. (\A e \in Connectors : LoopHeld(e) /\ \A i \in Jobs : LoopAwaited(i, e)) /\ ~LoopComes(c) /\ active[c] # 0
    BY <1>2, <1>12, NoTransaction DEF CommandInv, LoopsTied
  <2>1. \A i \in Starting(c) : job[i].at \notin Early
    BY <1>2, <2>0 DEF CommandInv, StartsAlone
  <2>2. LoopHeld(d)'
    <3>1. CASE d = c
      <4>1. loops'[c] = 0 /\ ~handle'[c]
        BY <1>0, <1>2, <2>0, StopsLoop
      <4>. QED
        BY <1>4, <3>1, <4>1 DEF LoopHeld
    <3>2. CASE d # c
      <4>1. LoopHeld(d) /\ loops'[d] = loops[d] /\ handle'[d] = handle[d] /\ active'[d] = active[d]
        BY <1>0, <1>2, <1>6, <2>0, <3>2, StopsLoop
      <4>2. \A i \in Jobs : job[i].c = d => job'[i] = job[i]
        BY <1>1, <1>4, <3>2
      <4>. QED
        BY <1>2, <4>1, <4>2 DEF LoopHeld
    <3>. QED
      BY <3>1, <3>2
  <2>3. ASSUME NEW i \in Jobs \ {j} PROVE LoopAwaited(i, d)'
    <3>1. LoopAwaited(i, d)
      BY <2>0
    <3>2. CASE d = c
      <4>1. job[i].c = c => job[i].at \notin {"rated", "loop", "restart"}
        BY <2>0 DEF LoopComes
      <4>2. \A k \in Starting(c)' : job'[k].at \notin Early
        BY <1>9, <2>1
      <4>. QED
        BY <1>4, <1>6, <3>2, <4>1, <4>2 DEF LoopAwaited
    <3>3. CASE d # c
      BY <1>2, <1>4, <1>6, <3>1, <3>3, PlacesDiffer, AwaitedKept DEF LoopAwaited
    <3>. QED
      BY <3>2, <3>3
  <2>4. LoopAwaited(j, d)'
    <3>1. \A k \in Starting(c)' : job'[k].at \notin Early
      BY <1>9, <2>1
    <3>. QED
      BY <1>4, <1>6, <3>1 DEF LoopAwaited
  <2>. QED
    BY <2>2, <2>3, <2>4
<1>15. ExpiryKept'
  BY <1>0, <1>2, <1>4, PlacesDiffer, ExpiryHeld DEF CommandInv
<1>. QED
  BY <1>7, <1>8, <1>10, <1>13, <1>14, <1>15 DEF CommandInv

\* A handler goes on to the next of the transactions it has to stop, or has none left.
GoesOn(j, todo) ==
    /\ Shaped(job'[j]) /\ job'[j].r \in {job[j].r, None}
    /\ \/ todo = {} /\ job'[j] = Idle
       \/ /\ job'[j].at = "stop" /\ <<job'[j].c, job'[j].tx>> \in todo
          /\ job'[j].todo = todo \ {<<job'[j].c, job'[j].tx>>}

\* A stop is over: its row is free; a Reset goes on with the next of its list.
LEMMA StopAnsweredKeeps ==
    ASSUME CommandInv, NEW j \in Jobs, StopAnswered(j)
    PROVE  CommandInv'
<1>0. JobTypes /\ Shaped(job[j]) /\ job[j].at = "stopping" /\ job[j] \in JobStates /\ RemoteTypes
  BY DEF CommandInv, JobTypes, StopAnswered, At
<1>1. PICK c \in Connectors, tx \in Transactions : c = job[j].c /\ tx = job[j].tx
  BY <1>0, PlacesDiffer DEF Shaped
<1>2. RestKept /\ UNCHANGED stops /\ rowTx' = [rowTx EXCEPT ![c] = 0]
  BY <1>1 DEF StopAnswered, FreeRow, Keep, Store, Meter, Histories, RestKept
<1>3. stops[tx] > 0
  BY <1>0, <1>1 DEF CommandInv, StopsKnown
<1>4. OneMoves(j) /\ GoesOn(j, job[j].todo)
  <2>1. CASE job[j].todo = {} /\ job' = [job EXCEPT ![j] = Idle]
    BY <1>0, <2>1, DoneMoves DEF JobTypes, GoesOn
  <2>2. ASSUME NEW entry \in job[j].todo,
               job' = [job EXCEPT ![j].at = "stop", ![j].c = entry[1], ![j].tx = entry[2], ![j].todo = @ \ {entry}]
        PROVE  OneMoves(j) /\ GoesOn(j, job[j].todo)
    <3>1. PICK d \in Connectors, t \in Transactions : entry = <<d, t>>
      BY <1>0, <2>2, PlacesDiffer DEF Shaped
    <3>. DEFINE s == [job[j] EXCEPT !.at = "stop", !.c = d, !.tx = t, !.todo = job[j].todo \ {<<d, t>>}]
    <3>2. job' = [job EXCEPT ![j] = s]
      BY <2>2, <3>1
    <3>3. /\ s \in JobStates /\ s.at = "stop" /\ s.tx = t /\ s.c = d /\ s.r = job[j].r
          /\ s.todo = job[j].todo \ {<<d, t>>} /\ s.op = job[j].op /\ s.tag = job[j].tag
      BY <1>0, PlacesDiffer, NoTransaction DEF JobStates
    <3>. HIDE DEF s
    <3>4. OneMoves(j) /\ job'[j] = s
      BY <1>0, <3>2, <3>3, SetMoves DEF JobTypes
    <3>5. Shaped(s)
      BY <1>0, <3>3, PlacesDiffer DEF Shaped
    <3>. QED
      BY <2>2, <3>1, <3>3, <3>4, <3>5 DEF GoesOn
  <2>. QED
    BY <2>1, <2>2 DEF StopAnswered, NextStop
<1>5. job'[j].at \in {"idle", "stop"} /\ (job'[j].at = "idle" => job'[j] = Idle)
  BY <1>4, IdleJob DEF GoesOn
<1>6. StoreTypes' /\ RemoteTypes'
  BY <1>2 DEF CommandInv, StoreTypes, RemoteTypes, RestKept
<1>7. JobTypes'
  BY <1>0, <1>4, JobsTyped DEF GoesOn
<1>8. StartsAlone'
  BY <1>2, <1>4, <1>5, PlacesDiffer, StartsKept DEF CommandInv, RestKept
<1>9. LoopsTied'
  BY <1>0, <1>2, <1>4, <1>5, PlacesDiffer, LoopsKept DEF CommandInv, RestKept
<1>10. ExpiryKept'
  BY <1>0, <1>2, <1>4, <1>5, PlacesDiffer, ExpiryHeld DEF CommandInv, RestKept, GoesOn
<1>11. StopsKnown'
  <2>1. Ahead(j)' \subseteq Ahead(j)
    BY <1>4, IdleJob DEF Ahead, GoesOn
  <2>2. ASSUME NEW t \in Transactions, j \in Stopping(t) PROVE j \in Stopping(t)' \/ stops'[t] > 0
    <3>1. CASE t = tx
      BY <1>2, <1>3, <3>1
    <3>2. CASE t # tx
      <4>1. PICK d \in Connectors : <<d, t>> \in job[j].todo
        BY <1>1, <2>2, <3>2 DEF Stopping
      <4>. QED
        BY <1>4, <4>1, PlacesDiffer DEF Stopping, GoesOn
    <3>. QED
      BY <3>1, <3>2
  <2>3. job'[j].at = "stop" => <<job'[j].c, job'[j].tx>> \notin job'[j].todo
    BY <1>4, IdleJob DEF GoesOn
  <2>. QED
    BY <1>2, <1>4, <1>5, <2>1, <2>2, <2>3, StopsMove DEF RestKept, GoesOn
<1>. QED
  BY <1>6, <1>7, <1>8, <1>9, <1>10, <1>11 DEF CommandInv

\* A Reset takes the list of transactions, and has a stop of each ahead.
LEMMA SnapshotsKeeps ==
    ASSUME CommandInv, NEW j \in Jobs, ResetSnapshots(j)
    PROVE  CommandInv'
<1>0. JobTypes /\ Shaped(job[j]) /\ job[j].at = "snapshot" /\ job[j] \in JobStates /\ RemoteTypes
  BY DEF CommandInv, JobTypes, ResetSnapshots, At
<1>. DEFINE open == {<<c, active[c]>> : c \in {d \in Connectors : active[d] # 0}}
<1>1. /\ UNCHANGED <<reservations, timers, armed, disposed, crossed, active, rowTx, sim, handle, loops, issued, stops,
                     raced>>
      /\ pendingStarts' = {} /\ doubled' = (doubled \/ \E c \in Connectors : Starting(c) # {})
      /\ restopped' = (restopped \/ \E entry \in open : Stopping(entry[2]) # {})
  BY DEF ResetSnapshots, Keep, Store, Meter
<1>2. open \subseteq Connectors \X Transactions /\ \A entry \in open : active[entry[1]] = entry[2]
  BY <1>0 DEF RemoteTypes
<1>3. \/ open = {} /\ job' = [job EXCEPT ![j] = Idle]
      \/ \E entry \in open :
           job' = [job EXCEPT ![j].at = "stop", ![j].c = entry[1], ![j].tx = entry[2], ![j].todo = open \ {entry}]
  BY DEF ResetSnapshots
<1>. HIDE DEF open
<1>4. OneMoves(j) /\ GoesOn(j, open)
  <2>1. CASE open = {} /\ job' = [job EXCEPT ![j] = Idle]
    BY <1>0, <2>1, DoneMoves DEF JobTypes, GoesOn
  <2>2. ASSUME NEW entry \in open,
               job' = [job EXCEPT ![j].at = "stop", ![j].c = entry[1], ![j].tx = entry[2], ![j].todo = open \ {entry}]
        PROVE  OneMoves(j) /\ GoesOn(j, open)
    <3>1. PICK d \in Connectors, t \in Transactions : entry = <<d, t>>
      BY <1>2, <2>2
    <3>0. open \ {<<d, t>>} \in SUBSET (Connectors \X Nat)
      BY <1>2, NoTransaction
    <3>. DEFINE s == [job[j] EXCEPT !.at = "stop", !.c = d, !.tx = t, !.todo = open \ {<<d, t>>}]
    <3>2. job' = [job EXCEPT ![j] = s]
      BY <2>2, <3>1
    <3>3. /\ s \in JobStates /\ s.at = "stop" /\ s.tx = t /\ s.c = d /\ s.r = job[j].r
          /\ s.todo = open \ {<<d, t>>} /\ s.op = job[j].op /\ s.tag = job[j].tag
      BY <1>0, <3>0, PlacesDiffer, NoTransaction DEF JobStates
    <3>. HIDE DEF s
    <3>4. OneMoves(j) /\ job'[j] = s
      BY <1>0, <3>2, <3>3, SetMoves DEF JobTypes
    <3>5. Shaped(s)
      BY <1>0, <1>2, <3>3, PlacesDiffer DEF Shaped
    <3>. QED
      BY <2>2, <3>1, <3>3, <3>4, <3>5 DEF GoesOn
  <2>. QED
    BY <1>3, <2>1, <2>2
<1>5. job'[j].at \in {"idle", "stop"}
  BY <1>4, IdleJob DEF GoesOn
<1>6. StoreTypes' /\ RemoteTypes'
  BY <1>1 DEF CommandInv, StoreTypes, RemoteTypes
<1>7. JobTypes'
  BY <1>0, <1>4, JobsTyped DEF GoesOn
<1>8. StartsAlone'
  <2>1. \A d \in Connectors : Starting(d)' \subseteq Starting(d)
    BY <1>4, <1>5, PlacesDiffer DEF Starting, OneMoves
  <2>. QED
    BY <1>1, <2>1 DEF StartsAlone
<1>9. LoopsTied'
  BY <1>0, <1>1, <1>4, <1>5, PlacesDiffer, LoopsKept DEF CommandInv
<1>10. ExpiryKept'
  BY <1>0, <1>1, <1>4, <1>5, PlacesDiffer, ExpiryHeld DEF CommandInv, GoesOn
<1>11. StopsKnown'
  <2>1. \A entry \in Ahead(j)' : entry \in open
    BY <1>4, IdleJob DEF Ahead, GoesOn
  <2>2. \A t \in Transactions : j \notin Stopping(t)
    BY <1>0, NothingAhead, PlacesDiffer DEF Stopping
  <2>3. \A entry \in Ahead(j)' : ~restopped' => active[entry[1]] = entry[2] /\ Stopping(entry[2]) = {}
    BY <1>1, <1>2, <2>1
  <2>4. job'[j].at = "stop" => <<job'[j].c, job'[j].tx>> \notin job'[j].todo
    BY <1>4, IdleJob DEF GoesOn
  <2>. QED
    BY <1>1, <1>4, <1>5, <2>2, <2>3, <2>4, StopsMove DEF GoesOn
<1>. QED
  BY <1>6, <1>7, <1>8, <1>9, <1>10, <1>11 DEF CommandInv

\* A new interval stops the loop of each transaction in turn.
LEMMA IntervalStopsKeeps ==
    ASSUME CommandInv, NEW j \in Jobs, IntervalStops(j)
    PROVE  CommandInv'
<1>0. JobTypes /\ Shaped(job[j]) /\ job[j].at = "config" /\ job[j] \in JobStates /\ job \in [Jobs -> JobStates] /\ RemoteTypes
  BY DEF CommandInv, JobTypes, IntervalStops, At
<1>1. UNCHANGED <<reservations, timers, armed, disposed, crossed, active, pendingStarts, rowTx, sim, issued, stops,
                  doubled, restopped>>
  BY DEF IntervalStops, Keep, Store
<1>2. CASE Done(j) /\ Keep(<<loops, handle, raced>>)
  <2>1. job' = [job EXCEPT ![j] = Idle] /\ RestKept
    BY <1>1, <1>2 DEF Done, Keep, RestKept
  <2>2. OneMoves(j) /\ job'[j].at = "idle" /\ job'[j].r = None /\ Shaped(job'[j])
    BY <1>0, <2>1, DoneMoves
  <2>. QED
    BY <1>0, <1>1, <2>1, <2>2, PlacesDiffer, StepsElsewhere
<1>3. ASSUME NEW c \in Connectors, active[c] # 0, StopLoop(c), raced' = (raced \/ LoopComes(c)),
             job' = [job EXCEPT ![j].at = "restart", ![j].c = c, ![j].todo = @ \cup {<<c, 0>>}]
      PROVE  CommandInv'
  <2>0. job[j].todo \cup {<<c, 0>>} \in SUBSET (Connectors \X Nat)
    BY <1>0 DEF JobStates
  <2>. DEFINE s == [job[j] EXCEPT !.at = "restart", !.c = c, !.todo = job[j].todo \cup {<<c, 0>>}]
  <2>1. job' = [job EXCEPT ![j] = s]
    BY <1>3
  <2>2. /\ s \in JobStates /\ s.at = "restart" /\ s.c = c /\ s.r = job[j].r /\ s.tx = job[j].tx
        /\ s.todo = job[j].todo \cup {<<c, 0>>} /\ s.op = job[j].op /\ s.tag = job[j].tag
    BY <1>0, <2>0 DEF JobStates, Places
  <2>. HIDE DEF s
  <2>3. OneMoves(j) /\ job'[j] = s /\ \A i \in Jobs \ {j} : job'[i] = job[i]
    BY <1>0, <2>1, <2>2, SetMoves DEF OneMoves
  <2>4. Shaped(s)
    BY <1>0, <1>3, <2>2, PlacesDiffer DEF Shaped
  <2>5. handle' \in [Connectors -> BOOLEAN] /\ loops' \in [Connectors -> Int] /\ sim' \in [Connectors -> BOOLEAN]
    BY <1>0, <1>1, <1>3, LoopTypes DEF RemoteTypes
  <2>6. LoopsTied'
    <3>. SUFFICES ASSUME ~raced', ~doubled', ~restopped', NEW d \in Connectors
                  PROVE  LoopHeld(d)' /\ \A i \in Jobs : LoopAwaited(i, d)'
      BY DEF LoopsTied
    <3>0. \A e \in Connectors : LoopHeld(e) /\ \A i \in Jobs : LoopAwaited(i, e)
      BY <1>1, <1>3 DEF CommandInv, LoopsTied
    <3>1. LoopHeld(d)'
      <4>0. \A i \in Jobs : job[i].at = "sample" => job'[i] = job[i]
        BY <1>0, <2>3
      <4>1. CASE d = c
        <5>1. loops'[c] = 0 /\ ~handle'[c]
          BY <1>0, <1>3, <3>0, StopsLoop
        <5>. QED
          BY <1>1, <1>3, <4>1, <5>1 DEF LoopHeld
      <4>2. CASE d # c
        <5>1. LoopHeld(d) /\ loops'[d] = loops[d] /\ handle'[d] = handle[d]
          BY <1>0, <1>3, <3>0, <4>2, StopsLoop
        <5>. QED
          BY <1>1, <4>0, <5>1 DEF LoopHeld
      <4>. QED
        BY <4>1, <4>2
    <3>2. ASSUME NEW i \in Jobs \ {j} PROVE LoopAwaited(i, d)'
      <4>1. LoopAwaited(i, d)
        BY <3>0
      <4>2. job[i].at = "rated" /\ job[i].c = d => ~sim'[d]
        BY <1>1, <4>1 DEF LoopAwaited
      <4>. QED
        BY <1>1, <2>2, <2>3, <4>1, <4>2, PlacesDiffer, AwaitedKept
    <3>3. LoopAwaited(j, d)'
      BY <1>1, <1>3, <2>2, <2>3 DEF LoopAwaited
    <3>. QED
      BY <3>1, <3>2, <3>3
  <2>. QED
    BY <1>0, <1>1, <2>2, <2>3, <2>4, <2>5, <2>6, PlacesDiffer, MeterSteps
<1>. QED
  BY <1>2, <1>3 DEF IntervalStops

\* What local users and the attempt's expiry do to the row leaves the table alone.
LEMMA SessionKeeps ==
    ASSUME CommandInv, NEW c \in Connectors, LocalStart(c) \/ LocalStop(c) \/ AttemptExpires(c)
    PROVE  CommandInv'
<1>0. RemoteTypes
  BY DEF CommandInv
<1>1. UNCHANGED job /\ RestKept
  BY DEF LocalStart, LocalStop, AttemptExpires, Keep, Store, Meter, Histories, RestKept
<1>2. CASE LocalStop(c)
  <2>1. PICK tx \in Transactions \cup {0} : tx = rowTx[c]
    BY <1>0 DEF RemoteTypes
  <2>2. stops' = IF tx = 0 THEN stops ELSE [stops EXCEPT ![tx] = @ + 1]
    BY <1>2, <2>1 DEF LocalStop
  <2>3. rowTx' \in [Connectors -> Transactions \cup {0}]
    BY <1>0, <1>2 DEF LocalStop, FreeRow, RemoteTypes
  <2>. QED
    BY <1>0, <1>1, <2>2, <2>3, StopCounted, SessionSteps
<1>3. CASE LocalStart(c) \/ AttemptExpires(c)
  <2>1. UNCHANGED <<rowTx, stops>>
    BY <1>3 DEF LocalStart, AttemptExpires, Keep
  <2>. QED
    BY <1>1, <2>1, StopsRest, SessionSteps
<1>. QED
  BY <1>2, <1>3

-----------------------------------------------------------------------------
(* Reservations *)

LEMMA FrontShorter ==
    ASSUME NEW S, NEW s \in Seq(S), s # <<>>
    PROVE  Front(s) \in Seq(S) /\ Len(Front(s)) = Len(s) - 1
<1>1. PICK n \in Nat : n = Len(s) /\ n > 0
  OBVIOUS
<1>2. n - 1 \in Int /\ \A i \in 1..(n - 1) : s[i] \in S
  BY <1>1
<1>3. /\ SubSeq(s, 1, n - 1) \in Seq(S)
      /\ Len(SubSeq(s, 1, n - 1)) = IF 1 <= n - 1 THEN (n - 1) - 1 + 1 ELSE 0
  BY <1>2, SubSeqProperties
<1>4. (IF 1 <= n - 1 THEN (n - 1) - 1 + 1 ELSE 0) = n - 1
  BY <1>1
<1>. QED
  BY <1>1, <1>3, <1>4 DEF Front

\* Removing one element of a list leaves one less.
LEMMA RemovedShorter ==
    ASSUME NEW S, NEW s \in Seq(S), NEW i \in DOMAIN s
    PROVE  RemoveAt(s, i) \in Seq(S) /\ Len(RemoveAt(s, i)) = Len(s) - 1
<1>1. i \in 1..Len(s)
  OBVIOUS
<1>. DEFINE a == SubSeq(s, 1, i - 1)
            b == SubSeq(s, i + 1, Len(s))
<1>2. a \in Seq(S) /\ Len(a) = i - 1
  BY <1>1
<1>3. b \in Seq(S) /\ Len(b) = Len(s) - i
  BY <1>1
<1>4. RemoveAt(s, i) = a \o b
  BY DEF RemoveAt
<1>. HIDE DEF a, b
<1>5. a \o b \in Seq(S) /\ Len(a \o b) = Len(a) + Len(b)
  BY <1>2, <1>3, ConcatProperties
<1>6. Len(a) + Len(b) = Len(s) - 1
  BY <1>1, <1>2, <1>3
<1>. QED
  BY <1>4, <1>5, <1>6

\* clearTimer leaves no timeout armed if the handle was that of the only one.
LEMMA CancelledTyped ==
    ASSUME StoreTypes, NEW r \in ReservationIds
    PROVE  /\ Cancelled(r) \in Seq({"near", "far"})
           /\ Len(armed[r]) = (IF timers[r] = "live" THEN 1 ELSE 0) => Len(Cancelled(r)) = 0
<1>1. armed[r] \in Seq({"near", "far"})
  BY DEF StoreTypes
<1>2. CASE armed[r] = <<>>
  <2>1. Front(armed[r]) = <<>>
    BY <1>2 DEF Front
  <2>2. Cancelled(r) = <<>>
    BY <1>2, <2>1 DEF Cancelled
  <2>. QED
    BY <2>2
<1>3. CASE armed[r] # <<>>
  BY <1>1, <1>3, FrontShorter DEF Cancelled
<1>. QED
  BY <1>2, <1>3

\* The other reservations, and the one the handler is about.
LEMMA ExpiryMoves ==
    ASSUME CommandInv, NEW j \in Jobs, NEW r \in ReservationIds, OneMoves(j), job'[j].r \in {r, None},
           \A q \in ReservationIds \ {r} :
             /\ job[j].r # q
             /\ timers'[q] = timers[q] /\ armed'[q] = armed[q] /\ reservations'[q] = reservations[q],
           disposed' = disposed, ~crossed' => ~crossed /\ \A i \in Jobs \ {j} : job[i].r # r,
           ~crossed' /\ ExpiryOf(r) =>
             /\ Len(armed'[r]) = IF timers'[r] = "live" THEN 1 ELSE 0
             /\ job'[j].r = r /\ job'[j].at \in Between => timers'[r] # "live"
             /\ (job'[j].r = r /\ job'[j].at \in Between) \/ ((timers'[r] = "live" => reservations'[r] # None)
                  /\ (~disposed /\ reservations'[r] # None => timers'[r] = "live"))
    PROVE  ExpiryKept'
<1>. SUFFICES ASSUME ~crossed', NEW q \in ReservationIds PROVE ExpiryOf(q)'
  BY DEF ExpiryKept
<1>1. ExpiryOf(q) /\ ExpiryOf(r)
  BY DEF CommandInv, ExpiryKept
<1>2. \A i \in Jobs \ {j} : job'[i] = job[i]
  BY DEF OneMoves
<1>3. CASE q = r
  <2>1. \A i \in Jobs : job'[i].r = r => i = j
    BY <1>2
  <2>. QED
    BY <1>1, <1>3, <2>1 DEF ExpiryOf
<1>4. CASE q # r
  <2>1. job[j].r # q /\ job'[j].r # q
    BY <1>4, NoneIsNothing
  <2>2. \A i \in Jobs : job'[i].r = q <=> job[i].r = q
    BY <1>2, <2>1
  <2>3. \A i \in Jobs : job[i].r = q => job'[i] = job[i]
    BY <1>2, <2>1
  <2>4. timers'[q] = timers[q] /\ armed'[q] = armed[q] /\ reservations'[q] = reservations[q]
    BY <1>4
  <2>5. Len(armed'[q]) = IF timers'[q] = "live" THEN 1 ELSE 0
    BY <1>1, <2>4 DEF ExpiryOf
  <2>6. /\ \A i, k \in Jobs : job'[i].r = q /\ job'[k].r = q => i = k
        /\ \A i \in Jobs : job'[i].r = q /\ job'[i].at \in Between => timers'[q] # "live"
    BY <1>1, <2>2, <2>3, <2>4 DEF ExpiryOf
  <2>7. (\A i \in Jobs : job'[i].r = q => job'[i].at \notin Between) =>
          /\ timers'[q] = "live" => reservations'[q] # None
          /\ ~disposed' /\ reservations'[q] # None => timers'[q] = "live"
    BY <1>1, <2>2, <2>3, <2>4 DEF ExpiryOf
  <2>. QED
    BY <2>5, <2>6, <2>7 DEF ExpiryOf
<1>. QED
  BY <1>3, <1>4

\* The whole invariant under a step of the reservations alone.
LEMMA StoreSteps ==
    ASSUME CommandInv, NEW j \in Jobs, OneMoves(j), Shaped(job'[j]), UNCHANGED remoteVars, StoreTypes', ExpiryKept',
           job[j].at \notin StopPlaces \cup StartPlaces \cup {"restart"},
           job'[j].at \notin StopPlaces \cup StartPlaces \cup {"restart"}
    PROVE  CommandInv'
<1>. USE DEF remoteVars
<1>1. RemoteTypes'
  BY DEF CommandInv, RemoteTypes
<1>2. JobTypes'
  BY JobsTyped DEF CommandInv
<1>3. StartsAlone'
  BY StartsKept DEF CommandInv
<1>4. StopsKnown'
  BY StopsKept DEF CommandInv, RemoteTypes
<1>5. LoopsTied'
  BY PlacesDiffer, LoopsKept DEF CommandInv
<1>. QED
  BY <1>1, <1>2, <1>3, <1>4, <1>5 DEF CommandInv

\* ReserveNow begins: it holds its reservation from here on.
LEMMA ReserveKeeps ==
    ASSUME CommandInv, NEW j \in Jobs, NEW c \in Connectors, NEW r \in ReservationIds, NEW tag \in Tags,
           ReserveNow(j, c, r, tag), UNCHANGED remoteVars
    PROVE  CommandInv'
<1>. DEFINE s == [Idle EXCEPT !.op = "reserve", !.at = "remove", !.c = c, !.r = r, !.tag = tag]
<1>1. /\ s \in JobStates /\ s.op = "reserve" /\ s.at = "remove" /\ s.c = c /\ s.r = r /\ s.tag = tag
      /\ s.todo = {}
  BY IdleJob DEF JobStates, Operations, Places
<1>2. Begin(j, s)
  BY DEF ReserveNow
<1>. HIDE DEF s
<1>3. OneMoves(j) /\ job'[j] = s /\ job[j].at = "idle" /\ job[j].r = None
  BY <1>1, <1>2, BeginMoves DEF CommandInv
<1>4. Shaped(s)
  BY <1>1, PlacesDiffer DEF Shaped
<1>5. UNCHANGED <<reservations, timers, armed, disposed>> /\ crossed' = (crossed \/ Meets(r))
  BY DEF ReserveNow
<1>6. ~crossed' => ~crossed /\ \A i \in Jobs : job[i].r # r
  BY <1>5 DEF Meets
<1>7. ExpiryKept'
  <2>1. \A q \in ReservationIds \ {r} : job[j].r # q
    BY <1>3, NoneIsNothing
  <2>2. ~crossed' /\ ExpiryOf(r) =>
          /\ Len(armed'[r]) = IF timers'[r] = "live" THEN 1 ELSE 0
          /\ job'[j].at \notin Between
          /\ timers'[r] = "live" => reservations'[r] # None
          /\ ~disposed /\ reservations'[r] # None => timers'[r] = "live"
    BY <1>1, <1>3, <1>5, <1>6, PlacesDiffer DEF ExpiryOf
  <2>. QED
    BY <1>1, <1>3, <1>5, <1>6, <2>1, <2>2, ExpiryMoves
<1>8. StoreTypes'
  BY <1>5 DEF CommandInv, StoreTypes
<1>. QED
  BY <1>1, <1>3, <1>4, <1>7, <1>8, PlacesDiffer, StoreSteps

\* CancelReservation begins: it holds its reservation from here on.
LEMMA CancelKeeps ==
    ASSUME CommandInv, NEW j \in Jobs, NEW r \in ReservationIds, CancelReservation(j, r), UNCHANGED remoteVars
    PROVE  CommandInv'
<1>. DEFINE s == [Idle EXCEPT !.op = "cancel", !.at = "remove", !.r = r]
<1>1. s \in JobStates /\ s.op = "cancel" /\ s.at = "remove" /\ s.r = r /\ s.todo = {}
  BY IdleJob DEF JobStates, Operations, Places
<1>2. Begin(j, s)
  BY DEF CancelReservation
<1>. HIDE DEF s
<1>3. OneMoves(j) /\ job'[j] = s /\ job[j].at = "idle" /\ job[j].r = None
  BY <1>1, <1>2, BeginMoves DEF CommandInv
<1>4. Shaped(s)
  BY <1>1, PlacesDiffer DEF Shaped
<1>5. UNCHANGED <<reservations, timers, armed, disposed>> /\ crossed' = (crossed \/ Meets(r))
  BY DEF CancelReservation
<1>6. ~crossed' => ~crossed /\ \A i \in Jobs : job[i].r # r
  BY <1>5 DEF Meets
<1>7. ExpiryKept'
  <2>1. \A q \in ReservationIds \ {r} : job[j].r # q
    BY <1>3, NoneIsNothing
  <2>2. ~crossed' /\ ExpiryOf(r) =>
          /\ Len(armed'[r]) = IF timers'[r] = "live" THEN 1 ELSE 0
          /\ job'[j].at \notin Between
          /\ timers'[r] = "live" => reservations'[r] # None
          /\ ~disposed /\ reservations'[r] # None => timers'[r] = "live"
    BY <1>1, <1>3, <1>5, <1>6, PlacesDiffer DEF ExpiryOf
  <2>. QED
    BY <1>1, <1>3, <1>5, <1>6, <2>1, <2>2, ExpiryMoves
<1>8. StoreTypes'
  BY <1>5 DEF CommandInv, StoreTypes
<1>. QED
  BY <1>1, <1>3, <1>4, <1>7, <1>8, PlacesDiffer, StoreSteps

\* A handler between the two writes of a change has its reservation to itself.
LEMMA BusyWith ==
    ASSUME CommandInv, NEW j \in Jobs, job[j].at \in {"remove"} \cup Between
    PROVE  \E r \in ReservationIds :
             /\ job[j].r = r
             /\ ~crossed => /\ ExpiryOf(r) /\ \A i \in Jobs \ {j} : job[i].r # r
                            /\ job[j].at \in Between => timers[r] # "live"
                            /\ job[j].at = "remove" => /\ timers[r] = "live" => reservations[r] # None
                                                       /\ ~disposed /\ reservations[r] # None => timers[r] = "live"
<1>1. PICK r \in ReservationIds : job[j].r = r
  BY DEF CommandInv, JobTypes, Shaped
<1>2. ASSUME ~crossed
      PROVE  /\ ExpiryOf(r) /\ \A i \in Jobs \ {j} : job[i].r # r
             /\ job[j].at \in Between => timers[r] # "live"
  <2>1. ExpiryOf(r)
    BY <1>2 DEF CommandInv, ExpiryKept
  <2>. QED
    BY <1>1, <2>1 DEF ExpiryOf
<1>3. ASSUME ~crossed, job[j].at = "remove"
      PROVE  /\ timers[r] = "live" => reservations[r] # None
             /\ ~disposed /\ reservations[r] # None => timers[r] = "live"
  <2>1. \A i \in Jobs : job[i].r = r => job[i].at \notin Between
    BY <1>1, <1>2, <1>3, PlacesDiffer
  <2>. QED
    BY <1>2, <1>3, <2>1 DEF ExpiryOf
<1>. QED
  BY <1>1, <1>2, <1>3

\* A handler that lets go of its reservation, or goes on, after its timer and its entry changed.
LEMMA BusyMoves ==
    ASSUME CommandInv, NEW j \in Jobs, NEW r \in ReservationIds, OneMoves(j), Shaped(job'[j]), job[j].r = r,
           job'[j].r \in {r, None}, UNCHANGED remoteVars, StoreTypes',
           job[j].at \in {"remove"} \cup Between,
           job'[j].at \in {"idle", "release", "reserved", "redeemed"} \cup Between,
           \A q \in ReservationIds \ {r} :
             timers'[q] = timers[q] /\ armed'[q] = armed[q] /\ reservations'[q] = reservations[q],
           disposed' = disposed, crossed' = crossed,
           ~crossed => /\ Len(armed'[r]) = IF timers'[r] = "live" THEN 1 ELSE 0
                       /\ job'[j].at \in Between => timers'[r] # "live" /\ job'[j].r = r
                       /\ job'[j].at \notin Between =>
                            /\ timers'[r] = "live" => reservations'[r] # None
                            /\ ~disposed /\ reservations'[r] # None => timers'[r] = "live"
    PROVE  CommandInv'
<1>1. ~crossed => \A i \in Jobs \ {j} : job[i].r # r
  BY BusyWith
<1>2. ExpiryKept'
  BY <1>1, ExpiryMoves
<1>. QED
  BY <1>2, PlacesDiffer, StoreSteps

\* Where a handler goes once the reservation is removed.
LEMMA AfterRemovalMoves ==
    ASSUME JobTypes, NEW j \in Jobs, NEW found \in BOOLEAN, AfterRemoval(j, found), job[j].at \in {"remove", "delete"}
    PROVE  /\ OneMoves(j) /\ Shaped(job'[j]) /\ job'[j].r \in {job[j].r, None}
           /\ job'[j].at \in {"store", "redeemed", "release", "idle"}
           /\ job'[j].at = "store" => job'[j].r = job[j].r
<1>0. job \in [Jobs -> JobStates] /\ Shaped(job[j]) /\ job[j].op \in {"reserve", "redeem", "cancel"}
  BY DEF JobTypes, Shaped
<1>1. CASE job[j].op = "reserve"
  <2>1. job' = [job EXCEPT ![j].at = "store"] /\ "store" \in Places
    BY <1>1 DEF AfterRemoval, Goto, Places
  <2>2. /\ OneMoves(j) /\ job'[j].at = "store" /\ job'[j].op = job[j].op /\ job'[j].c = job[j].c
        /\ job'[j].r = job[j].r /\ job'[j].tag = job[j].tag /\ job'[j].todo = job[j].todo
    BY <1>0, <2>1, GotoMoves
  <2>. QED
    BY <1>0, <1>1, <2>2, PlacesDiffer DEF Shaped
<1>2. CASE job[j].op = "redeem"
  <2>1. job' = [job EXCEPT ![j].at = "redeemed"] /\ "redeemed" \in Places
    BY <1>2 DEF AfterRemoval, Goto, Places
  <2>2. /\ OneMoves(j) /\ job'[j].at = "redeemed" /\ job'[j].op = job[j].op /\ job'[j].c = job[j].c
        /\ job'[j].r = job[j].r /\ job'[j].tag = job[j].tag /\ job'[j].todo = job[j].todo
    BY <1>0, <2>1, GotoMoves
  <2>. QED
    BY <1>0, <1>2, <2>2, PlacesDiffer DEF Shaped
<1>3. CASE job[j].op = "cancel" /\ found
  <2>1. job' = [job EXCEPT ![j].at = "release"] /\ "release" \in Places
    BY <1>3 DEF AfterRemoval, Defer, Places
  <2>2. /\ OneMoves(j) /\ job'[j].at = "release" /\ job'[j].op = job[j].op /\ job'[j].c = job[j].c
        /\ job'[j].r = job[j].r /\ job'[j].tag = job[j].tag /\ job'[j].todo = job[j].todo
    BY <1>0, <2>1, GotoMoves
  <2>. QED
    BY <1>0, <1>3, <2>2, PlacesDiffer DEF Shaped
<1>4. CASE job[j].op = "cancel" /\ ~found
  <2>1. job' = [job EXCEPT ![j] = Idle]
    BY <1>4 DEF AfterRemoval, Done
  <2>. QED
    BY <1>0, <2>1, DoneMoves
<1>. QED
  BY <1>0, <1>1, <1>2, <1>3, <1>4

\* A removal clears the timer, then has the row to delete.
LEMMA RemoveLooksKeeps ==
    ASSUME CommandInv, NEW j \in Jobs, RemoveLooks(j), UNCHANGED remoteVars
    PROVE  CommandInv'
<1>0. JobTypes /\ Shaped(job[j]) /\ job[j].at = "remove" /\ job[j] \in JobStates /\ job \in [Jobs -> JobStates] /\ StoreTypes
  BY DEF CommandInv, JobTypes, RemoveLooks, At
<1>1. PICK r \in ReservationIds :
        /\ job[j].r = r
        /\ ~crossed => /\ ExpiryOf(r) /\ (timers[r] = "live" => reservations[r] # None)
                       /\ ~disposed /\ reservations[r] # None => timers[r] = "live"
  BY <1>0, BusyWith
<1>2. UNCHANGED <<reservations, disposed, crossed>>
  BY DEF RemoveLooks
<1>3. CASE reservations[r] = None /\ AfterRemoval(j, FALSE) /\ UNCHANGED <<timers, armed>>
  <2>1. /\ OneMoves(j) /\ Shaped(job'[j]) /\ job'[j].r \in {job[j].r, None}
        /\ job'[j].at \in {"store", "redeemed", "release", "idle"} /\ (job'[j].at = "store" => job'[j].r = job[j].r)
    BY <1>0, <1>3, AfterRemovalMoves
  <2>2. StoreTypes'
    BY <1>0, <1>2, <1>3 DEF StoreTypes
  <2>. QED
    BY <1>0, <1>1, <1>2, <1>3, <2>1, <2>2, PlacesDiffer, BusyMoves DEF ExpiryOf
<1>4. CASE /\ reservations[r] # None /\ ClearTimer(r)
           /\ job' = [job EXCEPT ![j].at = "delete", ![j].c = IF job[j].op = "cancel" THEN reservations[r].c ELSE @]
  <2>0. reservations[r].c \in Connectors
    BY <1>0, <1>4 DEF StoreTypes
  <2>1. PICK c \in Connectors \cup {None} :
          /\ c = IF job[j].op = "cancel" THEN reservations[r].c ELSE job[j].c
          /\ job[j].op # "cancel" => c \in Connectors
    BY <1>0, <2>0, PlacesDiffer DEF Shaped
  <2>. DEFINE s == [job[j] EXCEPT !.at = "delete", !.c = c]
  <2>2. job' = [job EXCEPT ![j] = s]
    BY <1>4, <2>1
  <2>3. /\ s \in JobStates /\ s.op = job[j].op /\ s.at = "delete" /\ s.c = c /\ s.r = r /\ s.tag = job[j].tag
        /\ s.todo = job[j].todo
    BY <1>0, <1>1 DEF JobStates, Places
  <2>. HIDE DEF s
  <2>4. OneMoves(j) /\ job'[j] = s
    BY <1>0, <2>2, <2>3, SetMoves
  <2>5. Shaped(s)
    BY <1>0, <2>1, <2>3, PlacesDiffer DEF Shaped
  <2>6. /\ Cancelled(r) \in Seq({"near", "far"})
        /\ Len(armed[r]) = (IF timers[r] = "live" THEN 1 ELSE 0) => Len(Cancelled(r)) = 0
    BY <1>0, CancelledTyped
  <2>7. /\ timers' \in [ReservationIds -> {"none", "live", "fired"}] /\ armed' \in [ReservationIds -> Seq({"near", "far"})]
        /\ timers'[r] = "none" /\ armed'[r] = Cancelled(r)
        /\ \A q \in ReservationIds \ {r} : timers'[q] = timers[q] /\ armed'[q] = armed[q]
    <3>1. timers \in [ReservationIds -> {"none", "live", "fired"}] /\ armed \in [ReservationIds -> Seq({"near", "far"})]
      BY <1>0 DEF StoreTypes
    <3>2. timers' = [timers EXCEPT ![r] = "none"] /\ armed' = [armed EXCEPT ![r] = Cancelled(r)]
      BY <1>4 DEF ClearTimer
    <3>. QED
      BY <2>6, <3>1, <3>2
  <2>8. StoreTypes'
    BY <1>0, <1>2, <2>7 DEF StoreTypes
  <2>9. ~crossed => Len(armed'[r]) = 0
    BY <1>1, <2>6, <2>7 DEF ExpiryOf
  <2>. QED
    BY <1>0, <1>1, <1>2, <2>3, <2>4, <2>5, <2>7, <2>8, <2>9, PlacesDiffer, BusyMoves
<1>. QED
  BY <1>1, <1>3, <1>4 DEF RemoveLooks

\* A removal deletes the row, whose timer it has cleared.
LEMMA RemoveDeletesKeeps ==
    ASSUME CommandInv, NEW j \in Jobs, RemoveDeletes(j), UNCHANGED remoteVars
    PROVE  CommandInv'
<1>0. JobTypes /\ job[j].at = "delete" /\ StoreTypes
  BY DEF CommandInv, RemoveDeletes, At
<1>1. PICK r \in ReservationIds : job[j].r = r /\ (~crossed => ExpiryOf(r) /\ timers[r] # "live")
  BY <1>0, BusyWith, PlacesDiffer
<1>2. UNCHANGED <<timers, armed, disposed, crossed>> /\ reservations' = [reservations EXCEPT ![r] = None]
  BY <1>1 DEF RemoveDeletes
<1>3. /\ reservations'[r] = None /\ \A q \in ReservationIds \ {r} : reservations'[q] = reservations[q]
  BY <1>0, <1>2 DEF StoreTypes
<1>4. StoreTypes'
  BY <1>0, <1>2 DEF StoreTypes
<1>5. /\ OneMoves(j) /\ Shaped(job'[j]) /\ job'[j].r \in {job[j].r, None}
      /\ job'[j].at \in {"store", "redeemed", "release", "idle"} /\ (job'[j].at = "store" => job'[j].r = job[j].r)
  BY <1>0, AfterRemovalMoves DEF RemoveDeletes
<1>. QED
  BY <1>0, <1>1, <1>2, <1>3, <1>4, <1>5, PlacesDiffer, BusyMoves DEF ExpiryOf

\* Arming adds one timeout.
LEMMA ArmedLonger ==
    ASSUME NEW s \in Seq({"near", "far"}), NEW chunk \in {"near", "far"}
    PROVE  Append(s, chunk) \in Seq({"near", "far"}) /\ Len(Append(s, chunk)) = Len(s) + 1
OBVIOUS

\* A new reservation is stored and its timer armed in one step.
LEMMA StoresKeeps ==
    ASSUME CommandInv, NEW j \in Jobs, ReserveStores(j), UNCHANGED remoteVars
    PROVE  CommandInv'
<1>0. /\ JobTypes /\ Shaped(job[j]) /\ job[j].at = "store" /\ job[j] \in JobStates /\ job \in [Jobs -> JobStates]
      /\ StoreTypes
  BY DEF CommandInv, JobTypes, ReserveStores, At
<1>1. PICK r \in ReservationIds : job[j].r = r /\ (~crossed => ExpiryOf(r) /\ timers[r] # "live")
  BY <1>0, BusyWith, PlacesDiffer
<1>2. PICK entry \in [c : Connectors, tag : Tags] : entry = [c |-> job[j].c, tag |-> job[j].tag]
  BY <1>0, PlacesDiffer DEF Shaped
<1>3. /\ UNCHANGED <<disposed, crossed>> /\ reservations' = [reservations EXCEPT ![r] = entry]
      /\ timers' = [timers EXCEPT ![r] = "live"] /\ job' = [job EXCEPT ![j].at = "reserved"]
  BY <1>1, <1>2 DEF ReserveStores, ScheduleExpiry, Defer
<1>4. PICK chunk \in {"near", "far"} : armed' = [armed EXCEPT ![r] = Append(@, chunk)]
  BY <1>1 DEF ReserveStores, ScheduleExpiry
<1>5. armed[r] \in Seq({"near", "far"})
  BY <1>0 DEF StoreTypes
<1>6. Append(armed[r], chunk) \in Seq({"near", "far"}) /\ Len(Append(armed[r], chunk)) = Len(armed[r]) + 1
  BY <1>5, ArmedLonger
<1>7. /\ reservations'[r] # None /\ timers'[r] = "live" /\ Len(armed'[r]) = Len(armed[r]) + 1
      /\ \A q \in ReservationIds \ {r} :
           timers'[q] = timers[q] /\ armed'[q] = armed[q] /\ reservations'[q] = reservations[q]
  BY <1>0, <1>3, <1>4, <1>6, NoneIsNothing DEF StoreTypes
<1>8. StoreTypes'
  BY <1>0, <1>3, <1>4, <1>6 DEF StoreTypes
<1>9. "reserved" \in Places
  BY DEF Places
<1>10. /\ OneMoves(j) /\ job'[j].at = "reserved" /\ job'[j].op = job[j].op /\ job'[j].c = job[j].c
       /\ job'[j].r = job[j].r /\ job'[j].tag = job[j].tag /\ job'[j].todo = job[j].todo
  BY <1>0, <1>3, <1>9, GotoMoves
<1>11. Shaped(job'[j])
  BY <1>0, <1>10, PlacesDiffer DEF Shaped
<1>12. ~crossed => Len(armed'[r]) = 1
  BY <1>1, <1>7 DEF ExpiryOf
<1>. QED
  BY <1>0, <1>1, <1>3, <1>7, <1>8, <1>10, <1>11, <1>12, PlacesDiffer, BusyMoves

\* The deferred callbacks end their handlers and leave the store.
LEMMA CallbackKeeps ==
    ASSUME CommandInv, NEW j \in Jobs, ReserveMarks(j) \/ CancelReleases(j), UNCHANGED remoteVars
    PROVE  CommandInv'
<1>0. JobTypes /\ job[j].at \in {"reserved", "release"} /\ job \in [Jobs -> JobStates]
  BY DEF CommandInv, JobTypes, ReserveMarks, CancelReleases, At
<1>1. job' = [job EXCEPT ![j] = Idle] /\ RestKept /\ UNCHANGED <<rowTx, stops>>
  BY DEF ReserveMarks, CancelReleases, RestKept, remoteVars
<1>2. OneMoves(j) /\ job'[j].at = "idle" /\ job'[j].r = None /\ Shaped(job'[j])
  BY <1>0, <1>1, DoneMoves
<1>. QED
  BY <1>0, <1>1, <1>2, PlacesDiffer, StepsElsewhere

\* An expiry that ran has no timer left and looks its row up.
LEMMA ExpiryLooksKeeps ==
    ASSUME CommandInv, NEW j \in Jobs, ExpiryLooks(j), UNCHANGED remoteVars
    PROVE  CommandInv'
<1>0. /\ JobTypes /\ Shaped(job[j]) /\ job[j].at = "expire" /\ job[j] \in JobStates /\ job \in [Jobs -> JobStates]
      /\ StoreTypes
  BY DEF CommandInv, JobTypes, ExpiryLooks, At
<1>1. PICK r \in ReservationIds : job[j].r = r /\ (~crossed => ExpiryOf(r) /\ timers[r] # "live")
  BY <1>0, BusyWith, PlacesDiffer
<1>2. UNCHANGED <<reservations, armed, disposed, crossed>>
  BY DEF ExpiryLooks
<1>3. CASE reservations[r] = None /\ Done(j) /\ UNCHANGED timers
  <2>1. OneMoves(j) /\ job'[j].at = "idle" /\ job'[j].r = None /\ Shaped(job'[j])
    BY <1>0, <1>3, DoneMoves DEF Done
  <2>2. StoreTypes'
    BY <1>0, <1>2, <1>3 DEF StoreTypes
  <2>. QED
    BY <1>0, <1>1, <1>2, <1>3, <2>1, <2>2, PlacesDiffer, BusyMoves DEF ExpiryOf
<1>4. CASE /\ reservations[r] # None /\ timers' = [timers EXCEPT ![r] = "none"]
           /\ job' = [job EXCEPT ![j].at = "expired", ![j].c = reservations[r].c]
  <2>1. PICK c \in Connectors : c = reservations[r].c
    BY <1>0, <1>4 DEF StoreTypes
  <2>. DEFINE s == [job[j] EXCEPT !.at = "expired", !.c = c]
  <2>2. job' = [job EXCEPT ![j] = s]
    BY <1>4, <2>1
  <2>3. /\ s \in JobStates /\ s.op = job[j].op /\ s.at = "expired" /\ s.c = c /\ s.r = r /\ s.tag = job[j].tag
        /\ s.todo = job[j].todo
    BY <1>0, <1>1 DEF JobStates, Places
  <2>. HIDE DEF s
  <2>4. OneMoves(j) /\ job'[j] = s
    BY <1>0, <2>2, <2>3, SetMoves
  <2>5. Shaped(s)
    BY <1>0, <2>3, PlacesDiffer DEF Shaped
  <2>6. timers'[r] = "none" /\ \A q \in ReservationIds \ {r} : timers'[q] = timers[q]
    BY <1>0, <1>4 DEF StoreTypes
  <2>7. StoreTypes'
    BY <1>0, <1>2, <1>4 DEF StoreTypes
  <2>. QED
    BY <1>0, <1>1, <1>2, <2>3, <2>4, <2>5, <2>6, <2>7, PlacesDiffer, BusyMoves DEF ExpiryOf
<1>. QED
  BY <1>1, <1>3, <1>4 DEF ExpiryLooks

\* An expiry deletes the row it found.
LEMMA ExpiryDeletesKeeps ==
    ASSUME CommandInv, NEW j \in Jobs, ExpiryDeletes(j), UNCHANGED remoteVars
    PROVE  CommandInv'
<1>0. JobTypes /\ job[j].at = "expired" /\ StoreTypes /\ job \in [Jobs -> JobStates]
  BY DEF CommandInv, JobTypes, ExpiryDeletes, At
<1>1. PICK r \in ReservationIds : job[j].r = r /\ (~crossed => ExpiryOf(r) /\ timers[r] # "live")
  BY <1>0, BusyWith, PlacesDiffer
<1>2. UNCHANGED <<timers, armed, disposed, crossed>> /\ reservations' = [reservations EXCEPT ![r] = None]
  BY <1>1 DEF ExpiryDeletes
<1>3. /\ reservations'[r] = None /\ \A q \in ReservationIds \ {r} : reservations'[q] = reservations[q]
  BY <1>0, <1>2 DEF StoreTypes
<1>4. StoreTypes'
  BY <1>0, <1>2 DEF StoreTypes
<1>5. OneMoves(j) /\ job'[j].at = "idle" /\ job'[j].r = None /\ Shaped(job'[j])
  BY <1>0, DoneMoves DEF ExpiryDeletes, Done
<1>. QED
  BY <1>0, <1>1, <1>2, <1>3, <1>4, <1>5, PlacesDiffer, BusyMoves DEF ExpiryOf

\* A start looks a reservation of its connector or tag up, and begins to remove it.
LEMMA RedeemLooksKeeps ==
    ASSUME CommandInv, NEW j \in Jobs, RedeemLooks(j), UNCHANGED remoteVars
    PROVE  CommandInv'
<1>0. /\ JobTypes /\ Shaped(job[j]) /\ job[j].at = "list" /\ job[j] \in JobStates /\ job \in [Jobs -> JobStates]
      /\ job[j].r = None
  BY PlacesDiffer DEF CommandInv, JobTypes, RedeemLooks, At, Shaped
<1>1. UNCHANGED <<reservations, timers, armed, disposed>>
  BY DEF RedeemLooks
<1>2. StoreTypes'
  BY <1>1 DEF CommandInv, StoreTypes
<1>3. CASE Done(j) /\ UNCHANGED crossed
  <2>1. OneMoves(j) /\ job'[j].at = "idle" /\ job'[j].r = None /\ Shaped(job'[j])
    BY <1>0, <1>3, DoneMoves DEF Done
  <2>2. RestKept /\ UNCHANGED <<rowTx, stops>>
    BY <1>1, <1>3 DEF RestKept, remoteVars
  <2>. QED
    BY <1>0, <2>1, <2>2, PlacesDiffer, StepsElsewhere
<1>4. ASSUME NEW r \in ReservationIds, crossed' = (crossed \/ Meets(r)),
             job' = [job EXCEPT ![j].op = "redeem", ![j].at = "remove", ![j].r = r]
      PROVE  CommandInv'
  <2>. DEFINE s == [job[j] EXCEPT !.op = "redeem", !.at = "remove", !.r = r]
  <2>1. job' = [job EXCEPT ![j] = s]
    BY <1>4
  <2>2. /\ s \in JobStates /\ s.op = "redeem" /\ s.at = "remove" /\ s.c = job[j].c /\ s.r = r
        /\ s.tag = job[j].tag /\ s.todo = job[j].todo
    BY <1>0 DEF JobStates, Operations, Places
  <2>. HIDE DEF s
  <2>3. OneMoves(j) /\ job'[j] = s
    BY <1>0, <2>1, <2>2, SetMoves
  <2>4. Shaped(s)
    BY <1>0, <2>2, PlacesDiffer DEF Shaped
  <2>5. ~crossed' => ~crossed /\ \A i \in Jobs : job[i].r # r
    BY <1>4 DEF Meets
  <2>6. ExpiryKept'
    <3>1. \A q \in ReservationIds \ {r} : job[j].r # q
      BY <1>0, NoneIsNothing
    <3>2. ~crossed' /\ ExpiryOf(r) =>
            /\ Len(armed'[r]) = IF timers'[r] = "live" THEN 1 ELSE 0
            /\ job'[j].at \notin Between
            /\ timers'[r] = "live" => reservations'[r] # None
            /\ ~disposed /\ reservations'[r] # None => timers'[r] = "live"
      BY <1>1, <2>2, <2>3, <2>5, PlacesDiffer DEF ExpiryOf
    <3>. QED
      BY <1>1, <2>2, <2>3, <2>5, <3>1, <3>2, ExpiryMoves
  <2>. QED
    BY <1>0, <1>2, <2>2, <2>3, <2>4, <2>6, PlacesDiffer, StoreSteps
<1>. QED
  BY <1>3, <1>4 DEF RedeemLooks

\* No handler moves and nothing changes but the store.
LEMMA NobodyMoves ==
    ASSUME CommandInv, UNCHANGED <<job, remoteVars>>
    PROVE  RemoteTypes' /\ JobTypes' /\ StartsAlone' /\ StopsKnown' /\ LoopsTied'
<1>1. UNCHANGED <<job, active, pendingStarts, row, rowTx, sim, handle, loops, issued, stops, doubled, restopped, raced>>
  BY DEF remoteVars
<1>2. RemoteTypes' /\ JobTypes'
  BY <1>1 DEF CommandInv, RemoteTypes, JobTypes
<1>3. StartsAlone' /\ LoopsTied'
  BY <1>1 DEF CommandInv, StartsAlone, LoopsTied, LoopHeld, LoopAwaited, Starting
<1>4. (\A i \in Jobs : Ahead(i)' = Ahead(i)) /\ \A tx \in issued : Stopping(tx)' = Stopping(tx)
  BY <1>1 DEF Ahead, Stopping
<1>5. StopsKnown'
  BY <1>1, <1>4 DEF CommandInv, StopsKnown
<1>. QED
  BY <1>2, <1>3, <1>5

\* A timeout fires: it arms the next chunk, or the reservation expires.
LEMMA FiresKeeps ==
    ASSUME CommandInv, NEW j \in Jobs, NEW r \in ReservationIds, ExpiryFires(j, r), UNCHANGED remoteVars
    PROVE  CommandInv'
<1>0. /\ JobTypes /\ job \in [Jobs -> JobStates] /\ StoreTypes /\ armed[r] \in Seq({"near", "far"})
      /\ armed \in [ReservationIds -> Seq({"near", "far"})]
      /\ timers \in [ReservationIds -> {"none", "live", "fired"}]
  BY DEF CommandInv, JobTypes, StoreTypes
<1>1. UNCHANGED <<reservations, disposed>>
  BY DEF ExpiryFires
<1>2. ASSUME NEW i \in DOMAIN armed[r], armed' = [armed EXCEPT ![r] = Append(RemoveAt(@, i), "near")],
             timers' = [timers EXCEPT ![r] = "live"], UNCHANGED <<job, crossed>>
      PROVE  CommandInv'
  <2>1. RemoveAt(armed[r], i) \in Seq({"near", "far"}) /\ Len(RemoveAt(armed[r], i)) = Len(armed[r]) - 1
    BY <1>0, RemovedShorter
  <2>2. PICK rest \in Seq({"near", "far"}) : rest = RemoveAt(armed[r], i) /\ Len(rest) = Len(armed[r]) - 1
    BY <2>1
  <2>3. Append(rest, "near") \in Seq({"near", "far"}) /\ Len(Append(rest, "near")) = Len(rest) + 1
    BY ArmedLonger
  <2>4. /\ armed' \in [ReservationIds -> Seq({"near", "far"})] /\ armed'[r] = Append(rest, "near") /\ timers'[r] = "live"
        /\ timers' \in [ReservationIds -> {"none", "live", "fired"}]
        /\ \A q \in ReservationIds \ {r} : armed'[q] = armed[q] /\ timers'[q] = timers[q]
    BY <1>0, <1>2, <2>2, <2>3
  <2>5. StoreTypes'
    BY <1>1, <2>4 DEF CommandInv, StoreTypes
  <2>6. Len(armed[r]) \in Nat /\ Len(armed[r]) > 0 /\ Len(armed'[r]) = Len(armed[r])
    BY <1>0, <1>2, <2>2, <2>3, <2>4
  <2>7. ExpiryKept'
    <3>. SUFFICES ASSUME ~crossed, NEW q \in ReservationIds PROVE ExpiryOf(q)'
      BY <1>2 DEF ExpiryKept
    <3>1. ExpiryOf(q)
      BY DEF CommandInv, ExpiryKept
    <3>2. CASE q = r
      <4>1. Len(armed[r]) = IF timers[r] = "live" THEN 1 ELSE 0
        BY <3>1, <3>2 DEF ExpiryOf
      <4>2. timers[r] = "live"
        BY <2>6, <4>1
      <4>3. Len(armed'[r]) = IF timers'[r] = "live" THEN 1 ELSE 0
        BY <2>4, <2>6, <4>1, <4>2
      <4>. QED
        BY <1>1, <1>2, <2>4, <3>1, <3>2, <4>2, <4>3 DEF ExpiryOf
    <3>3. CASE q # r
      <4>1. armed'[q] = armed[q] /\ timers'[q] = timers[q]
        BY <2>4, <3>3
      <4>. QED
        BY <1>1, <1>2, <3>1, <4>1 DEF ExpiryOf
    <3>. QED
      BY <3>2, <3>3
  <2>. QED
    BY <1>2, <2>5, <2>7, NobodyMoves DEF CommandInv
<1>3. ASSUME NEW i \in DOMAIN armed[r], job[j] = Idle, armed' = [armed EXCEPT ![r] = RemoveAt(@, i)],
             timers' = [timers EXCEPT ![r] = IF @ = "live" /\ i = Len(armed[r]) THEN "fired" ELSE @],
             job' = [job EXCEPT ![j] = [Idle EXCEPT !.op = "expire", !.at = "expire", !.r = r]],
             crossed' = (crossed \/ Meets(r))
      PROVE  CommandInv'
  <2>. DEFINE s == [Idle EXCEPT !.op = "expire", !.at = "expire", !.r = r]
  <2>1. s \in JobStates /\ s.op = "expire" /\ s.at = "expire" /\ s.r = r /\ s.todo = {}
    BY IdleJob DEF JobStates, Operations, Places
  <2>2. job' = [job EXCEPT ![j] = s]
    BY <1>3
  <2>. HIDE DEF s
  <2>3. OneMoves(j) /\ job'[j] = s /\ job[j].at = "idle" /\ job[j].r = None
    BY <1>0, <1>3, <2>1, <2>2, IdleJob, SetMoves
  <2>4. Shaped(s)
    BY <2>1, PlacesDiffer DEF Shaped
  <2>5. ~crossed' => ~crossed /\ \A k \in Jobs : job[k].r # r
    BY <1>3 DEF Meets
  <2>6. RemoveAt(armed[r], i) \in Seq({"near", "far"}) /\ Len(RemoveAt(armed[r], i)) = Len(armed[r]) - 1
    BY <1>0, RemovedShorter
  <2>7. /\ armed' \in [ReservationIds -> Seq({"near", "far"})] /\ Len(armed'[r]) = Len(armed[r]) - 1
        /\ \A q \in ReservationIds \ {r} : armed'[q] = armed[q] /\ timers'[q] = timers[q]
    BY <1>0, <1>3, <2>6
  <2>8. timers'[r] = IF timers[r] = "live" /\ i = Len(armed[r]) THEN "fired" ELSE timers[r]
    BY <1>0, <1>3
  <2>9. timers' \in [ReservationIds -> {"none", "live", "fired"}]
    BY <1>0, <1>3
  <2>10. StoreTypes'
    BY <1>1, <2>7, <2>9 DEF CommandInv, StoreTypes
  <2>11. ASSUME ~crossed', ExpiryOf(r) PROVE Len(armed'[r]) = 0 /\ timers'[r] # "live"
    <3>1. Len(armed[r]) = IF timers[r] = "live" THEN 1 ELSE 0
      BY <2>11 DEF ExpiryOf
    <3>2. i \in 1..Len(armed[r])
      BY <1>0
    <3>3. Len(armed[r]) = 1 /\ i = 1 /\ timers[r] = "live"
      BY <3>1, <3>2
    <3>. QED
      BY <2>7, <2>8, <3>3
  <2>12. ExpiryKept'
    <3>1. \A q \in ReservationIds \ {r} : job[j].r # q
      BY <2>3, NoneIsNothing
    <3>2. ~crossed' /\ ExpiryOf(r) =>
            /\ Len(armed'[r]) = IF timers'[r] = "live" THEN 1 ELSE 0
            /\ job'[j].r = r /\ job'[j].at \in Between /\ timers'[r] # "live"
      BY <2>1, <2>3, <2>11, PlacesDiffer
    <3>. QED
      BY <1>1, <2>1, <2>3, <2>5, <2>7, <3>1, <3>2, ExpiryMoves
  <2>. QED
    BY <2>1, <2>3, <2>4, <2>10, <2>12, PlacesDiffer, StoreSteps
<1>. QED
  BY <1>2, <1>3 DEF ExpiryFires

\* Disposal clears the timers and loops it has handles of; the rows stay.
LEMMA DisposeKeeps ==
    ASSUME CommandInv, Dispose
    PROVE  CommandInv'
<1>0. StoreTypes /\ RemoteTypes
  BY DEF CommandInv
<1>1. /\ UNCHANGED <<reservations, job, crossed, active, rowTx, sim, issued, stops, restopped>>
      /\ disposed' = TRUE /\ pendingStarts' = {} /\ timers' = [r \in ReservationIds |-> "none"]
      /\ armed' = [r \in ReservationIds |-> Cancelled(r)] /\ handle' = [c \in Connectors |-> FALSE]
      /\ loops' = [c \in Connectors |-> IF handle[c] THEN loops[c] - 1 ELSE loops[c]]
      /\ doubled' = (doubled \/ \E c \in Connectors : Starting(c) # {})
      /\ raced' = (raced \/ \E c \in Connectors : LoopComes(c))
  BY DEF Dispose, Keep
<1>2. StoreTypes'
  BY <1>0, <1>1, CancelledTyped DEF StoreTypes
<1>3. RemoteTypes'
  <2>1. loops' \in [Connectors -> Int]
    BY <1>0, <1>1 DEF RemoteTypes
  <2>. QED
    BY <1>0, <1>1, <2>1 DEF RemoteTypes
<1>4. JobTypes'
  BY <1>1 DEF CommandInv, JobTypes
<1>5. \A c \in Connectors : Starting(c)' = Starting(c)
  BY <1>1 DEF Starting
<1>6. StartsAlone'
  BY <1>1, <1>5 DEF StartsAlone
<1>7. StopsKnown'
  <2>1. /\ \A i \in Jobs : Ahead(i)' = Ahead(i)
        /\ \A tx \in issued : Stopping(tx)' = Stopping(tx)
    BY <1>1 DEF Ahead, Stopping
  <2>2. /\ UNCHANGED <<job, active, issued, stops, restopped>>
        /\ ~doubled' => ~doubled
    BY <1>1
  <2>3. \A i \in Jobs : job'[i].at = "stopping" => stops'[job'[i].tx] > 0
    BY <2>2 DEF CommandInv, StopsKnown
  <2>4. CASE doubled' \/ restopped'
    BY <2>3, <2>4 DEF StopsKnown
  <2>5. CASE ~doubled' /\ ~restopped'
    <3>1. ~doubled /\ ~restopped
      BY <2>2, <2>5
    <3>2. \A i \in Jobs : \A entry \in Ahead(i)' : active'[entry[1]] = entry[2]
      BY <2>1, <2>2, <3>1 DEF CommandInv, StopsKnown
    <3>3. \A i, k \in Jobs : \A d \in Ahead(i)' : \A e \in Ahead(k)' : d[1] = e[1] => i = k
      BY <2>1, <3>1 DEF CommandInv, StopsKnown
    <3>4. \A i \in Jobs : job'[i].at = "stop" => <<job'[i].c, job'[i].tx>> \notin job'[i].todo
      BY <2>2, <3>1 DEF CommandInv, StopsKnown
    <3>5. \A tx \in issued' :
            \/ \E c \in Connectors : active'[c] = tx
            \/ stops'[tx] > 0
            \/ Stopping(tx)' # {}
      BY <2>1, <2>2, <3>1 DEF CommandInv, StopsKnown
    <3>. QED
      BY <2>3, <3>2, <3>3, <3>4, <3>5 DEF StopsKnown
  <2>. QED
    BY <2>4, <2>5
<1>8. LoopsTied'
  <2>. SUFFICES ASSUME ~raced', ~doubled', ~restopped', NEW c \in Connectors
                PROVE  LoopHeld(c)' /\ \A i \in Jobs : LoopAwaited(i, c)'
    BY DEF LoopsTied
  <2>1. LoopHeld(c) /\ \A i \in Jobs : LoopAwaited(i, c)
    BY <1>1 DEF CommandInv, LoopsTied
  <2>2. loops'[c] = 0 /\ ~handle'[c]
    <3>1. loops'[c] = IF handle[c] THEN loops[c] - 1 ELSE loops[c]
      BY <1>1
    <3>2. loops[c] = IF handle[c] THEN 1 ELSE 0
      BY <2>1 DEF LoopHeld
    <3>3. handle[c] \in BOOLEAN
      BY <1>0 DEF RemoteTypes
    <3>. QED
      BY <1>1, <3>1, <3>2, <3>3
  <2>3. LoopHeld(c)'
    BY <1>1, <2>1, <2>2 DEF LoopHeld
  <2>4. \A i \in Jobs : LoopAwaited(i, c)'
    BY <1>1, <1>5, <2>1 DEF LoopAwaited
  <2>. QED
    BY <2>3, <2>4
<1>9. ExpiryKept'
  <2>. SUFFICES ASSUME ~crossed, NEW r \in ReservationIds PROVE ExpiryOf(r)'
    BY <1>1 DEF ExpiryKept
  <2>1. ExpiryOf(r)
    BY DEF CommandInv, ExpiryKept
  <2>2. Len(Cancelled(r)) = 0
    BY <1>0, <2>1, CancelledTyped DEF ExpiryOf
  <2>. QED
    BY <1>1, <2>1, <2>2 DEF ExpiryOf
<1>. QED
  BY <1>2, <1>3, <1>4, <1>6, <1>7, <1>8, <1>9 DEF CommandInv

-----------------------------------------------------------------------------
\* Every step of every handler keeps the invariant.
LEMMA CommandsStep == CommandInv /\ [RemoteNext]_commandVars => CommandInv'
<1>. SUFFICES ASSUME CommandInv, [RemoteNext]_commandVars PROVE CommandInv'
  OBVIOUS
<1>1. ASSUME NEW j \in Jobs, StartStep(j) PROVE CommandInv'
  BY <1>1, RemoteStartKeeps, RedeemedKeeps, StoredKeeps, StartStepsQuiet, StartAnsweredKeeps, SimulatesKeeps,
     StartLoopsKeeps, StartEndsKeeps DEF StartStep
<1>2. ASSUME NEW j \in Jobs, StopStep(j) PROVE CommandInv'
  BY <1>2, RemoteStopKeeps, RequestKeeps, RequestedKeeps, StopBeginsKeeps, StopSamplesKeeps, StopAnsweredKeeps,
     ResetKeeps, CancelsKeep, SnapshotsKeeps, IntervalKeeps, IntervalStopsKeeps, IntervalStartsKeeps,
     AvailabilityKeeps, ChangesKeep DEF StopStep
<1>3. ASSUME NEW j \in Jobs, ReservationStep(j), UNCHANGED remoteVars PROVE CommandInv'
  BY <1>3, ReserveKeeps, CancelKeeps, FiresKeeps, RemoveLooksKeeps, RemoveDeletesKeeps, StoresKeeps, CallbackKeeps,
     ExpiryLooksKeeps, ExpiryDeletesKeeps, RedeemLooksKeeps DEF ReservationStep
<1>4. CASE UNCHANGED commandVars
  <2>1. UNCHANGED <<job, remoteVars, reservations, timers, armed, disposed, crossed>>
    BY <1>4 DEF commandVars, reservationVars
  <2>2. StoreTypes' /\ ExpiryKept'
    BY <2>1 DEF CommandInv, StoreTypes, ExpiryKept, ExpiryOf
  <2>. QED
    BY <2>1, <2>2, NobodyMoves DEF CommandInv
<1>. QED
  BY <1>1, <1>2, <1>3, <1>4, DisposeKeeps, SessionKeeps DEF RemoteNext

\* The invariant holds in every behaviour.
LEMMA CommandsAlways == RemoteSpec => []CommandInv
BY CommandsStart, CommandsStep, PTL DEF RemoteSpec

\* A stored reservation has one timeout ahead, a removed one none, as long as no two
\* handlers met on it (scheduleExpiry, clearTimer).
THEOREM ExpiryOwned == RemoteSpec => []ExpiryIsOwned
<1>1. CommandInv => ExpiryIsOwned
  BY CommandsSuffice
<1>. QED
  BY <1>1, CommandsAlways, PTL

\* Of the starts that were accepted one at a time, no two reach StartTransaction on one
\* connector, and none calls it next to a transaction.
THEOREM StartsExclusive == RemoteSpec => []StartCallExclusive
<1>1. CommandInv => StartCallExclusive
  BY CommandsSuffice
<1>. QED
  BY <1>1, CommandsAlways, PTL

\* Unless starts or stops of one connector crossed, the station loses no transaction whose id it
\* was given (stopTransaction takes the entry of its connector).
THEOREM NothingForgotten == RemoteSpec => []NoForgottenTransaction
<1>1. CommandInv => NoForgottenTransaction
  BY CommandsSuffice
<1>. QED
  BY <1>1, CommandsAlways, PTL

\* Unless a stop or a new interval met a loop about to start, one meter value interval per
\* connector, whose handle is kept, and none after the transaction (startMeterValuesLoop).
THEOREM LoopsAreOwned == RemoteSpec => []LoopsOwned
<1>1. CommandInv => LoopsOwned
  BY CommandsSuffice
<1>. QED
  BY <1>1, CommandsAlways, PTL
=============================================================================
