---------------------------- MODULE PanelProofs -----------------------------
(***************************************************************************)
(* The panels of hardware and diagnostics, for any number of requests: a   *)
(* test and a session are not on at once, and what the page shows is what  *)
(* is stored, as long as no two requests met on a panel.                   *)
(*                                                                         *)
(* A request reads the registry, waits for the database and then writes    *)
(* the object it read. So the invariant says of each request which object  *)
(* it works on and what it has seen of it, and of every other object that  *)
(* nobody writes it.                                                       *)
(***************************************************************************)
EXTENDS PanelState, TLAPS

Requests ==
    [at : {"idle", "load", "plug", "have", "check", "save", "claim"}, p : Panels, o : Objects \cup {0},
     op : {"read", "output", "plug", "instance"}, on : BOOLEAN, saved : BOOLEAN]

PanelTypes ==
    /\ cache \in [Panels -> Objects \cup {0}] /\ shown \in [Objects -> [Groups -> BOOLEAN]]
    /\ plugLoaded \subseteq Objects /\ stored \in [Panels -> [Groups -> BOOLEAN]]
    /\ panelJob \in [PanelJobs -> Requests]
    /\ session \in {"none", "active", "hidden"} /\ collided \in BOOLEAN /\ interfered \in BOOLEAN

\* What a request does at its stage, whoever interferes.
RequestIsAt(r) ==
    /\ r.op = "output" => r.p = "hardware"
    /\ r.op = "read" => r.at \in {"idle", "claim", "load", "plug"}
    /\ r.at = "check" => r.op = "output"
    /\ r.at = "check" => r.on
    /\ r.at = "load" => r.o = 0
    /\ r.at \in {"plug", "have", "check", "save"} => r.o # 0

\* A request alone on its panel works on the object in the registry.
WorksOnCache(r) ==
    /\ r.at = "load" => cache[r.p] = 0
    /\ r.at \in {"plug", "have", "check", "save"} => cache[r.p] = r.o
    /\ r.at \in {"have", "check", "save"} /\ GroupOf(r.op) = "plug" => r.o \in plugLoaded
    /\ r.at = "check" => ~shown[r.o]["plug"]
    /\ r.at = "save" => r.saved = shown[r.o][GroupOf(r.op)]

\* A request that has changed a toggle of the group and not saved it.
Unsaved(r, p, g) ==
    r.at = "save" /\ r.p = p /\ GroupOf(r.op) = g /\ ~(p = "hardware" /\ r.op = "plug")

\* Request by request: the screen is what is stored, or about to be.
Undisturbed ==
    ~interfered =>
        /\ \A p \in Panels : \A i, j \in On(p) : i = j
        /\ cache["hardware"] # 0 => cache["hardware"] # cache["diagnostics"]
        /\ \A j \in PanelJobs : WorksOnCache(panelJob[j])
        /\ \A p \in Panels, g \in Groups :
             /\ cache[p] # 0 /\ (g = "plug" => cache[p] \in plugLoaded)
             /\ \A j \in PanelJobs : ~Unsaved(panelJob[j], p, g)
             => stored[p][g] = shown[cache[p]][g]

\* A test and a session: what is stored of a test is in sight of who asks, and while the output
\* runs there is no session and none on its way.
Apart ==
    ~collided /\ ~interfered =>
        /\ stored["hardware"]["plug"] => cache["hardware"] # 0 /\ cache["hardware"] \in plugLoaded
        /\ OutputRunning => session = "none" /\ \A j \in PanelJobs : panelJob[j].at # "claim"

PanelInv == PanelTypes /\ (\A j \in PanelJobs : RequestIsAt(panelJob[j])) /\ Undisturbed /\ Apart

\* 0 is no object: it stands for an empty cache.
LEMMA ObjectsAreThere == \A o \in Objects : o # 0
BY PanelAssumption DEF Objects

\* A request that has not begun holds nothing.
LEMMA IdleRequest == NoRequest \in Requests /\ NoRequest.at = "idle" /\ RequestIsAt(NoRequest) /\ WorksOnCache(NoRequest)
BY DEF NoRequest, Requests, Panels, RequestIsAt, WorksOnCache

\* No panel is loaded and no request runs at first.
LEMMA PanelStarts == PanelInit => PanelInv
<1>. SUFFICES ASSUME PanelInit PROVE PanelInv
  OBVIOUS
<1>1. PanelTypes
  BY DEF PanelInit, PanelTypes, Requests, NoRequest, Panels, Groups, Blank
<1>2. \A j \in PanelJobs : panelJob[j] = NoRequest
  BY DEF PanelInit
<1>3. \A j \in PanelJobs : RequestIsAt(panelJob[j])
  BY <1>2, IdleRequest
<1>4. Undisturbed
  BY <1>2 DEF PanelInit, Undisturbed, On, WorksOnCache, NoRequest, Panels
<1>5. Apart
  BY <1>2 DEF PanelInit, Apart, OutputRunning, NoRequest, Panels, Groups, Blank
<1>. QED
  BY <1>1, <1>3, <1>4, <1>5 DEF PanelInv

\* The invariant says what the two properties say.
LEMMA PanelSuffices == PanelInv => NoCollision /\ ShownIsStored
<1>. SUFFICES ASSUME PanelInv PROVE NoCollision /\ ShownIsStored
  OBVIOUS
<1>1. ShownIsStored
  <2>. SUFFICES ASSUME ~interfered, NEW p \in Panels, NEW g \in Groups, cache[p] # 0, On(p) = {},
                       g = "plug" => cache[p] \in plugLoaded
                PROVE  stored[p][g] = shown[cache[p]][g]
    BY DEF ShownIsStored
  <2>1. \A j \in PanelJobs : ~Unsaved(panelJob[j], p, g)
    BY DEF Unsaved, On
  <2>. QED
    BY <2>1 DEF PanelInv, Undisturbed
<1>2. NoCollision
  BY DEF NoCollision, PanelInv, Apart
<1>. QED
  BY <1>1, <1>2

\* A request begins with a panel: it finds the cached object, or has to load it.
LEMMA AccessKeeps ==
    ASSUME PanelInv, NEW j \in PanelJobs, NEW p \in Panels, NEW op \in {"read", "output", "plug", "instance"},
           NEW on \in BOOLEAN, PanelAccess(j, p, op, on), op = "output" => p = "hardware"
    PROVE  PanelInv'
<1>. DEFINE s == [NoRequest EXCEPT !.at = IF cache[p] = 0 THEN "load" ELSE "plug", !.p = p, !.o = cache[p],
                                     !.op = op, !.on = on]
<1>0. PanelTypes /\ panelJob[j].at = "idle"
  BY DEF PanelInv, PanelAccess
<1>1. panelJob' = [panelJob EXCEPT ![j] = s]
  BY DEF PanelAccess
<1>2. s \in Requests /\ s.p = p /\ s.o = cache[p] /\ s.op = op /\ s.on = on /\ s.at = IF cache[p] = 0 THEN "load" ELSE "plug"
  <2>1. cache[p] \in Objects \cup {0}
    BY <1>0 DEF PanelTypes
  <2>. QED
    BY <2>1, IdleRequest DEF Requests
<1>. HIDE DEF s
<1>3. panelJob' \in [PanelJobs -> Requests] /\ panelJob'[j] = s /\ \A i \in PanelJobs \ {j} : panelJob'[i] = panelJob[i]
  BY <1>0, <1>1, <1>2 DEF PanelTypes
<1>4. UNCHANGED <<cache, shown, plugLoaded, stored, session, collided>> /\ interfered' = (interfered \/ On(p) # {})
  BY DEF PanelAccess
<1>5. PanelTypes'
  BY <1>0, <1>3, <1>4 DEF PanelTypes
<1>6. \A i \in PanelJobs : RequestIsAt(panelJob[i])'
  BY <1>2, <1>3 DEF PanelInv, RequestIsAt
<1>7. Undisturbed'
  <2>. SUFFICES ASSUME ~interfered' PROVE Undisturbed'
    BY DEF Undisturbed
  <2>1. ~interfered /\ On(p) = {}
    BY <1>4
  <2>2. On(p)' = {j} /\ \A q \in Panels \ {p} : On(q)' = On(q)
    BY <1>0, <1>2, <1>3, <2>1 DEF On
  <2>3. \A i \in PanelJobs : WorksOnCache(panelJob[i])'
    BY <1>2, <1>3, <1>4, <2>1 DEF PanelInv, Undisturbed, WorksOnCache
  <2>4. \A q \in Panels, g \in Groups : (\A i \in PanelJobs : ~Unsaved(panelJob[i], q, g))' =>
           \A i \in PanelJobs : ~Unsaved(panelJob[i], q, g)
    BY <1>0, <1>3 DEF Unsaved
  <2>. QED
    BY <1>4, <2>1, <2>2, <2>3, <2>4 DEF PanelInv, Undisturbed
<1>8. Apart'
  <2>. SUFFICES ASSUME ~interfered', ~collided' PROVE Apart'
    BY DEF Apart
  <2>1. ~interfered /\ ~collided
    BY <1>4
  <2>2. OutputRunning' = OutputRunning
    BY <1>4 DEF OutputRunning
  <2>3. \A i \in PanelJobs : panelJob'[i].at = "claim" => panelJob[i].at = "claim"
    BY <1>0, <1>2, <1>3
  <2>. QED
    BY <1>4, <2>1, <2>2, <2>3 DEF PanelInv, Apart
<1>. QED
  BY <1>5, <1>6, <1>7, <1>8 DEF PanelInv

\* One request moves, and stays on its panel.
LEMMA JobMoves ==
    ASSUME PanelTypes, NEW j \in PanelJobs, NEW s \in Requests, panelJob' = [panelJob EXCEPT ![j] = s]
    PROVE  /\ panelJob' \in [PanelJobs -> Requests] /\ panelJob'[j] = s
           /\ \A i \in PanelJobs \ {j} : panelJob'[i] = panelJob[i]
           /\ s.at \notin {"idle", "claim"} /\ panelJob[j].at \notin {"idle", "claim"} /\ s.p = panelJob[j].p =>
                \A q \in Panels : On(q)' = On(q)
           /\ s.at \in {"idle", "claim"} => \A q \in Panels : On(q)' = On(q) \ {j}
<1>1. panelJob' \in [PanelJobs -> Requests] /\ panelJob'[j] = s /\ \A i \in PanelJobs \ {j} : panelJob'[i] = panelJob[i]
  BY DEF PanelTypes
<1>. QED
  BY <1>1 DEF On

\* A load is over: its object becomes the cached one, and its request goes on.
LEMMA PanelLoadsKeeps == ASSUME PanelInv, NEW j \in PanelJobs, PanelLoads(j) PROVE PanelInv'
<1>0. PanelTypes /\ panelJob[j].at = "load" /\ panelJob[j].o = 0
  BY DEF PanelInv, PanelLoads, RequestIsAt
<1>1. PICK o \in Objects :
        /\ \A i \in PanelJobs : panelJob[i].o # o
        /\ \A q \in Panels : cache[q] # o
        /\ shown' = [shown EXCEPT ![o] = [Blank EXCEPT !["instance"] = stored[panelJob[j].p]["instance"]]]
        /\ plugLoaded' = plugLoaded \ {o}
        /\ cache' = [cache EXCEPT ![panelJob[j].p] = o]
        /\ panelJob' = [panelJob EXCEPT ![j].at = "plug", ![j].o = o]
  BY DEF PanelLoads, Unheld
<1>. DEFINE s == [panelJob[j] EXCEPT !.at = "plug", !.o = o]
<1>2. PICK p \in Panels : p = panelJob[j].p
  BY <1>0 DEF PanelTypes, Requests
<1>3. s \in Requests /\ s.p = p /\ s.o = o /\ s.op = panelJob[j].op /\ s.on = panelJob[j].on /\ s.at = "plug"
  BY <1>0, <1>2 DEF PanelTypes, Requests
<1>4. panelJob' = [panelJob EXCEPT ![j] = s]
  BY <1>1
<1>. HIDE DEF s
<1>5. UNCHANGED <<stored, session, collided, interfered>>
  BY DEF PanelLoads
<1>6. /\ cache' \in [Panels -> Objects \cup {0}] /\ cache'[p] = o /\ \A q \in Panels \ {p} : cache'[q] = cache[q]
      /\ shown' \in [Objects -> [Groups -> BOOLEAN]] /\ shown'[o]["instance"] = stored[p]["instance"]
      /\ \A x \in Objects \ {o} : shown'[x] = shown[x]
      /\ plugLoaded' \subseteq Objects
  BY <1>0, <1>1, <1>2 DEF PanelTypes, Blank, Groups, Panels
<1>7. panelJob'[j] = s /\ \A i \in PanelJobs \ {j} : panelJob'[i] = panelJob[i]
  BY <1>0, <1>3, <1>4, JobMoves
<1>8. PanelTypes'
  BY <1>0, <1>3, <1>4, <1>5, <1>6, JobMoves DEF PanelTypes
<1>9. \A i \in PanelJobs : RequestIsAt(panelJob[i])'
  <2>1. RequestIsAt(panelJob[j])
    BY DEF PanelInv
  <2>2. RequestIsAt(s)
    BY <1>0, <1>2, <1>3, <2>1, ObjectsAreThere DEF RequestIsAt
  <2>. QED
    BY <1>7, <2>2 DEF PanelInv, RequestIsAt
<1>10. Undisturbed'
  <2>. SUFFICES ASSUME ~interfered' PROVE Undisturbed'
    BY DEF Undisturbed
  <2>1. ~interfered
    BY <1>5
  <2>2. \A q \in Panels : On(q)' = On(q) /\ \A i, k \in On(q) : i = k
    BY <1>0, <1>2, <1>3, <1>4, <2>1, JobMoves DEF PanelInv, Undisturbed
  <2>3. \A i \in PanelJobs : WorksOnCache(panelJob[i])'
    <3>1. WorksOnCache(panelJob[j])'
      BY <1>3, <1>6, <1>7 DEF WorksOnCache
    <3>2. ASSUME NEW i \in PanelJobs \ {j}, panelJob[i].at \notin {"idle", "claim"} PROVE WorksOnCache(panelJob[i])'
      <4>1. panelJob[i].p \in Panels \ {p} /\ panelJob[i].o # o /\ panelJob[i].o \in Objects \cup {0}
        BY <1>0, <1>1, <1>2, <2>2, <3>2 DEF PanelTypes, Requests, On
      <4>2. WorksOnCache(panelJob[i])
        BY <2>1 DEF PanelInv, Undisturbed
      <4>3. panelJob[i].at # "load" => panelJob[i].o # 0
        BY <3>2, <1>0 DEF PanelInv, RequestIsAt, PanelTypes, Requests
      <4>4. /\ panelJob'[i] = panelJob[i] /\ cache'[panelJob[i].p] = cache[panelJob[i].p] /\ stored' = stored
            /\ panelJob[i].at # "load" => shown'[panelJob[i].o] = shown[panelJob[i].o]
            /\ panelJob[i].o \in plugLoaded => panelJob[i].o \in plugLoaded'
        BY <1>1, <1>5, <1>6, <1>7, <4>1, <4>3
      <4>. QED
        BY <4>2, <4>4 DEF WorksOnCache
    <3>3. ASSUME NEW i \in PanelJobs \ {j}, panelJob[i].at \in {"idle", "claim"} PROVE WorksOnCache(panelJob[i])'
      BY <1>7, <3>3 DEF WorksOnCache
    <3>. QED
      BY <3>1, <3>2, <3>3
  <2>4. \A q \in Panels, g \in Groups : (\A i \in PanelJobs : ~Unsaved(panelJob[i], q, g))' =>
           \A i \in PanelJobs : ~Unsaved(panelJob[i], q, g)
    BY <1>0, <1>7 DEF Unsaved
  <2>5. cache'["hardware"] # 0 => cache'["hardware"] # cache'["diagnostics"]
    BY <1>0, <1>1, <1>6, <2>1 DEF PanelInv, Undisturbed, Panels, PanelTypes
  <2>6. ASSUME NEW q \in Panels, NEW g \in Groups, cache'[q] # 0, g = "plug" => cache'[q] \in plugLoaded',
               (\A i \in PanelJobs : ~Unsaved(panelJob[i], q, g))'
        PROVE  stored'[q][g] = shown'[cache'[q]][g]
    <3>1. CASE q = p
      BY <1>1, <1>5, <1>6, <2>6, <3>1 DEF Groups
    <3>2. CASE q # p
      <4>1. cache[q] # o /\ cache[q] \in Objects /\ cache'[q] = cache[q]
        BY <1>0, <1>1, <1>6, <2>6, <3>2 DEF PanelTypes
      <4>2. g = "plug" => cache[q] \in plugLoaded
        BY <1>1, <2>6, <4>1
      <4>. QED
        BY <1>5, <1>6, <2>1, <2>4, <2>6, <4>1, <4>2 DEF PanelInv, Undisturbed
    <3>. QED
      BY <3>1, <3>2
  <2>. QED
    BY <2>2, <2>3, <2>5, <2>6 DEF Undisturbed
<1>11. Apart'
  <2>. SUFFICES ASSUME ~interfered', ~collided' PROVE Apart'
    BY DEF Apart
  <2>1. ~interfered /\ ~collided
    BY <1>5
  <2>2. \A i \in PanelJobs : panelJob'[i].at = "claim" <=> panelJob[i].at = "claim"
    BY <1>0, <1>3, <1>7
  <2>3. (OutputRunning' => OutputRunning) /\
        (stored["hardware"]["plug"] => cache'["hardware"] # 0 /\ cache'["hardware"] \in plugLoaded')
    <3>1. CASE p = "hardware"
      <4>1. cache["hardware"] = 0
        <5>1. WorksOnCache(panelJob[j])
          BY <2>1 DEF PanelInv, Undisturbed
        <5>. QED
          BY <1>0, <1>2, <3>1, <5>1 DEF WorksOnCache
      <4>2. ~stored["hardware"]["plug"]
        BY <2>1, <4>1 DEF PanelInv, Apart
      <4>3. ~OutputRunning'
        BY <1>1, <1>6, <3>1 DEF OutputRunning
      <4>. QED
        BY <4>2, <4>3
    <3>2. CASE p # "hardware"
      <4>1. cache'["hardware"] = cache["hardware"] /\ cache["hardware"] # o /\ cache["hardware"] \in Objects \cup {0}
        BY <1>0, <1>1, <1>6, <3>2 DEF Panels, PanelTypes
      <4>. QED
        BY <1>1, <1>6, <2>1, <4>1 DEF OutputRunning, PanelInv, Apart
    <3>. QED
      BY <3>1, <3>2
  <2>. QED
    BY <1>5, <2>1, <2>2, <2>3 DEF PanelInv, Apart
<1>. QED
  BY <1>8, <1>9, <1>10, <1>11 DEF PanelInv

\* A request moves to a stage at which it has changed nothing, or is through.
LEMMA MoveKeeps ==
    ASSUME PanelInv, NEW j \in PanelJobs, NEW s \in Requests, panelJob' = [panelJob EXCEPT ![j] = s],
           RequestIsAt(s), ~interfered => WorksOnCache(s), panelJob[j].at \in {"plug", "have", "check"},
           \/ s = NoRequest
           \/ /\ s.p = panelJob[j].p /\ s.op = panelJob[j].op /\ s.on = panelJob[j].on
              /\ s.at \in {"have", "check"} \/ (s.at = "save" /\ s.p = "hardware" /\ s.op = "plug"),
           UNCHANGED <<cache, shown, plugLoaded, stored, session, collided, interfered>>
    PROVE  PanelInv'
<1>0. PanelTypes
  BY DEF PanelInv
<1>1. panelJob' \in [PanelJobs -> Requests] /\ panelJob'[j] = s /\ \A i \in PanelJobs \ {j} : panelJob'[i] = panelJob[i]
  BY <1>0, JobMoves
<1>2. PanelTypes'
  BY <1>0, <1>1 DEF PanelTypes
<1>3. \A i \in PanelJobs : RequestIsAt(panelJob[i])'
  BY <1>1 DEF PanelInv, RequestIsAt
<1>4. s.at \notin {"claim", "save"} \/ (s.at = "save" /\ s.p = "hardware" /\ s.op = "plug")
  BY IdleRequest
<1>5. Undisturbed'
  <2>. SUFFICES ASSUME ~interfered' PROVE Undisturbed'
    BY DEF Undisturbed
  <2>1. ~interfered
    OBVIOUS
  <2>2. \A q \in Panels : On(q)' \subseteq On(q)
    <3>1. CASE s = NoRequest
      <4>1. s.at \in {"idle", "claim"}
        BY <3>1, IdleRequest
      <4>2. \A q \in Panels : On(q)' = On(q) \ {j}
        BY <1>0, <4>1, JobMoves
      <4>. QED
        BY <4>2
    <3>2. CASE s # NoRequest
      BY <1>0, <3>2, JobMoves
    <3>. QED
      BY <3>1, <3>2
  <2>3. \A i \in PanelJobs : WorksOnCache(panelJob[i])
    BY <2>1 DEF PanelInv, Undisturbed
  <2>4. \A i \in PanelJobs : WorksOnCache(panelJob[i])'
    BY <1>1, <2>1, <2>3 DEF WorksOnCache
  <2>5. \A q \in Panels, g \in Groups : (\A i \in PanelJobs : ~Unsaved(panelJob[i], q, g))' =>
           \A i \in PanelJobs : ~Unsaved(panelJob[i], q, g)
    BY <1>1 DEF Unsaved
  <2>. QED
    BY <2>1, <2>2, <2>4, <2>5 DEF PanelInv, Undisturbed
<1>6. Apart'
  <2>1. OutputRunning' = OutputRunning
    BY DEF OutputRunning
  <2>2. \A i \in PanelJobs : panelJob'[i].at = "claim" => panelJob[i].at = "claim"
    BY <1>1, <1>4, IdleRequest
  <2>. QED
    BY <2>1, <2>2 DEF PanelInv, Apart
<1>. QED
  BY <1>2, <1>3, <1>5, <1>6 DEF PanelInv

\* A toggle is assigned: another than the test's, or the test's outside a session.
LEMMA AssignKeeps ==
    ASSUME PanelInv, NEW j \in PanelJobs, panelJob[j].at \in {"have", "check"}, Assign(j),
           \/ /\ panelJob[j].op = "output"
              /\ ~interfered /\ ~collided' /\ panelJob[j].on =>
                    \/ OutputRunning
                    \/ session = "none" /\ \A i \in PanelJobs : panelJob[i].at # "claim"
           \/ panelJob[j].op # "output" /\ ~(panelJob[j].p = "hardware" /\ panelJob[j].op = "plug"),
           collided' \in BOOLEAN, collided => collided',
           UNCHANGED <<cache, plugLoaded, stored, session, interfered>>
    PROVE  PanelInv'
<1>0. PanelTypes
  BY DEF PanelInv
<1>1. PICK r \in Requests : r = panelJob[j]
  BY <1>0 DEF PanelTypes
<1>2. PICK s \in Requests :
        /\ s.at = "save" /\ s.p = r.p /\ s.o = r.o /\ s.op = r.op /\ s.on = r.on /\ s.saved = r.on
        /\ panelJob' = [panelJob EXCEPT ![j] = s]
  <2>. DEFINE t == [r EXCEPT !.at = "save", !.saved = r.on]
  <2>1. t \in Requests /\ t.at = "save" /\ t.p = r.p /\ t.o = r.o /\ t.op = r.op /\ t.on = r.on /\ t.saved = r.on
    BY DEF Requests
  <2>2. panelJob' = [panelJob EXCEPT ![j] = t]
    BY <1>1 DEF Assign
  <2>. HIDE DEF t
  <2>. QED
    BY <2>1, <2>2
<1>3. PICK g \in Groups : g = GroupOf(r.op)
  BY DEF Groups, GroupOf
<1>4. r.o \in Objects /\ r.op \in {"output", "plug", "instance"} /\ r.at \in {"have", "check"} /\ RequestIsAt(r) /\ r.p \in Panels /\ r.on \in BOOLEAN
  BY <1>1 DEF PanelInv, RequestIsAt, Requests
<1>5. /\ shown' \in [Objects -> [Groups -> BOOLEAN]] /\ shown'[r.o][g] = r.on
      /\ \A x \in Objects, h \in Groups : (x # r.o \/ h # g) => shown'[x][h] = shown[x][h]
  <2>1. shown' = [shown EXCEPT ![r.o] = [shown[r.o] EXCEPT ![g] = r.on]]
    BY <1>1, <1>3 DEF Assign
  <2>. QED
    BY <1>0, <1>4, <2>1 DEF PanelTypes
<1>6. panelJob' \in [PanelJobs -> Requests] /\ panelJob'[j] = s /\ \A i \in PanelJobs \ {j} : panelJob'[i] = panelJob[i]
  BY <1>0, <1>2, JobMoves
<1>7. PanelTypes'
  BY <1>0, <1>5, <1>6 DEF PanelTypes
<1>8. \A i \in PanelJobs : RequestIsAt(panelJob[i])'
  <2>1. RequestIsAt(s)
    BY <1>2, <1>4 DEF RequestIsAt
  <2>. QED
    BY <1>6, <2>1 DEF PanelInv, RequestIsAt
<1>9. Undisturbed'
  <2>. SUFFICES ASSUME ~interfered' PROVE Undisturbed'
    BY DEF Undisturbed
  <2>1. ~interfered
    OBVIOUS
  <2>2. \A q \in Panels : On(q)' = On(q) /\ \A i, k \in On(q) : i = k
    BY <1>0, <1>1, <1>2, <1>4, <2>1, JobMoves DEF PanelInv, Undisturbed
  <2>3. WorksOnCache(r) /\ \A i \in PanelJobs : WorksOnCache(panelJob[i])
    BY <1>1, <2>1 DEF PanelInv, Undisturbed
  <2>4. cache[r.p] = r.o /\ (g = "plug" => r.o \in plugLoaded)
    BY <1>3, <1>4, <2>3 DEF WorksOnCache
  <2>5. \A q \in Panels \ {r.p} : cache[q] # r.o
    BY <1>4, <2>1, <2>4, ObjectsAreThere DEF PanelInv, Undisturbed, Panels
  <2>6a. WorksOnCache(s)'
    BY <1>2, <1>3, <1>4, <1>5, <2>4 DEF WorksOnCache
  <2>7. ASSUME NEW i \in PanelJobs \ {j} PROVE WorksOnCache(panelJob[i])'
    <3>1. CASE panelJob[i].at \in {"idle", "claim", "load"}
      BY <1>6, <2>3, <3>1 DEF WorksOnCache
    <3>2. CASE panelJob[i].at \notin {"idle", "claim", "load"}
      <4>1. panelJob[i].p \in Panels \ {r.p} /\ panelJob[i] \in Requests
        BY <1>0, <1>1, <1>4, <2>2, <3>2 DEF PanelTypes, Requests, On
      <4>2. panelJob[i].at \in {"plug", "have", "check", "save"}
        BY <3>2, <4>1 DEF Requests
      <4>3. cache[panelJob[i].p] = panelJob[i].o /\ panelJob[i].o # 0
        BY <2>3, <4>2 DEF WorksOnCache, PanelInv, RequestIsAt
      <4>4. panelJob[i].o \in Objects /\ panelJob[i].o # r.o
        BY <2>5, <4>1, <4>3 DEF Requests
      <4>5. \A h \in Groups : shown'[panelJob[i].o][h] = shown[panelJob[i].o][h]
        BY <1>5, <4>4
      <4>6. GroupOf(panelJob[i].op) \in Groups /\ "plug" \in Groups
        BY DEF GroupOf, Groups
      <4>. QED
        BY <1>6, <2>3, <4>5, <4>6 DEF WorksOnCache
    <3>. QED
      BY <3>1, <3>2
  <2>8. ASSUME NEW q \in Panels, NEW h \in Groups, cache'[q] # 0, h = "plug" => cache'[q] \in plugLoaded',
               (\A i \in PanelJobs : ~Unsaved(panelJob[i], q, h))'
        PROVE  stored'[q][h] = shown'[cache'[q]][h]
    <3>1. ~Unsaved(s, q, h)
      BY <1>6, <2>8 DEF Unsaved
    <3>2. ~(q = r.p /\ h = g)
      BY <1>1, <1>2, <1>3, <1>4, <3>1 DEF Unsaved, RequestIsAt
    <3>3. \A i \in PanelJobs : ~Unsaved(panelJob[i], q, h)
      BY <1>1, <1>4, <1>6, <2>8 DEF Unsaved
    <3>4. stored[q][h] = shown[cache[q]][h] /\ cache[q] \in Objects
      BY <1>0, <2>1, <2>8, <3>3 DEF PanelInv, Undisturbed, PanelTypes
    <3>5. cache[q] # r.o \/ h # g
      BY <2>5, <3>2
    <3>. QED
      BY <1>5, <3>4, <3>5
  <2>9. \A i \in PanelJobs : WorksOnCache(panelJob[i])'
    BY <1>6, <2>6a, <2>7 DEF WorksOnCache
  <2>. QED
    BY <2>1, <2>2, <2>8, <2>9 DEF PanelInv, Undisturbed
<1>10. Apart'
  <2>. SUFFICES ASSUME ~interfered', ~collided' PROVE Apart'
    BY DEF Apart
  <2>1. ~interfered /\ ~collided
    OBVIOUS
  <2>2. WorksOnCache(r)
    BY <1>1, <2>1 DEF PanelInv, Undisturbed
  <2>3. cache[r.p] = r.o /\ (g = "plug" => r.o \in plugLoaded)
    BY <1>3, <1>4, <2>2 DEF WorksOnCache
  <2>4. \A i \in PanelJobs : panelJob'[i].at = "claim" <=> panelJob[i].at = "claim"
    BY <1>1, <1>2, <1>4, <1>6
  <2>5. CASE r.op # "output"
    <3>1. OutputRunning' = OutputRunning
      <4>1. cache["hardware"] \in Objects => shown'[cache["hardware"]]["plug"] = shown[cache["hardware"]]["plug"]
        <5>1. CASE r.p = "hardware"
          BY <1>1, <1>3, <1>4, <1>5, <2>5, <5>1 DEF GroupOf, Groups
        <5>2. CASE r.p = "diagnostics"
          BY <1>3, <1>4, <1>5, <2>1, <2>3, <5>2, ObjectsAreThere DEF PanelInv, Undisturbed, Groups
        <5>. QED
          BY <1>4, <5>1, <5>2 DEF Panels
      <4>2. cache["hardware"] \in Objects \cup {0}
        BY <1>0 DEF PanelTypes, Panels
      <4>. QED
        BY <4>1, <4>2 DEF OutputRunning
    <3>. QED
      BY <2>1, <2>4, <3>1 DEF PanelInv, Apart
  <2>6. CASE r.op = "output"
    <3>1. r.p = "hardware" /\ g = "plug"
      BY <1>3, <1>4, <2>6 DEF RequestIsAt, GroupOf
    <3>2. OutputRunning' => r.on
      BY <1>4, <1>5, <2>3, <3>1 DEF OutputRunning
    <3>. QED
      BY <1>1, <2>1, <2>4, <2>6, <3>2 DEF PanelInv, Apart
  <2>. QED
    BY <2>5, <2>6
<1>. QED
  BY <1>7, <1>8, <1>9, <1>10 DEF PanelInv

\* The row of the plug is read into an object that lacks it.
LEMMA PlugLoadsKeeps == ASSUME PanelInv, NEW j \in PanelJobs, PlugLoads(j) PROVE PanelInv'
<1>0. PanelTypes
  BY DEF PanelInv
<1>1. PICK r \in Requests : r = panelJob[j]
  BY <1>0 DEF PanelTypes
<1>2. r.at = "plug" /\ r.o \in Objects /\ r.p \in Panels /\ RequestIsAt(r)
  BY <1>1 DEF PlugLoads, PanelInv, RequestIsAt, Requests
<1>3. PICK s \in Requests :
        /\ panelJob' = [panelJob EXCEPT ![j] = s]
        /\ \/ s = NoRequest
           \/ s.p = r.p /\ s.o = r.o /\ s.op = r.op /\ s.on = r.on /\ s.at = "have" /\ r.op # "read"
  <2>1. CASE r.op = "read"
    BY <1>1, <2>1, IdleRequest DEF PlugLoads
  <2>2. CASE r.op # "read"
    <3>. DEFINE t == [r EXCEPT !.at = "have"]
    <3>1. t \in Requests /\ t.at = "have" /\ t.p = r.p /\ t.o = r.o /\ t.op = r.op /\ t.on = r.on
      BY DEF Requests
    <3>2. panelJob' = [panelJob EXCEPT ![j] = t]
      BY <1>1, <2>2 DEF PlugLoads
    <3>. HIDE DEF t
    <3>. QED
      BY <2>2, <3>1, <3>2
  <2>. QED
    BY <2>1, <2>2
<1>4. UNCHANGED <<cache, stored, session, collided, interfered>>
  BY DEF PlugLoads
<1>5. RequestIsAt(s)
  BY <1>2, <1>3, IdleRequest DEF RequestIsAt
<1>6. CASE UNCHANGED <<shown, plugLoaded>>
               /\ (r.o \in plugLoaded \/ (r.p = "diagnostics" /\ GroupOf(r.op) = "instance"))
  <2>1. ~interfered => WorksOnCache(s)
    <3>1. CASE s = NoRequest
      BY <3>1, IdleRequest
    <3>2. CASE s # NoRequest
      <4>1. ~interfered => WorksOnCache(r)
        BY <1>1 DEF PanelInv, Undisturbed
      <4>2. GroupOf(s.op) = "plug" => s.o \in plugLoaded
        BY <1>3, <1>6, <3>2 DEF GroupOf
      <4>. QED
        BY <1>2, <1>3, <3>2, <4>1, <4>2 DEF WorksOnCache
    <3>. QED
      BY <3>1, <3>2
  <2>2. panelJob[j].at \in {"plug", "have", "check"}
    BY <1>1, <1>2
  <2>. QED
    BY <1>1, <1>3, <1>4, <1>5, <1>6, <2>1, <2>2, MoveKeeps
<1>7. CASE /\ r.o \notin plugLoaded /\ plugLoaded' = plugLoaded \cup {r.o}
           /\ shown' = [shown EXCEPT ![r.o]["plug"] = stored[r.p]["plug"]]
  <2>1. /\ shown' \in [Objects -> [Groups -> BOOLEAN]] /\ shown'[r.o]["plug"] = stored[r.p]["plug"]
        /\ \A x \in Objects, h \in Groups : (x # r.o \/ h # "plug") => shown'[x][h] = shown[x][h]
    <3>1. shown' = [shown EXCEPT ![r.o] = [shown[r.o] EXCEPT !["plug"] = stored[r.p]["plug"]]]
      BY <1>7
    <3>. QED
      BY <1>0, <1>2, <3>1 DEF PanelTypes, Groups
  <2>2. panelJob' \in [PanelJobs -> Requests] /\ panelJob'[j] = s /\ \A i \in PanelJobs \ {j} : panelJob'[i] = panelJob[i]
    BY <1>0, <1>3, JobMoves
  <2>3. PanelTypes'
    BY <1>0, <1>2, <1>4, <1>7, <2>1, <2>2 DEF PanelTypes
  <2>4. \A i \in PanelJobs : RequestIsAt(panelJob[i])'
    BY <1>5, <2>2 DEF PanelInv, RequestIsAt
  <2>5. s.at \in {"idle", "have"} /\ (s.at = "have" => s.p = r.p /\ s.o = r.o /\ s.op = r.op /\ s.on = r.on)
    BY <1>3, IdleRequest
  <2>6. ASSUME ~interfered
        PROVE  /\ cache[r.p] = r.o /\ \A q \in Panels \ {r.p} : cache[q] # r.o
               /\ \A q \in Panels : \A i, k \in On(q) : i = k
               /\ \A i \in PanelJobs : WorksOnCache(panelJob[i])
    <3>1. cache[r.p] = r.o
      <4>1. WorksOnCache(r)
        BY <1>1, <2>6 DEF PanelInv, Undisturbed
      <4>. QED
        BY <1>2, <4>1 DEF WorksOnCache
    <3>. QED
      BY <1>2, <2>6, <3>1, ObjectsAreThere DEF PanelInv, Undisturbed, Panels
  <2>7. Undisturbed'
    <3>. SUFFICES ASSUME ~interfered' PROVE Undisturbed'
      BY DEF Undisturbed
    <3>1. ~interfered
      BY <1>4
    <3>2. \A q \in Panels : On(q)' \subseteq On(q)
      <4>1. CASE s.at = "idle"
        <5>1. \A q \in Panels : On(q)' = On(q) \ {j}
          BY <1>0, <1>3, <4>1, JobMoves
        <5>. QED
          BY <5>1
      <4>2. CASE s.at = "have"
        BY <1>0, <1>1, <1>2, <1>3, <2>5, <4>2, JobMoves
      <4>. QED
        BY <2>5, <4>1, <4>2
    <3>3. WorksOnCache(s)'
      BY <1>2, <1>4, <1>7, <2>5, <2>6, <3>1 DEF WorksOnCache
    <3>4. ASSUME NEW i \in PanelJobs \ {j} PROVE WorksOnCache(panelJob[i])'
      <4>1. CASE panelJob[i].at \in {"idle", "claim", "load"}
        BY <1>4, <2>2, <2>6, <3>1, <4>1 DEF WorksOnCache
      <4>2. CASE panelJob[i].at \notin {"idle", "claim", "load"}
        <5>1. panelJob[i].p \in Panels \ {r.p} /\ panelJob[i] \in Requests
          BY <1>0, <1>1, <1>2, <2>6, <3>1, <4>2 DEF PanelTypes, Requests, On
        <5>2. panelJob[i].at \in {"plug", "have", "check", "save"}
          BY <4>2, <5>1 DEF Requests
        <5>3. cache[panelJob[i].p] = panelJob[i].o /\ panelJob[i].o # 0
          BY <2>6, <3>1, <5>2 DEF WorksOnCache, PanelInv, RequestIsAt
        <5>4. panelJob[i].o \in Objects /\ panelJob[i].o # r.o
          BY <2>6, <3>1, <5>1, <5>3 DEF Requests
        <5>5. \A h \in Groups : shown'[panelJob[i].o][h] = shown[panelJob[i].o][h]
          BY <2>1, <5>4
        <5>6. GroupOf(panelJob[i].op) \in Groups /\ "plug" \in Groups
          BY DEF GroupOf, Groups
        <5>. QED
          BY <1>4, <1>7, <2>2, <2>6, <3>1, <5>5, <5>6 DEF WorksOnCache
      <4>. QED
        BY <4>1, <4>2
    <3>5. ASSUME NEW q \in Panels, NEW h \in Groups, cache'[q] # 0, h = "plug" => cache'[q] \in plugLoaded',
                 (\A i \in PanelJobs : ~Unsaved(panelJob[i], q, h))'
          PROVE  stored'[q][h] = shown'[cache'[q]][h]
      <4>1. CASE q = r.p /\ h = "plug"
        BY <1>4, <2>1, <2>6, <3>1, <4>1
      <4>2. CASE ~(q = r.p /\ h = "plug")
        <5>1. \A i \in PanelJobs : ~Unsaved(panelJob[i], q, h)
          BY <1>1, <1>2, <2>2, <3>5 DEF Unsaved
        <5>2. cache[q] \in Objects /\ (cache[q] # r.o \/ h # "plug")
          BY <1>0, <1>4, <2>6, <3>1, <3>5, <4>2 DEF PanelTypes
        <5>3. h = "plug" => cache[q] \in plugLoaded
          BY <1>4, <1>7, <3>5, <5>2
        <5>4. stored[q][h] = shown[cache[q]][h]
          BY <1>4, <3>1, <3>5, <5>1, <5>3 DEF PanelInv, Undisturbed
        <5>. QED
          BY <1>4, <2>1, <5>2, <5>4
      <4>. QED
        BY <4>1, <4>2
    <3>6. \A i \in PanelJobs : WorksOnCache(panelJob[i])'
      BY <2>2, <3>3, <3>4 DEF WorksOnCache
    <3>. QED
      BY <1>4, <2>6, <3>1, <3>2, <3>5, <3>6 DEF PanelInv, Undisturbed
  <2>8. Apart'
    <3>. SUFFICES ASSUME ~interfered', ~collided' PROVE Apart'
      BY DEF Apart
    <3>1. ~interfered /\ ~collided
      BY <1>4
    <3>2. \A i \in PanelJobs : panelJob'[i].at = "claim" <=> panelJob[i].at = "claim"
      BY <1>1, <1>2, <2>2, <2>5
    <3>3. OutputRunning' => OutputRunning
      <4>1. CASE r.p = "hardware"
        <5>1. cache["hardware"] = r.o
          BY <2>6, <3>1, <4>1
        <5>2. ~stored["hardware"]["plug"]
          BY <1>7, <3>1, <5>1 DEF PanelInv, Apart
        <5>. QED
          BY <1>4, <2>1, <4>1, <5>1, <5>2 DEF OutputRunning
      <4>2. CASE r.p = "diagnostics"
        <5>1. cache["hardware"] # r.o /\ cache["hardware"] \in Objects \cup {0} /\ "plug" \in Groups
          BY <1>0, <2>6, <3>1, <4>2 DEF Panels, PanelTypes, Groups
        <5>. QED
          BY <1>4, <1>7, <2>1, <5>1 DEF OutputRunning
      <4>. QED
        BY <1>2, <4>1, <4>2 DEF Panels
    <3>4. cache'["hardware"] = cache["hardware"] /\ plugLoaded \subseteq plugLoaded'
      BY <1>4, <1>7
    <3>. QED
      BY <1>4, <3>1, <3>2, <3>3, <3>4 DEF PanelInv, Apart
  <2>. QED
    BY <2>3, <2>4, <2>7, <2>8 DEF PanelInv
<1>. QED
  BY <1>1, <1>6, <1>7 DEF PlugLoads

\* An output test decides from the object it holds.
LEMMA TestDecidesKeeps == ASSUME PanelInv, NEW j \in PanelJobs, TestDecides(j) PROVE PanelInv'
<1>0. PanelTypes
  BY DEF PanelInv
<1>1. PICK r \in Requests : r = panelJob[j]
  BY <1>0 DEF PanelTypes
<1>2. /\ r.at = "have" /\ r.op = "output" /\ r.p = "hardware" /\ r.o \in Objects
      /\ UNCHANGED <<cache, plugLoaded, stored, session, collided, interfered>>
  BY <1>1 DEF TestDecides, PanelInv, RequestIsAt, Requests
<1>3. ~interfered => WorksOnCache(r)
  BY <1>1 DEF PanelInv, Undisturbed
<1>4. CASE r.on /\ ~shown[r.o]["plug"]
  <2>. DEFINE s == [r EXCEPT !.at = "check"]
  <2>1. s \in Requests /\ s.at = "check" /\ s.p = r.p /\ s.o = r.o /\ s.op = r.op /\ s.on = r.on
    BY DEF Requests
  <2>2. panelJob' = [panelJob EXCEPT ![j] = s] /\ shown' = shown
    BY <1>1, <1>4 DEF TestDecides
  <2>. HIDE DEF s
  <2>5. s.on = TRUE
    BY <1>4, <2>1, Zenon DEF Requests
  <2>3. RequestIsAt(s)
    BY <1>2, <2>1, <2>5, ObjectsAreThere DEF RequestIsAt
  <2>4. ~interfered => WorksOnCache(s)
    BY <1>2, <1>3, <1>4, <2>1 DEF WorksOnCache
  <2>. QED
    BY <1>1, <1>2, <2>1, <2>2, <2>3, <2>4, MoveKeeps
<1>5. CASE ~(r.on /\ ~shown[r.o]["plug"])
  <2>1. Assign(j)
    BY <1>1, <1>5 DEF TestDecides
  <2>2. ~interfered /\ ~collided /\ r.on => OutputRunning
    <3>. SUFFICES ASSUME ~interfered, ~collided, r.on PROVE OutputRunning
      OBVIOUS
    <3>1. cache["hardware"] = r.o /\ r.o \in plugLoaded /\ r.o # 0
      BY <1>2, <1>3, ObjectsAreThere DEF WorksOnCache, GroupOf
    <3>. QED
      BY <1>5, <3>1 DEF OutputRunning
  <2>3. collided' \in BOOLEAN
    BY <1>0, <1>2 DEF PanelTypes
  <2>. QED
    BY <1>1, <1>2, <2>1, <2>2, <2>3, AssignKeeps
<1>. QED
  BY <1>4, <1>5

\* An output test has asked for a charging session.
LEMMA TestChecksKeeps == ASSUME PanelInv, NEW j \in PanelJobs, TestChecks(j) PROVE PanelInv'
<1>0. PanelTypes
  BY DEF PanelInv
<1>1. /\ panelJob[j].at = "check" /\ panelJob[j].op = "output"
      /\ UNCHANGED <<cache, plugLoaded, stored, session, interfered>>
  BY DEF TestChecks, PanelInv, RequestIsAt
<1>2. CASE panelJob' = [panelJob EXCEPT ![j] = NoRequest] /\ UNCHANGED <<shown, collided>>
  BY <1>1, <1>2, IdleRequest, MoveKeeps
<1>3. CASE /\ session # "active" /\ Assign(j)
           /\ collided' = (collided \/ session = "hidden" \/ \E i \in PanelJobs : panelJob[i].at = "claim")
  <2>1. collided' \in BOOLEAN /\ (collided => collided')
    BY <1>3, Zenon
  <2>2. ~collided' => session # "hidden" /\ \A i \in PanelJobs : panelJob[i].at # "claim"
    BY <1>3, Zenon
  <2>3. ~collided' => session = "none"
    BY <1>0, <1>3, <2>2 DEF PanelTypes
  <2>. QED
    BY <1>1, <1>3, <2>1, <2>2, <2>3, AssignKeeps
<1>. QED
  BY <1>2, <1>3 DEF TestChecks

\* A toggle is set in the object, which is then saved.
LEMMA ToggleAssignedKeeps == ASSUME PanelInv, NEW j \in PanelJobs, ToggleAssigned(j) PROVE PanelInv'
<1>0. PanelTypes
  BY DEF PanelInv
<1>1. PICK r \in Requests : r = panelJob[j]
  BY <1>0 DEF PanelTypes
<1>2. /\ r.at = "have" /\ r.op # "output" /\ r.o \in Objects /\ RequestIsAt(r)
      /\ UNCHANGED <<cache, plugLoaded, stored, session, collided, interfered>>
  BY <1>1 DEF ToggleAssigned, PanelInv, RequestIsAt, Requests
<1>3. CASE r.p = "hardware" /\ r.op = "plug"
  <2>. DEFINE s == [r EXCEPT !.at = "save", !.saved = shown[r.o]["plug"]]
  <2>0. shown[r.o]["plug"] \in BOOLEAN
    BY <1>0, <1>2 DEF PanelTypes, Groups
  <2>1. /\ s \in Requests /\ s.at = "save" /\ s.p = r.p /\ s.o = r.o /\ s.op = r.op /\ s.on = r.on
        /\ s.saved = shown[r.o]["plug"]
    BY <2>0 DEF Requests
  <2>2. panelJob' = [panelJob EXCEPT ![j] = s] /\ shown' = shown
    BY <1>1, <1>3 DEF ToggleAssigned
  <2>. HIDE DEF s
  <2>3. RequestIsAt(s)
    BY <1>2, <1>3, <2>1 DEF RequestIsAt
  <2>4. ~interfered => WorksOnCache(r)
    BY <1>1 DEF PanelInv, Undisturbed
  <2>5. ~interfered => WorksOnCache(s)
    BY <1>2, <1>3, <2>1, <2>4 DEF WorksOnCache, GroupOf
  <2>. QED
    BY <1>1, <1>2, <1>3, <2>1, <2>2, <2>3, <2>5, MoveKeeps
<1>4. CASE ~(r.p = "hardware" /\ r.op = "plug")
  <2>1. Assign(j) /\ collided' \in BOOLEAN
    BY <1>0, <1>1, <1>2, <1>4 DEF ToggleAssigned, PanelTypes
  <2>. QED
    BY <1>1, <1>2, <1>4, <2>1, AssignKeeps
<1>. QED
  BY <1>3, <1>4

\* A toggle that is refused changes nothing, or is counted as interfering.
LEMMA ToggleRefusedKeeps == ASSUME PanelInv, NEW j \in PanelJobs, ToggleRefused(j) PROVE PanelInv'
<1>0. PanelTypes
  BY DEF PanelInv
<1>1. /\ panelJob[j].at = "have" /\ panelJob' = [panelJob EXCEPT ![j] = NoRequest]
      /\ UNCHANGED <<cache, plugLoaded, stored, session, collided>>
  BY DEF ToggleRefused
<1>2. CASE UNCHANGED <<shown, interfered>>
  BY <1>1, <1>2, IdleRequest, MoveKeeps
<1>3. CASE shown' = [shown EXCEPT ![panelJob[j].o]["instance"] = panelJob[j].on] /\ interfered' = TRUE
  <2>1. panelJob' \in [PanelJobs -> Requests] /\ panelJob'[j] = NoRequest /\ \A i \in PanelJobs \ {j} : panelJob'[i] = panelJob[i]
    BY <1>0, <1>1, IdleRequest, JobMoves
  <2>2. panelJob[j].o \in Objects /\ panelJob[j].on \in BOOLEAN
    BY <1>0, <1>1 DEF PanelTypes, Requests, PanelInv, RequestIsAt
  <2>3. shown' \in [Objects -> [Groups -> BOOLEAN]]
    <3>1. shown' = [shown EXCEPT ![panelJob[j].o] = [shown[panelJob[j].o] EXCEPT !["instance"] = panelJob[j].on]]
      BY <1>3
    <3>. QED
      BY <1>0, <2>2, <3>1 DEF PanelTypes, Groups
  <2>4. PanelTypes'
    BY <1>0, <1>1, <1>3, <2>1, <2>3 DEF PanelTypes
  <2>5. \A i \in PanelJobs : RequestIsAt(panelJob[i])'
    BY <2>1, IdleRequest DEF PanelInv, RequestIsAt
  <2>. QED
    BY <1>3, <2>4, <2>5 DEF PanelInv, Undisturbed, Apart
<1>. QED
  BY <1>2, <1>3 DEF ToggleRefused

\* A save is over: the row is as the object, or the save failed and was logged.
LEMMA PanelSavedKeeps == ASSUME PanelInv, NEW j \in PanelJobs, PanelSaved(j) PROVE PanelInv'
<1>0. PanelTypes
  BY DEF PanelInv
<1>1. PICK r \in Requests : r = panelJob[j]
  BY <1>0 DEF PanelTypes
<1>2. r.at = "save" /\ r.o \in Objects /\ RequestIsAt(r) /\ r.p \in Panels /\ r.saved \in BOOLEAN /\ r.on \in BOOLEAN
  BY <1>1 DEF PanelSaved, PanelInv, RequestIsAt, Requests
<1>3. UNCHANGED <<cache, shown, plugLoaded, session, collided>>
  BY DEF PanelSaved
<1>4. PICK s \in Requests : s = NoRequest /\ panelJob' = [panelJob EXCEPT ![j] = s]
  BY <1>1, IdleRequest DEF PanelSaved
<1>5. panelJob' \in [PanelJobs -> Requests] /\ panelJob'[j] = s /\ \A i \in PanelJobs \ {j} : panelJob'[i] = panelJob[i]
  BY <1>0, <1>4, JobMoves
<1>6. \A i \in PanelJobs : RequestIsAt(panelJob[i])'
  BY <1>4, <1>5, IdleRequest DEF PanelInv, RequestIsAt
<1>7. PICK g \in Groups : g = GroupOf(r.op)
  BY DEF Groups, GroupOf
<1>8. CASE stored' = [stored EXCEPT ![r.p][g] = r.saved] /\ interfered' = interfered
  <2>1. /\ stored' \in [Panels -> [Groups -> BOOLEAN]] /\ stored'[r.p][g] = r.saved
        /\ \A q \in Panels, h \in Groups : (q # r.p \/ h # g) => stored'[q][h] = stored[q][h]
    <3>1. stored' = [stored EXCEPT ![r.p] = [stored[r.p] EXCEPT ![g] = r.saved]]
      BY <1>8
    <3>. QED
      BY <1>0, <1>2, <3>1 DEF PanelTypes
  <2>2. PanelTypes'
    BY <1>0, <1>3, <1>5, <1>8, <2>1 DEF PanelTypes
  <2>3. s.at = "idle"
    BY <1>4, IdleRequest
  <2>4. ASSUME ~interfered
        PROVE  /\ \A q \in Panels : \A i, k \in On(q) : i = k
               /\ \A i \in PanelJobs : WorksOnCache(panelJob[i])
               /\ cache[r.p] = r.o /\ (g = "plug" => r.o \in plugLoaded) /\ r.saved = shown[r.o][g]
    <3>1. /\ \A q \in Panels : \A i, k \in On(q) : i = k
          /\ \A i \in PanelJobs : WorksOnCache(panelJob[i])
      BY <2>4 DEF PanelInv, Undisturbed
    <3>2. WorksOnCache(r)
      BY <1>1, <3>1
    <3>. QED
      BY <1>2, <1>7, <3>1, <3>2 DEF WorksOnCache
  <2>5. Undisturbed'
    <3>. SUFFICES ASSUME ~interfered' PROVE Undisturbed'
      BY DEF Undisturbed
    <3>1. ~interfered
      BY <1>8
    <3>2. \A q \in Panels : On(q)' \subseteq On(q)
      <4>1. \A q \in Panels : On(q)' = On(q) \ {j}
        BY <1>0, <1>4, <2>3, JobMoves
      <4>. QED
        BY <4>1
    <3>3. WorksOnCache(s)'
      BY <2>3 DEF WorksOnCache
    <3>4. ASSUME NEW i \in PanelJobs \ {j} PROVE WorksOnCache(panelJob[i])'
      BY <1>3, <1>5, <2>4, <3>1 DEF WorksOnCache
    <3>5. ASSUME NEW q \in Panels, NEW h \in Groups, cache'[q] # 0, h = "plug" => cache'[q] \in plugLoaded',
                 (\A i \in PanelJobs : ~Unsaved(panelJob[i], q, h))'
          PROVE  stored'[q][h] = shown'[cache'[q]][h]
      <4>1. CASE q = r.p /\ h = g
        BY <1>3, <2>1, <2>4, <3>1, <4>1
      <4>2. CASE ~(q = r.p /\ h = g)
        <5>1. \A i \in PanelJobs : ~Unsaved(panelJob[i], q, h)
          BY <1>1, <1>5, <1>7, <3>5, <4>2 DEF Unsaved
        <5>2. stored[q][h] = shown[cache[q]][h]
          BY <1>3, <3>1, <3>5, <5>1 DEF PanelInv, Undisturbed
        <5>. QED
          BY <1>3, <2>1, <4>2, <5>2
      <4>. QED
        BY <4>1, <4>2
    <3>6. \A i \in PanelJobs : WorksOnCache(panelJob[i])'
      BY <1>5, <3>3, <3>4 DEF WorksOnCache
    <3>. QED
      BY <1>3, <2>4, <3>1, <3>2, <3>5, <3>6 DEF PanelInv, Undisturbed
  <2>6. Apart'
    <3>. SUFFICES ASSUME ~interfered', ~collided' PROVE Apart'
      BY DEF Apart
    <3>1. ~interfered /\ ~collided /\ OutputRunning' = OutputRunning
      BY <1>3, <1>8 DEF OutputRunning
    <3>2. \A i \in PanelJobs : panelJob'[i].at = "claim" => panelJob[i].at = "claim"
      BY <1>5, <2>3
    <3>3. stored'["hardware"]["plug"] => cache["hardware"] # 0 /\ cache["hardware"] \in plugLoaded
      <4>1. CASE r.p = "hardware" /\ g = "plug"
        BY <1>2, <2>4, <3>1, <4>1, ObjectsAreThere
      <4>2. CASE ~(r.p = "hardware" /\ g = "plug")
        <5>1. stored'["hardware"]["plug"] = stored["hardware"]["plug"]
          BY <2>1, <4>2 DEF Panels, Groups
        <5>. QED
          BY <3>1, <5>1 DEF PanelInv, Apart
      <4>. QED
        BY <4>1, <4>2
    <3>. QED
      BY <1>3, <3>1, <3>2, <3>3 DEF PanelInv, Apart
  <2>. QED
    BY <1>6, <2>2, <2>5, <2>6 DEF PanelInv
<1>9. CASE interfered' = TRUE /\ stored' = stored
  <2>1. PanelTypes'
    BY <1>0, <1>3, <1>5, <1>9 DEF PanelTypes
  <2>. QED
    BY <1>6, <1>9, <2>1 DEF PanelInv, Undisturbed, Apart
<1>. QED
  BY <1>1, <1>7, <1>8, <1>9 DEF PanelSaved

\* A request that is alone and comes to an end, or a session that asks or claims: nothing on a panel changes.
LEMMA PanelsStand ==
    ASSUME PanelInv, NEW j \in PanelJobs, NEW s \in Requests, panelJob' = [panelJob EXCEPT ![j] = s],
           s.at \in {"idle", "claim"}, panelJob[j].at # "save", RequestIsAt(s),
           UNCHANGED <<cache, shown, plugLoaded, stored, interfered>>
    PROVE  Undisturbed' /\ (\A i \in PanelJobs : RequestIsAt(panelJob[i])')
<1>0. PanelTypes
  BY DEF PanelInv
<1>1. panelJob'[j] = s /\ \A i \in PanelJobs \ {j} : panelJob'[i] = panelJob[i]
  BY <1>0, JobMoves
<1>2. \A i \in PanelJobs : RequestIsAt(panelJob[i])'
  BY <1>1 DEF PanelInv, RequestIsAt
<1>3. Undisturbed'
  <2>. SUFFICES ASSUME ~interfered' PROVE Undisturbed'
    BY DEF Undisturbed
  <2>1. ~interfered
    OBVIOUS
  <2>2. \A q \in Panels : On(q)' \subseteq On(q)
    <3>1. \A q \in Panels : On(q)' = On(q) \ {j}
      BY <1>0, JobMoves
    <3>. QED
      BY <3>1
  <2>3. \A i \in PanelJobs : WorksOnCache(panelJob[i])
    BY <2>1 DEF PanelInv, Undisturbed
  <2>4. \A i \in PanelJobs : WorksOnCache(panelJob[i])'
    BY <1>1, <2>3 DEF WorksOnCache
  <2>5. \A q \in Panels, g \in Groups : (\A i \in PanelJobs : ~Unsaved(panelJob[i], q, g))' =>
           \A i \in PanelJobs : ~Unsaved(panelJob[i], q, g)
    BY <1>1 DEF Unsaved
  <2>. QED
    BY <2>1, <2>2, <2>4, <2>5 DEF PanelInv, Undisturbed
<1>. QED
  BY <1>2, <1>3

\* A session asks whether an output is under test.
LEMMA SessionAsksKeeps == ASSUME PanelInv, NEW j \in PanelJobs, SessionAsks(j) PROVE PanelInv'
<1>0. PanelTypes
  BY DEF PanelInv
<1>1. /\ panelJob[j].at = "idle" /\ ~OutputRunning
      /\ UNCHANGED <<cache, shown, plugLoaded, stored, session, collided, interfered>>
  BY DEF SessionAsks
<1>2. PICK s \in Requests : s.at = "claim" /\ s.op = panelJob[j].op /\ s.p = panelJob[j].p /\ panelJob' = [panelJob EXCEPT ![j] = s]
  <2>. DEFINE t == [panelJob[j] EXCEPT !.at = "claim"]
  <2>1. t \in Requests /\ t.at = "claim" /\ t.op = panelJob[j].op /\ t.p = panelJob[j].p
    BY <1>0 DEF PanelTypes, Requests
  <2>2. panelJob' = [panelJob EXCEPT ![j] = t]
    BY DEF SessionAsks
  <2>. HIDE DEF t
  <2>. QED
    BY <2>1, <2>2
<1>3. panelJob' \in [PanelJobs -> Requests]
  BY <1>0, <1>2, JobMoves
<1>4. PanelTypes'
  BY <1>0, <1>1, <1>3 DEF PanelTypes
<1>5. RequestIsAt(s)
  <2>1. RequestIsAt(panelJob[j])
    BY DEF PanelInv
  <2>. QED
    BY <1>2, <2>1 DEF RequestIsAt
<1>6. Undisturbed' /\ \A i \in PanelJobs : RequestIsAt(panelJob[i])'
  BY <1>1, <1>2, <1>5, PanelsStand
<1>7. Apart'
  <2>1. ~OutputRunning'
    BY <1>1 DEF OutputRunning
  <2>. QED
    BY <1>1, <2>1 DEF PanelInv, Apart
<1>. QED
  BY <1>4, <1>6, <1>7 DEF PanelInv

\* A session begins, or is refused: no output ran when it asked, and none has begun to since.
LEMMA SessionClaimsKeeps == ASSUME PanelInv, NEW j \in PanelJobs, SessionClaims(j) PROVE PanelInv'
<1>0. PanelTypes
  BY DEF PanelInv
<1>1. /\ panelJob[j].at = "claim" /\ panelJob' = [panelJob EXCEPT ![j] = NoRequest]
      /\ session' \in {session, "active"}
      /\ UNCHANGED <<cache, shown, plugLoaded, stored, collided, interfered>>
  BY DEF SessionClaims
<1>2. panelJob' \in [PanelJobs -> Requests]
  BY <1>0, <1>1, IdleRequest, JobMoves
<1>3. PanelTypes'
  BY <1>0, <1>1, <1>2 DEF PanelTypes
<1>4. Undisturbed' /\ \A i \in PanelJobs : RequestIsAt(panelJob[i])'
  BY <1>1, IdleRequest, PanelsStand
<1>5. Apart'
  <2>. SUFFICES ASSUME ~interfered', ~collided' PROVE Apart'
    BY DEF Apart
  <2>1. ~interfered /\ ~collided /\ OutputRunning' = OutputRunning
    BY <1>1 DEF OutputRunning
  <2>2. ~OutputRunning
    BY <1>1, <2>1 DEF PanelInv, Apart
  <2>. QED
    BY <1>1, <2>1, <2>2 DEF PanelInv, Apart
<1>. QED
  BY <1>3, <1>4, <1>5 DEF PanelInv

\* The status of a session's row is written over, or the session ends: it was there, so no output
\* runs.
LEMMA SessionStandsKeeps == ASSUME PanelInv, SessionHides \/ SessionShows \/ SessionLeaves PROVE PanelInv'
<1>0. PanelTypes
  BY DEF PanelInv
<1>1. /\ session # "none" /\ session' \in {"none", "active", "hidden"}
      /\ UNCHANGED <<cache, shown, plugLoaded, stored, panelJob, collided, interfered>>
  BY DEF SessionHides, SessionShows, SessionLeaves
<1>2. PanelTypes'
  BY <1>0, <1>1 DEF PanelTypes
<1>3. \A i \in PanelJobs : RequestIsAt(panelJob[i])'
  BY <1>1 DEF PanelInv, RequestIsAt
<1>4. Undisturbed'
  BY <1>1 DEF PanelInv, Undisturbed, On, WorksOnCache, Unsaved
<1>5. Apart'
  BY <1>1 DEF PanelInv, Apart, OutputRunning
<1>. QED
  BY <1>2, <1>3, <1>4, <1>5 DEF PanelInv

\* A restart forgets the cache and the requests, and keeps what is stored.
LEMMA PanelRestartedKeeps == ASSUME PanelInv, PanelRestarted PROVE PanelInv'
<1>0. PanelTypes
  BY DEF PanelInv
<1>1. /\ cache' = [p \in Panels |-> 0] /\ shown' = [o \in Objects |-> Blank] /\ plugLoaded' = {}
      /\ panelJob' = [j \in PanelJobs |-> NoRequest] /\ UNCHANGED <<stored, session>>
      /\ interfered' = (interfered \/ \E p \in Panels : On(p) # {})
      /\ collided' = (collided \/ stored["hardware"]["plug"] \/ interfered')
  BY DEF PanelRestarted
<1>2. interfered' \in BOOLEAN /\ collided' \in BOOLEAN
  BY <1>1, Zenon
<1>3. PanelTypes'
  BY <1>0, <1>1, <1>2, IdleRequest DEF PanelTypes, Blank
<1>4. \A i \in PanelJobs : RequestIsAt(panelJob[i])' /\ panelJob'[i] = NoRequest
  BY <1>1, IdleRequest DEF RequestIsAt
<1>5. Undisturbed'
  BY <1>1, <1>4, IdleRequest DEF Undisturbed, On, WorksOnCache, Panels
<1>6. Apart'
  <2>1. ~OutputRunning'
    BY <1>1 DEF OutputRunning, Panels
  <2>2. ~collided' => ~stored["hardware"]["plug"]
    BY <1>1
  <2>. QED
    BY <1>1, <2>1, <2>2 DEF Apart
<1>. QED
  BY <1>3, <1>4, <1>5, <1>6 DEF PanelInv

\* Every step keeps the invariant.
LEMMA PanelSteps == PanelInv /\ [PanelNext]_panelVars => PanelInv'
<1>. SUFFICES ASSUME PanelInv, [PanelNext]_panelVars PROVE PanelInv'
  OBVIOUS
<1>1. ASSUME NEW j \in PanelJobs, NEW on \in BOOLEAN, SetOutputRunning(j, on) PROVE PanelInv'
  <2>1. PanelAccess(j, "hardware", "output", on)
    BY <1>1 DEF SetOutputRunning
  <2>. QED
    BY <2>1, AccessKeeps DEF Panels
<1>2. ASSUME NEW j \in PanelJobs, NEW on \in BOOLEAN, NEW p \in Panels, NEW op \in {"plug", "instance"},
             SetPanelToggle(j, p, op, on)
      PROVE  PanelInv'
  <2>1. PanelAccess(j, p, op, on)
    BY <1>2 DEF SetPanelToggle
  <2>. QED
    BY <2>1, AccessKeeps
<1>3. ASSUME NEW j \in PanelJobs, NEW p \in Panels, PanelPolled(j, p) PROVE PanelInv'
  <2>1. PanelAccess(j, p, "read", FALSE)
    BY <1>3 DEF PanelPolled
  <2>. QED
    BY <2>1, AccessKeeps
<1>4. ASSUME NEW j \in PanelJobs,
             \/ PanelLoads(j) \/ PlugLoads(j) \/ TestDecides(j) \/ TestChecks(j) \/ ToggleAssigned(j)
             \/ ToggleRefused(j) \/ PanelSaved(j) \/ SessionAsks(j) \/ SessionClaims(j)
      PROVE  PanelInv'
  BY <1>4, PanelLoadsKeeps, PlugLoadsKeeps, TestDecidesKeeps, TestChecksKeeps, ToggleAssignedKeeps,
     ToggleRefusedKeeps, PanelSavedKeeps, SessionAsksKeeps, SessionClaimsKeeps
<1>5. CASE UNCHANGED panelVars
  <2>1. UNCHANGED <<cache, shown, plugLoaded, stored, panelJob, session, collided, interfered>>
    BY <1>5 DEF panelVars
  <2>. QED
    BY <2>1 DEF PanelInv, PanelTypes, RequestIsAt, Undisturbed, Apart, On, WorksOnCache, Unsaved, OutputRunning
<1>. QED
  BY <1>1, <1>2, <1>3, <1>4, <1>5, SessionStandsKeeps, PanelRestartedKeeps, Zenon DEF PanelNext

\* The invariant holds in every behaviour.
LEMMA PanelInvHolds == PanelSpec => []PanelInv
BY PanelStarts, PanelSteps, PTL DEF PanelSpec

\* However many requests there are and however they cross, outside the crossings NoCollision names.
THEOREM NeverCollide == PanelSpec => []NoCollision
BY PanelInvHolds, PanelSuffices, PTL

\* And what a screen shows is what survives a restart.
THEOREM ShownStored == PanelSpec => []ShownIsStored
BY PanelInvHolds, PanelSuffices, PTL
=============================================================================
