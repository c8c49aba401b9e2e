------------------------------ MODULE Screens ------------------------------
(***************************************************************************)
(* A page of the panel (src/app/instances/[id]/..., the dashboard, the 3D  *)
(* twin) in a browser: it loads views of the server when it opens, polls   *)
(* some of them, and sends what the operator presses. Requests of one page *)
(* are answered, and the answers arrive, in any order.                     *)
(*                                                                         *)
(* A view is abstracted to its version: the server gives it the next one    *)
(* when what it shows changes. The name in a heading, loaded once, is left *)
(* out. Rows are plugs, or instances on the dashboard. What a button asks  *)
(* of the server is in the other modules: here it is done or refused.      *)
(* Leaving a page forgets all of its state, so a behaviour stays on one.   *)
(***************************************************************************)
EXTENDS Naturals

CONSTANTS
    Plugs, Presses,     \* rows of a page, presses under way
    MaxVersion,
    Upgrading           \* versions of the maintenance view with a connector Unavailable

\* A load is started by a handler, known by its press, or by the page.
ASSUME PageAssumption == "page" \notin Presses

VARIABLES
    screen,
    atServer,           \* of each view, on the server
    onScreen,           \* of each view, what the page shows
    newest,             \* of each view, the newest the page has shown
    loads,              \* GETs under way
    busy,               \* the page's pending flags: rows of each
    pressed             \* what the operator pressed

screenVars == <<screen, atServer, onScreen, newest, loads, busy, pressed>>

Views == {"list", "instance", "connectors", "sessions", "maintenance", "panel", "overall",
          "modules", "board", "events"}
Nothing == 0

-----------------------------------------------------------------------------
\* A button looks at rows of a pending flag before it can be pressed and marks rows when it is;
\* then the page loads views anew, or shows those that the answer holds.
Reloading(flag, rows, changes, reloads) ==
    [flag |-> flag, looks |-> rows, marks |-> rows, changes |-> changes, reloads |-> reloads, shows |-> {}]
Showing(flag, rows, changes, shows) ==
    [flag |-> flag, looks |-> rows, marks |-> rows, changes |-> changes, reloads |-> {}, shows |-> shows]
Bulk(flag, rows, changes, reloads) ==
    [flag |-> flag, looks |-> {}, marks |-> rows, changes |-> changes, reloads |-> reloads, shows |-> {}]
EachPlug(flag, changes, reloads) == {Reloading(flag, {p}, changes, reloads) : p \in Plugs}
Watching(opens, buttons) == [opens |-> opens, polls |-> {}, buttons |-> buttons]

Dashboard ==
    [opens |-> {"list"}, polls |-> {"list"},
     buttons |-> EachPlug("pendingIds", {"list"}, {"list"})
                 \cup {Bulk("pendingIds", ids, {"list"}, {"list"}) : ids \in (SUBSET Plugs) \ {{}}}]
Home ==
    [opens |-> {"instance", "connectors"}, polls |-> {"connectors"},
     buttons |-> {Showing("connectionPending", {"any"}, {"instance"}, {"instance"})}
                 \cup EachPlug("pendingConnectorId", {"connectors", "sessions"}, {"connectors"})
                 \cup EachPlug("evPendingConnectorId", {"connectors"}, {"connectors"})]
\* The twin's load awaits both the instance and its connectors before it shows either: one load.
Twin ==
    [opens |-> {"connectors"}, polls |-> {"connectors"},
     buttons |-> EachPlug("pending", {"connectors"}, {"connectors"})]
Locks ==
    [opens |-> {"connectors"}, polls |-> {"connectors"},
     buttons |-> EachPlug("pending", {"connectors"}, {"connectors"})]
Cost ==
    [opens |-> {"connectors", "sessions"}, polls |-> {"connectors"},
     buttons |-> EachPlug("pending", {"connectors"}, {"connectors"})
                 \cup EachPlug("pending", {"connectors", "sessions"}, {"connectors", "sessions"})]
MaintenanceActions == {"clear-events", "clear-consumption", "reset-parameters", "reconnect", "upgrade-firmware"}
MaintenancePage ==
    [opens |-> {"maintenance"}, polls |-> {"maintenance"},
     buttons |-> {Reloading("pendingAction", {a}, {"maintenance"}, {"maintenance"}) : a \in MaintenanceActions}]
Settings ==
    [opens |-> {"instance"}, polls |-> {},
     buttons |-> {Showing("saving", {"any"}, {"instance"}, {"instance"})}]
DeviceTest ==
    [opens |-> {"panel"}, polls |-> {"panel"},
     buttons |-> {Showing("pending", {"any"}, {"panel"}, {"panel"})}]
StatusPage ==
    [opens |-> {"overall", "connectors"}, polls |-> {},
     buttons |-> EachPlug("pendingUnlock", {"connectors"}, {"connectors"})
                 \cup {Showing("none", {}, {"overall"}, {"overall"})}]
Contactor == Watching({"board"}, {Showing("none", {}, {"board"}, {"board"})})
PlugBoard == Watching({"board"}, {Showing("none", {}, {"board"}, {"board"})})
Communication == Watching({"modules"}, {Showing("none", {}, {"modules"}, {"modules"})})
EventLog == Watching({"events"}, {})
QrCodes == Watching({"instance"}, {})

Page ==
    [dashboard |-> Dashboard, home |-> Home, twin |-> Twin, lock |-> Locks, cost |-> Cost,
     maintenance |-> MaintenancePage, settings |-> Settings, deviceTest |-> DeviceTest,
     status |-> StatusPage, contactor |-> Contactor, plug |-> PlugBoard,
     communication |-> Communication, events |-> EventLog, qr |-> QrCodes]
Flags == {"pendingIds", "connectionPending", "pendingConnectorId", "evPendingConnectorId", "pending",
          "pendingAction", "saving", "pendingUnlock", "none"}

-----------------------------------------------------------------------------
NotPressed ==
    [stage |-> "none", button |-> Showing("none", {}, {}, {}), done |-> FALSE, missed |-> FALSE,
     at |-> [v \in Views |-> Nothing]]
Load(view, by) == [view |-> view, by |-> by, answer |-> "none", held |-> Nothing]
Loads(views, by) == loads \cup {Load(v, by) : v \in views}
Newer(m, n) == IF m > n THEN m ELSE n

ScreensInit ==
    /\ screen \in DOMAIN Page
    /\ atServer = [v \in Views |-> 1]
    /\ onScreen = [v \in Views |-> Nothing] /\ newest = onScreen
    /\ loads = {Load(v, "page") : v \in Page[screen].opens}
    /\ busy = [f \in Flags |-> {}] /\ pressed = [p \in Presses |-> NotPressed]

\* setState with what an answer holds, whatever the page shows already.
Show(views, held) ==
    /\ onScreen' = [v \in Views |-> IF v \in views THEN held[v] ELSE onScreen[v]]
    /\ newest' = [v \in Views |-> IF v \in views THEN Newer(held[v], newest[v]) ELSE newest[v]]

\* The finally of a handler: the dashboard takes the handler's rows out of a set, the other pages
\* have one slot and empty it.
HandlerEnds(p, missed) ==
    /\ pressed' = [pressed EXCEPT ![p].stage = "ended", ![p].missed = @ \/ missed]
    /\ LET b == pressed[p].button
       IN busy' = [busy EXCEPT ![b.flag] = IF screen = "dashboard" THEN @ \ b.marks ELSE {}]

\* A load of a handler settled; the handler ends when it awaits no other.
Settled(l, missed) ==
    IF l.by = "page" THEN UNCHANGED <<pressed, busy>>
    ELSE IF \E other \in loads \ {l} : other.by = l.by
    THEN /\ pressed' = [pressed EXCEPT ![l.by].missed = @ \/ missed] /\ UNCHANGED busy
    ELSE HandlerEnds(l.by, missed)

\* The page's timer; the maintenance page has one while it shows an upgrade.
Polls ==
    /\ screen = "maintenance" => onScreen["maintenance"] \in Upgrading
    /\ loads' = Loads(Page[screen].polls, "page")
    /\ UNCHANGED <<screen, atServer, onScreen, newest, busy, pressed>>

\* The server answers with what the view is now, or the request fails.
LoadAnswered(l) ==
    /\ l.answer = "none"
    /\ \E answer \in {"held", "failed"} :
         loads' = (loads \ {l}) \cup {[l EXCEPT !.answer = answer, !.held = atServer[l.view]]}
    /\ UNCHANGED <<screen, atServer, onScreen, newest, busy, pressed>>

LoadArrives(l) ==
    /\ l.answer \in {"held", "failed"} /\ loads' = loads \ {l}
    /\ IF l.answer = "held" THEN Show({l.view}, [v \in {l.view} |-> l.held])
       ELSE UNCHANGED <<onScreen, newest>>
    /\ Settled(l, l.answer = "failed")
    /\ UNCHANGED <<screen, atServer>>

\* What a page has loaded before it draws a button: all that it opens, or what it needs of it.
DrawnFrom(b) ==
    CASE screen = "home" /\ b.flag # "pendingConnectorId" -> {"instance"}
      [] screen = "cost" -> {"connectors"}
      [] screen = "status" /\ b.flag = "none" -> {"overall"}
      [] OTHER -> Page[screen].opens

Pressable(b) ==
    /\ b.looks \cap busy[b.flag] = {}
    /\ \A v \in DrawnFrom(b) : onScreen[v] # Nothing
    /\ "upgrade-firmware" \in b.marks => onScreen["maintenance"] \notin Upgrading

Press(p, b) ==
    /\ pressed[p] = NotPressed /\ Pressable(b)
    /\ pressed' = [pressed EXCEPT ![p] = [NotPressed EXCEPT !.stage = "asked", !.button = b]]
    /\ busy' = [busy EXCEPT ![b.flag] = IF screen = "dashboard" THEN @ \cup b.marks ELSE b.marks]
    /\ UNCHANGED <<screen, atServer, onScreen, newest, loads>>

\* The server does what is asked, or refuses.
Acts(p) ==
    /\ pressed[p].stage = "asked"
    /\ \/ /\ \A v \in pressed[p].button.changes : atServer[v] < MaxVersion
          /\ atServer' = [v \in Views |-> atServer[v] + IF v \in pressed[p].button.changes THEN 1 ELSE 0]
          /\ pressed' = [pressed EXCEPT ![p] = [@ EXCEPT !.stage = "answered", !.done = TRUE, !.at = atServer']]
       \/ /\ pressed' = [pressed EXCEPT ![p].stage = "answered"] /\ UNCHANGED atServer
    /\ UNCHANGED <<screen, onScreen, newest, loads, busy>>

\* A mutant of AnswerArrives: the loads are started and not awaited.
AnswerArrivesUnawaited(p) ==
    /\ pressed[p].stage = "answered" /\ HandlerEnds(p, FALSE)
    /\ loads' = Loads(pressed[p].button.reloads, "page")
    /\ IF pressed[p].done THEN Show(pressed[p].button.shows, pressed[p].at) ELSE UNCHANGED <<onScreen, newest>>
    /\ UNCHANGED <<screen, atServer>>

\* The dashboard and the twin load whatever the answer was, the others after a success.
AnswerArrives(p) ==
    /\ pressed[p].stage = "answered"
    /\ LET b == pressed[p].button
       IN /\ IF pressed[p].done THEN Show(b.shows, pressed[p].at) ELSE UNCHANGED <<onScreen, newest>>
          /\ IF b.reloads # {} /\ (pressed[p].done \/ screen \in {"dashboard", "twin"})
             THEN /\ pressed' = [pressed EXCEPT ![p].stage = "reloading"]
                  /\ loads' = Loads(b.reloads, p) /\ UNCHANGED busy
             ELSE HandlerEnds(p, FALSE) /\ UNCHANGED loads
    /\ UNCHANGED <<screen, atServer>>

\* The answer is lost, or says that the server failed after it had acted: the flag is cleared and
\* nothing is shown or loaded.  (The dashboard and the twin load after a failure that is told.)
AnswerLost(p) ==
    /\ pressed[p].stage = "answered" /\ HandlerEnds(p, TRUE)
    /\ UNCHANGED <<screen, atServer, onScreen, newest, loads>>

\* The station, the CSMS or another page changes what a view of this page shows.
OthersChange(v) ==
    /\ v \in Page[screen].opens /\ atServer[v] < MaxVersion /\ atServer' = [atServer EXCEPT ![v] = @ + 1]
    /\ UNCHANGED <<screen, onScreen, newest, loads, busy, pressed>>

ScreensNext ==
    \/ Polls
    \/ \E l \in loads : LoadAnswered(l) \/ LoadArrives(l)
    \/ \E p \in Presses :
         Acts(p) \/ AnswerArrives(p) \/ AnswerLost(p) \/ \E b \in Page[screen].buttons : Press(p, b)
    \/ \E v \in Views : OthersChange(v)
ScreensSpec == ScreensInit /\ [][ScreensNext]_screenVars

-----------------------------------------------------------------------------
\* What the operator pressed and the server did has been on the page when its handler ends (from
\* then on its button can be pressed again), whatever else the page loads meanwhile and in whatever
\* order the answers come; unless the handler missed it: the answer to the press itself was lost or
\* told of a failure (app/instances/[id]/page.tsx:112-129), or a load of the handler failed.
DoneIsShown ==
    \A p \in Presses :
        pressed[p].stage = "ended" /\ pressed[p].done /\ ~pressed[p].missed =>
            \A v \in pressed[p].button.changes \cap Page[screen].opens : newest[v] >= pressed[p].at[v]
=============================================================================
