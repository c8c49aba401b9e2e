---------------------------- MODULE IncomingCalls ----------------------------
(***************************************************************************)
(* How the station answers the CSMS (ocpp/client.ts, handleIncomingCall,   *)
(* and the handlers of ocpp/remote-commands.ts): a CALL is handled at once *)
(* or after awaits, its answer is sent when the handler returns, and what  *)
(* the command entails is deferred with setImmediate to after the answer.  *)
(* Meanwhile the link may be lost and opened again, the database fail, and *)
(* the instance be disposed of.                                            *)
(*                                                                         *)
(* What the commands do to the station's state is in RemoteCommands,       *)
(* Reservations and DeviceLink; here are the frames and their order.       *)
(***************************************************************************)
EXTENDS Naturals, Sequences

CONSTANTS Incoming, MaxLinks

VARIABLES
    links, linked,      \* sockets opened so far, the last one is open
    registered,         \* dispose() has not unregistered the handlers
    incoming,           \* the CALLs and how far they got
    immediates,         \* the setImmediate queue
    uploads,            \* performDiagnosticsUpload of a CALL
    frames              \* what has been sent, in order

incomingVars == <<links, linked, registered, incoming, immediates, uploads, frames>>

\* What the handlers await before they answer, and what they defer: of each kind some stand for
\* the others (RemoteStopTransaction is as RemoteStartTransaction, the stores' as DataTransfer).
Immediate == {"UnlockConnector", "Reset", "ChangeAvailability", "GetDiagnostics", "TriggerMessage"}
Awaiting == {"GetConfiguration", "RemoteStartTransaction", "DataTransfer"}
Deferring == {"Reset", "ChangeAvailability", "GetDiagnostics", "TriggerMessage", "RemoteStartTransaction"}
Unregistered == {"Unregistered"}

NoIncoming == [at |-> "none", action |-> "Unregistered", link |-> 0]
Frame(kind, c) == [kind |-> kind, call |-> c, link |-> links]
Answers == {"result", "error"}

IncomingInit ==
    /\ links = 1 /\ linked = TRUE /\ registered = TRUE
    /\ incoming = [c \in Incoming |-> NoIncoming]
    /\ immediates = << >> /\ uploads = [c \in Incoming |-> "none"] /\ frames = << >>

\* sendFrame drops what it cannot send.
SendFrame(kind, c) == frames' = IF linked THEN Append(frames, Frame(kind, c)) ELSE frames
\* client.call rejects.
CallSent(kind, c) == linked /\ frames' = Append(frames, Frame(kind, c))

\* The awaiting of the handler's promise and the sending are microtasks: nothing of the queue runs
\* before them.
Answered(c, kind, action) ==
    incoming' = [incoming EXCEPT ![c] = [at |-> IF linked THEN "answered" ELSE "lost", action |-> action,
                                         link |-> IF @.at = "none" THEN links ELSE @.link]]

\* A mutant of Returns: what the command entails is sent by the handler itself.
ReturnsLast(c, action, defers) ==
    /\ Answered(c, "result", action) /\ UNCHANGED immediates
    /\ frames' = IF ~linked THEN frames
                 ELSE (IF defers THEN Append(frames, Frame("follow", c)) ELSE frames) \o <<Frame("result", c)>>

\* The handler returns: it has put what it entails in the queue, and its result is sent.
Returns(c, action, defers) ==
    /\ SendFrame("result", c) /\ Answered(c, "result", action)
    /\ immediates' = IF defers THEN Append(immediates, c) ELSE immediates

Throws(c, action) == SendFrame("error", c) /\ Answered(c, "error", action) /\ UNCHANGED immediates

\* A CALL of an action without handler, with one that answers in the same turn (a rejection defers
\* nothing, a bad payload throws), or with one that awaits the database.
CallArrives(c) ==
    /\ linked /\ incoming[c] = NoIncoming
    /\ \E action \in Immediate \cup Awaiting \cup Unregistered :
         IF action \in Unregistered \/ ~registered THEN Throws(c, action)
         ELSE IF action \in Awaiting
         THEN /\ incoming' = [incoming EXCEPT ![c] = [at |-> "awaits", action |-> action, link |-> links]]
              /\ UNCHANGED <<immediates, frames>>
         ELSE \/ Throws(c, action)
              \/ Returns(c, action, FALSE)
              \/ action \in Deferring /\ Returns(c, action, TRUE)
    /\ UNCHANGED <<links, linked, registered, uploads>>

\* The handler goes on.  GetConfiguration reads the limit on its keys first and the keys then.
HandlerResumes(c) ==
    LET action == incoming[c].action
    IN /\ incoming[c].at \in {"awaits", "awaits again"}
       /\ \/ Throws(c, action)
          \/ /\ action = "GetConfiguration" /\ incoming[c].at = "awaits"
             /\ incoming' = [incoming EXCEPT ![c].at = "awaits again"]
             /\ UNCHANGED <<immediates, frames>>
          \/ /\ action # "GetConfiguration" \/ incoming[c].at = "awaits again"
             /\ Returns(c, action, FALSE)
          \/ action \in Deferring /\ Returns(c, action, TRUE)
       /\ UNCHANGED <<links, linked, registered, uploads>>

\* The calls that wait are rejected when their socket closes.
CallsRejected == [c \in Incoming |-> IF uploads[c] = "sent" THEN "failed" ELSE uploads[c]]

\* The queue is run in order, one callback a turn.
ImmediateRuns ==
    /\ immediates # << >> /\ immediates' = Tail(immediates)
    /\ LET c == Head(immediates)
           action == incoming[c].action
       IN /\ linked' = IF action = "Reset" THEN FALSE ELSE linked
          /\ IF ~linked THEN UNCHANGED <<uploads, frames>>
             ELSE /\ CallSent(IF action = "Reset" THEN "close" ELSE "follow", c)
                  /\ uploads' = IF action = "Reset" THEN CallsRejected
                                ELSE IF action = "GetDiagnostics" THEN [uploads EXCEPT ![c] = "sent"]
                                ELSE uploads
    /\ UNCHANGED <<links, registered, incoming>>

\* Uploading is answered and the delay runs, or the call fails and the upload ends.
UploadingAnswered(c) ==
    /\ uploads[c] = "sent"
    /\ \/ linked /\ uploads' = [uploads EXCEPT ![c] = "uploads"]
       \/ uploads' = [uploads EXCEPT ![c] = "failed"]
    /\ UNCHANGED <<links, linked, registered, incoming, immediates, frames>>

Uploaded(c) ==
    /\ uploads[c] = "uploads"
    /\ uploads' = [uploads EXCEPT ![c] = IF linked THEN "uploaded" ELSE "failed"]
    /\ IF linked THEN CallSent("uploaded", c) ELSE UNCHANGED frames
    /\ UNCHANGED <<links, linked, registered, incoming, immediates>>

LinkLost ==
    /\ linked /\ linked' = FALSE /\ uploads' = CallsRejected
    /\ UNCHANGED <<links, registered, incoming, immediates, frames>>
LinkReopened ==
    /\ ~linked /\ registered /\ links < MaxLinks /\ linked' = TRUE /\ links' = links + 1
    /\ UNCHANGED <<registered, incoming, immediates, uploads, frames>>

\* Timers and deferred callbacks go on.
Disposed ==
    /\ registered /\ registered' = FALSE
    /\ UNCHANGED <<links, linked, incoming, immediates, uploads, frames>>

IncomingNext ==
    \/ ImmediateRuns \/ LinkLost \/ LinkReopened \/ Disposed
    \/ \E c \in Incoming :
         CallArrives(c) \/ HandlerResumes(c) \/ UploadingAnswered(c) \/ Uploaded(c)
IncomingSpec == IncomingInit /\ [][IncomingNext]_incomingVars

-----------------------------------------------------------------------------
FramesOf(c, kinds) == {i \in DOMAIN frames : frames[i].call = c /\ frames[i].kind \in kinds}

\* "Deferred so [the answer] is always sent before" what it triggers (remote-commands.ts:429, 625,
\* 662): a CALL is answered exactly once when its handler is through, before any message, or the
\* closing of the link, that it entails, and Uploaded comes last, on the link of its Uploading or a
\* later one; only an answer that fell due without a link is not sent, and its consequences then
\* come on a later link, never on the one the CALL came by.
AnswersComeFirst ==
    \A c \in Incoming :
        LET answers == FramesOf(c, Answers)
            entailed == FramesOf(c, {"follow", "close", "uploaded"})
        IN /\ \A i, j \in answers : i = j
           /\ incoming[c].at = "answered" => answers # {}
           /\ \A i \in answers, j \in entailed : i < j
           /\ answers = {} => \A j \in entailed : frames[j].link > incoming[c].link
           /\ \A i \in FramesOf(c, {"follow"}), j \in FramesOf(c, {"uploaded"}) :
                 i < j /\ frames[i].link <= frames[j].link
           /\ FramesOf(c, {"uploaded"}) # {} => FramesOf(c, {"follow"}) # {}
=============================================================================
