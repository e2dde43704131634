----------------------------- MODULE LiveUpdates -----------------------------
(***************************************************************************)
(* How the outcome of an analysis reaches the browser.  The run stores it  *)
(* and publishes an event; the relay of the API process                    *)
(* (src/src/core/runtime_events.py) takes the event from Redis and         *)
(* broadcasts it to the sockets of the task (src/src/core/ws_manager.py),  *)
(* which come and go while it does; the page (AnalysisPage) listens on     *)
(* sockets it opens again when they close                                  *)
(* (frontend/src/hooks/useAnalysisSocket.ts) and polls GET /result at the  *)
(* same time.  The run itself is AnalysisLifecycle; here it only settles.  *)
(***************************************************************************)
EXTENDS AnalysisPage, Integers, Sequences, FiniteSets

CONSTANTS
    Faults,         \* the faults of the environment that may occur
    UserWaits,      \* the user acts only when nothing of his is under way
    MaxPolls,       \* MAX_POLLING_ATTEMPTS
    MaxReconnects,  \* MAX_RECONNECT_ATTEMPTS
    MaxSockets      \* bound: sockets the page opens for one task

FaultKinds ==
    { "network",    \* a poll gets no answer, or a server error
      "gone",       \* the row has been deleted: a poll gets 404
      "refused",    \* the upload is refused or fails
      "drop",       \* a socket is refused, or breaks
      "publish",    \* the run cannot publish, or dies before it does
      "listener" }  \* the relay's connection to Redis raises

ASSUME FaultsAssumption  == Faults \subseteq FaultKinds
ASSUME UserAssumption    == UserWaits \in BOOLEAN
ASSUME BoundsAssumption  == {MaxPolls, MaxReconnects, MaxSockets} \subseteq Nat \ {0}

Sockets  == Docs \X (1..MaxSockets)
NoSocket == <<"none", 0>>
Doc(s)   == s[1]

VARIABLES
    page,       \* the browser's page, a record of AnalysisPage
    poll,       \* poll[d]: the closure of analyze for d
    sock,       \* sock[s]: the client's end of a socket
    hook,       \* socketRef and reconnectAttempts of useAnalysisSocket
    wire,       \* sockets on which an event is under way to the client
    run,        \* run[d]: the status stored for d
    announced,  \* announced[d]: the run of d has published its outcome
    channel,    \* events in the Redis channel, by document
    listening,  \* the relay is subscribed
    members,    \* members[d]: active_connections[d]
    relay,      \* the broadcast under way
    overtaken   \* history: documents with something under way when another was dropped

vars == <<page, poll, sock, hook, wire, run, announced, channel, listening,
          members, relay, overtaken>>

pageVars   == <<page, poll>>
hookVars   == <<sock, hook>>
runVars    == <<run, announced>>
serverVars == <<channel, listening, members, relay>>

Outcomes == {"completed", "failed", "cancelled"}
Answers  == {"none", "processing", "lost", "gone"} \cup Outcomes

PollType  == [step : {"none", "uploading", "waiting", "asking", "answered", "over"},
              answer : Answers, attempts : 0..MaxPolls]
HookType  == [current : Sockets \cup {NoSocket}, reconnects : 0..MaxReconnects]
RelayType == [doc : Docs \cup {"none"}, size : Nat, visited : SUBSET Sockets,
              dead : SUBSET Sockets, orphan : BOOLEAN]
NoPoll    == [step |-> "none", answer |-> "none", attempts |-> 0]
IdleRelay == [doc |-> "none", size |-> 0, visited |-> {}, dead |-> {}, orphan |-> FALSE]

Init ==
    /\ page = FreshPage
    /\ poll = [d \in Docs |-> NoPoll]
    /\ sock = [s \in Sockets |-> "unused"]
    /\ hook = [current |-> NoSocket, reconnects |-> 0]
    /\ wire = {}
    /\ run = [d \in Docs |-> "none"]
    /\ announced = [d \in Docs |-> FALSE]
    /\ channel = <<>>
    /\ listening = TRUE
    /\ members = [d \in Docs |-> {}]
    /\ relay = IdleRelay
    /\ overtaken = {}

Alive(s)        == sock[s] \in {"connecting", "open"}
MayReconnect(s) == sock[s] = "retry" /\ s[2] < MaxSockets

-----------------------------------------------------------------------------
(* The page *)

\* The effect of useAnalysisSocket when the page becomes p: the socket in
\* socketRef is closed, and a first one opened for a task being processed.
SocketEffect(p) ==
    IF HookInputs(p) = HookInputs(page) THEN UNCHANGED hookVars
    ELSE LET old    == hook.current
             closed == IF old # NoSocket /\ Alive(old)
                       THEN [sock EXCEPT ![old] = "closing"] ELSE sock
             first  == <<p.active, 1>>
         IN  IF p.active # "none" /\ p.status = "processing"
             THEN /\ sock' = [closed EXCEPT ![first] = "connecting"]
                  /\ hook' = [hook EXCEPT !.current = first]
             ELSE sock' = closed /\ UNCHANGED hook

Becomes(p) == page' = p /\ SocketEffect(p)

\* clearTimeout(timeoutId.current) stops the poll that was scheduled last.
TimerCleared ==
    LET d == page.timer
    IN  IF d # "none" /\ poll[d].step = "waiting"
        THEN [poll EXCEPT ![d].step = "over"] ELSE poll

PollBecomes(d, step) == poll' = [poll EXCEPT ![d].step = step, ![d].answer = "none"]

\* Nothing of an earlier analysis is under way, in the browser or on the server.
NothingUnderWay ==
    /\ wire = {} /\ channel = <<>> /\ relay = IdleRelay
    /\ \A d \in Docs : /\ poll[d].step \in {"none", "waiting", "over"}
                       /\ poll[d].step = "waiting" => Pending(page)
                       /\ run[d] # "none" => announced[d]
    /\ \A s \in Sockets : /\ sock[s] \notin {"connecting", "closing"} /\ ~MayReconnect(s)
                          /\ s \in members[Doc(s)] => Alive(s)

UserMayAct == UserWaits => NothingUnderWay

\* Something of the analysis of d is under way that may still reach the page.
UnderWay(d) ==
    \/ poll[d].step \notin {"none", "over"}
    \/ run[d] # "none" /\ ~announced[d]
    \/ \E i \in 1..Len(channel) : channel[i] = d
    \/ relay.doc = d
    \/ \E s \in wire : Doc(s) = d

StartAnalysis(d) ==
    /\ UserMayAct /\ OffersUpload(page) /\ poll[d].step = "none"
    /\ Becomes(Analyzing(page, d))
    /\ PollBecomes(d, "uploading")
    /\ overtaken' = overtaken \cup {e \in Docs \ {d} : UnderWay(e)}
    /\ UNCHANGED <<wire, runVars, serverVars>>

PressReset ==
    /\ UserMayAct
    /\ \/ OffersNewAnalysis(page) /\ Becomes(Reset(page, FALSE))
       \/ OffersDismissal(page) /\ Becomes(Reset(page, TRUE))
    /\ poll' = TimerCleared
    /\ UNCHANGED <<wire, runVars, serverVars, overtaken>>

\* The answer to the upload; the cancelled flag is not looked at.
UploadDone(d) ==
    /\ poll[d].step = "uploading" /\ run[d] # "none"
    /\ Becomes(UploadAccepted(page, d))
    /\ PollBecomes(d, "waiting")
    /\ UNCHANGED <<wire, runVars, serverVars, overtaken>>

UploadFails(d) ==
    /\ "refused" \in Faults
    /\ poll[d].step = "uploading" /\ run[d] = "none"
    /\ Becomes(IF page.cancelled THEN page ELSE Failed(page))
    /\ PollBecomes(d, "over")
    /\ UNCHANGED <<wire, runVars, serverVars, overtaken>>

\* The timer of a poll fires: it stops, gives up or asks.
TimerFires(d) ==
    /\ poll[d].step = "waiting"
    /\ \/ /\ page.cancelled
          /\ PollBecomes(d, "over") /\ UNCHANGED <<page, hookVars>>
       \/ /\ ~page.cancelled /\ poll[d].attempts >= MaxPolls
          /\ PollBecomes(d, "over") /\ Becomes(Failed(page))
       \/ /\ ~page.cancelled /\ poll[d].attempts < MaxPolls
          /\ poll' = [poll EXCEPT ![d].step = "asking", ![d].attempts = @ + 1]
          /\ UNCHANGED <<page, hookVars>>
    /\ UNCHANGED <<wire, runVars, serverVars, overtaken>>

\* GET /result reads the row; the answer is under way.
ReadResult(d) ==
    /\ poll[d].step = "asking"
    /\ \E answer \in {run[d]} \cup (IF "network" \in Faults THEN {"lost"} ELSE {})
                              \cup (IF "gone" \in Faults THEN {"gone"} ELSE {}) :
          poll' = [poll EXCEPT ![d].step = "answered", ![d].answer = answer]
    /\ UNCHANGED <<page, hookVars, wire, runVars, serverVars, overtaken>>

\* Mutants: a lost answer ends the polling in silence, or as a failure.
TakeAnswerGivesUp(d) ==
    /\ poll[d].step = "answered"
    /\ IF poll[d].answer = "completed" /\ ~page.cancelled THEN Becomes(Completed(page, d))
       ELSE UNCHANGED <<page, hookVars>>
    /\ PollBecomes(d, IF poll[d].answer = "processing" THEN "waiting" ELSE "over")
    /\ UNCHANGED <<wire, runVars, serverVars, overtaken>>

TakeAnswerFailsIfLost(d) ==
    /\ poll[d].step = "answered"
    /\ IF poll[d].answer = "completed" /\ ~page.cancelled THEN Becomes(Completed(page, d))
       ELSE IF poll[d].answer = "processing" \/ page.cancelled THEN UNCHANGED <<page, hookVars>>
       ELSE Becomes(Failed(page))
    /\ PollBecomes(d, IF poll[d].answer = "processing" THEN "waiting" ELSE "over")
    /\ UNCHANGED <<wire, runVars, serverVars, overtaken>>

\* The answer arrives: an outcome, a missing row, or a reason to ask again.
TakeAnswer(d) ==
    /\ poll[d].step = "answered"
    /\ LET answer == poll[d].answer
       IN  \/ /\ page.cancelled
              /\ PollBecomes(d, "over") /\ UNCHANGED <<page, hookVars>>
           \/ /\ ~page.cancelled /\ answer = "completed"
              /\ PollBecomes(d, "over") /\ Becomes(Completed(page, d))
           \/ /\ ~page.cancelled /\ answer \in {"failed", "gone"}
              /\ PollBecomes(d, "over") /\ Becomes(Failed(page))
           \/ /\ ~page.cancelled /\ answer \in {"processing", "cancelled", "lost"}
              /\ PollBecomes(d, "waiting") /\ Becomes([page EXCEPT !.timer = d])
    /\ UNCHANGED <<wire, runVars, serverVars, overtaken>>

-----------------------------------------------------------------------------
(* Sockets, client's side *)

\* The server accepts: connect() adds the socket to the set of its task.
SocketOpens(s) ==
    /\ sock[s] = "connecting"
    /\ sock' = [sock EXCEPT ![s] = "open"]
    /\ members' = [members EXCEPT ![Doc(s)] = @ \cup {s}]
    /\ hook' = [hook EXCEPT !.reconnects = 0]
    /\ UNCHANGED <<pageVars, wire, runVars, channel, listening, relay, overtaken>>

\* The connection is refused or breaks.
SocketBreaks(s) ==
    /\ "drop" \in Faults /\ Alive(s)
    /\ sock' = [sock EXCEPT ![s] = "closing"]
    /\ wire' = wire \ {s}
    /\ UNCHANGED <<pageVars, hook, runVars, serverVars, overtaken>>

\* onclose of a socket of the page, which does not know who closed it.
SocketClosed(s) ==
    /\ sock[s] = "closing"
    /\ IF hook.reconnects < MaxReconnects
       THEN /\ hook' = [hook EXCEPT !.reconnects = @ + 1]
            /\ sock' = [sock EXCEPT ![s] = "retry"]
       ELSE sock' = [sock EXCEPT ![s] = "closed"] /\ UNCHANGED hook
    /\ wire' = wire \ {s}
    /\ UNCHANGED <<pageVars, runVars, serverVars, overtaken>>

\* Two seconds later connect() opens another one, for the task of its closure.
Reconnect(s) ==
    /\ MayReconnect(s)
    /\ LET next == <<Doc(s), s[2] + 1>>
       IN  /\ sock' = [sock EXCEPT ![s] = "closed", ![next] = "connecting"]
           /\ hook' = [hook EXCEPT !.current = next]
    /\ UNCHANGED <<pageVars, wire, runVars, serverVars, overtaken>>

\* onWSMessage: an outcome replaces what the page shows, whatever it shows;
\* "cancelled" is ignored.
SocketMessage(s) ==
    /\ s \in wire /\ wire' = wire \ {s}
    /\ IF sock[s] # "open" \/ run[Doc(s)] = "cancelled"
       THEN UNCHANGED <<pageVars, hookVars>>
       ELSE /\ Becomes(IF run[Doc(s)] = "completed" THEN Completed(page, Doc(s))
                       ELSE Failed(page))
            /\ poll' = TimerCleared
    /\ UNCHANGED <<runVars, serverVars, overtaken>>

-----------------------------------------------------------------------------
(* The server *)

\* POST /upload has created the row and dispatched the run.
AcceptUpload(d) ==
    /\ poll[d].step = "uploading" /\ run[d] = "none"
    /\ run' = [run EXCEPT ![d] = "processing"]
    /\ UNCHANGED <<pageVars, hookVars, wire, announced, serverVars, overtaken>>

SettleRun(d) ==
    /\ run[d] = "processing"
    /\ \E outcome \in Outcomes : run' = [run EXCEPT ![d] = outcome]
    /\ UNCHANGED <<pageVars, hookVars, wire, announced, serverVars, overtaken>>

\* broadcast_task_event: Redis keeps nothing for a relay that does not listen.
PublishOutcome(d) ==
    /\ run[d] \in Outcomes /\ ~announced[d]
    /\ announced' = [announced EXCEPT ![d] = TRUE]
    /\ \/ listening /\ channel' = Append(channel, d)
       \/ (~listening \/ "publish" \in Faults) /\ UNCHANGED channel
    /\ UNCHANGED <<pageVars, hookVars, wire, run, listening, members, relay, overtaken>>

\* The relay takes an event; a task without sockets has no entry and no broadcast.
BeginBroadcast ==
    /\ listening /\ channel # <<>> /\ relay = IdleRelay
    /\ channel' = Tail(channel)
    /\ LET d == Head(channel)
       IN  relay' = IF members[d] = {} THEN IdleRelay
                    ELSE [IdleRelay EXCEPT !.doc = d, !.size = Cardinality(members[d])]
    /\ UNCHANGED <<pageVars, hookVars, wire, runVars, listening, members, overtaken>>

Broadcasting == relay # IdleRelay

\* Python looks whether the set it iterates over has changed its size.
SetChanged == relay.orphan \/ Cardinality(members[relay.doc]) # relay.size
Unvisited  == members[relay.doc] \ relay.visited

\* Mutant: an exception of one client's socket ends the broadcast.
SendNextFragile(s) ==
    /\ Broadcasting /\ ~SetChanged /\ s \in Unvisited
    /\ \/ /\ wire' = IF sock[s] = "open" THEN wire \cup {s} ELSE wire
          /\ relay' = [relay EXCEPT !.visited = @ \cup {s}]
       \/ /\ sock[s] # "open" /\ UNCHANGED wire
          /\ relay' = IdleRelay
    /\ UNCHANGED <<pageVars, hookVars, runVars, channel, listening, members, overtaken>>

\* send_json to the next socket: a client that is gone may raise, or not yet.
SendNext(s) ==
    /\ Broadcasting /\ ~SetChanged /\ s \in Unvisited
    /\ \/ /\ wire' = IF sock[s] = "open" THEN wire \cup {s} ELSE wire
          /\ relay' = [relay EXCEPT !.visited = @ \cup {s}]
       \/ /\ sock[s] # "open" /\ UNCHANGED wire
          /\ relay' = [relay EXCEPT !.visited = @ \cup {s}, !.dead = @ \cup {s}]
    /\ UNCHANGED <<pageVars, hookVars, runVars, channel, listening, members, overtaken>>

\* The iteration raises; the listener logs it and goes on with the next event.
BroadcastRaises ==
    /\ Broadcasting /\ SetChanged
    /\ relay' = IdleRelay
    /\ UNCHANGED <<pageVars, hookVars, wire, runVars, channel, listening, members, overtaken>>

\* The iteration ends and the sockets found dead are disconnected.
EndBroadcast ==
    /\ Broadcasting /\ ~SetChanged /\ Unvisited = {}
    /\ members' = [members EXCEPT ![relay.doc] = @ \ relay.dead]
    /\ relay' = IdleRelay
    /\ UNCHANGED <<pageVars, hookVars, wire, runVars, channel, listening, overtaken>>

\* receive_text of the endpoint raises: disconnect() forgets the socket, and
\* with the last one the entry: a later client gets a set of its own.
NoticeDisconnect(s) ==
    /\ s \in members[Doc(s)] /\ ~Alive(s)
    /\ members' = [members EXCEPT ![Doc(s)] = @ \ {s}]
    /\ relay' = IF relay.doc = Doc(s) /\ members[Doc(s)] = {s}
                THEN [relay EXCEPT !.orphan = TRUE] ELSE relay
    /\ UNCHANGED <<pageVars, hookVars, wire, runVars, channel, listening, overtaken>>

\* get_message raises: the listener task ends, and nothing starts it again.
ListenerDies ==
    /\ "listener" \in Faults /\ listening /\ relay = IdleRelay
    /\ listening' = FALSE /\ channel' = <<>>
    /\ UNCHANGED <<pageVars, hookVars, wire, runVars, members, relay, overtaken>>

-----------------------------------------------------------------------------
PageStep(d) == UploadDone(d) \/ TimerFires(d) \/ ReadResult(d) \/ TakeAnswer(d)

BroadcastStep ==
    \/ BeginBroadcast \/ BroadcastRaises \/ EndBroadcast
    \/ \E s \in Sockets : SendNext(s)

Next ==
    \/ PressReset
    \/ BroadcastStep
    \/ ListenerDies
    \/ \E d \in Docs :
          \/ StartAnalysis(d) \/ PageStep(d) \/ UploadFails(d)
          \/ AcceptUpload(d) \/ SettleRun(d) \/ PublishOutcome(d)
    \/ \E s \in Sockets :
          \/ SocketOpens(s) \/ SocketBreaks(s) \/ SocketClosed(s) \/ Reconnect(s)
          \/ SocketMessage(s) \/ NoticeDisconnect(s)

Spec == Init /\ [][Next]_vars

\* Timers fire and requests are answered.  The user, the run, the sockets, the
\* relay and the faults may do nothing.
Fairness == WF_vars(\E d \in Docs : AcceptUpload(d) \/ PageStep(d))

FairSpec == Spec /\ Fairness

-----------------------------------------------------------------------------
(* Properties *)

TypeOK ==
    /\ page \in PageType
    /\ poll \in [Docs -> PollType]
    /\ sock \in [Sockets -> {"unused", "connecting", "open", "closing", "retry", "closed"}]
    /\ hook \in HookType
    /\ wire \subseteq Sockets
    /\ run \in [Docs -> {"none", "processing"} \cup Outcomes]
    /\ announced \in [Docs -> BOOLEAN]
    /\ channel \in Seq(Docs)
    /\ listening \in BOOLEAN
    /\ members \in [Docs -> SUBSET Sockets]
    /\ \A d \in Docs : \A s \in members[d] : Doc(s) = d
    /\ relay \in RelayType
    /\ overtaken \subseteq Docs

\* Whatever the user presses, and when: the history of the browser keeps a report
\* under its own file name, unless something of that analysis was still under way
\* when the user dropped another file (the effect of Dashboard.tsx pairs whatever
\* filename and result the page holds, and analyze clears the one cancelled flag).
OnlyOvertakenMisnamed ==
    \A entry \in page.history : entry.file = entry.doc \/ entry.doc \in overtaken

\* To a user who waits for an analysis to end before the next (UserWaits), the page
\* says "completed" of a file only with the report of that file, and "failed" only
\* if the analysis failed, is gone, was refused or was polled in vain.
PageTellsOutcome ==
    /\ page.status = "completed" => page.shown = page.file /\ run[page.file] = "completed"
    /\ page.status = "failed" =>
          \/ run[page.file] \in {"none", "failed"}
          \/ "gone" \in Faults
          \/ poll[page.file].attempts = MaxPolls

\* Polling alone brings every pending analysis to an end on the page, whatever
\* becomes of the events, the sockets and the relay.
PageSettles == Pending(page) ~> ~Pending(page)

\* A client that has gone costs no other client the message: a broadcast whose
\* set of sockets has not changed has reached all of them when it is over.
OneFailureOneLoss ==
    [][Broadcasting /\ relay' = IdleRelay /\ ~SetChanged => Unvisited = {}]_vars
=============================================================================
