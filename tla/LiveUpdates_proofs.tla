-------------------------- MODULE LiveUpdates_proofs --------------------------
(***************************************************************************)
(* Proofs about LiveUpdates.  For any number of documents, sockets, polls  *)
(* and reconnections and any faults: type correctness, and that one        *)
(* client's failure costs no other client its message; for any user: which *)
(* reports the history may keep under another name.  For a user who waits  *)
(* until nothing of his is under way: the page tells the outcome.          *)
(***************************************************************************)
EXTENDS LiveUpdates, FiniteSetTheorems, SequenceTheorems, TLAPS

SocketSteps == {"unused", "connecting", "open", "closing", "retry", "closed"}

-----------------------------------------------------------------------------
(* The updates of the page and of its sockets *)

LEMMA PageUpdates ==
    ASSUME NEW p \in PageType, NEW d \in Docs, NEW b \in BOOLEAN
    PROVE  /\ Analyzing(p, d) \in PageType /\ UploadAccepted(p, d) \in PageType
           /\ Completed(p, d) \in PageType /\ Failed(p) \in PageType /\ Reset(p, b) \in PageType
           /\ [p EXCEPT !.timer = d] \in PageType
<1>1. Analyzing(p, d) \in PageType
  BY DEF Analyzing, PageType
<1>2. UploadAccepted(p, d) \in PageType
  BY DEF UploadAccepted, PageType
<1>3. Completed(p, d) \in PageType
  <2> DEFINE shown == [p EXCEPT !.shown = d, !.status = "completed"]
  <2>1. shown \in PageType /\ shown.shown = d
    BY DEF PageType
  <2>2. SaveEffect(shown) \in PageType
    <3> HIDE DEF shown
    <3>1. shown.file # "none" => [file |-> shown.file, doc |-> shown.shown] \in [file : Docs, doc : Docs]
      BY <2>1 DEF PageType
    <3> QED
      BY <2>1, <3>1 DEF SaveEffect, PageType
  <2> QED
    BY <2>2 DEF Completed
<1>4. Failed(p) \in PageType
  BY DEF Failed, PageType
<1>5. Reset(p, b) \in PageType
  BY DEF Reset, PageType
<1>6. [p EXCEPT !.timer = d] \in PageType
  BY DEF PageType
<1> QED
  BY <1>1, <1>2, <1>3, <1>4, <1>5, <1>6

LEMMA FirstSocket ==
    ASSUME NEW d \in Docs
    PROVE  <<d, 1>> \in Sockets /\ Doc(<<d, 1>>) = d
BY BoundsAssumption DEF Sockets, Doc

LEMMA NextSocket ==
    ASSUME NEW s \in Sockets
    PROVE  /\ Doc(s) \in Docs
           /\ s[2] < MaxSockets => <<Doc(s), s[2] + 1>> \in Sockets
           /\ Doc(<<Doc(s), s[2] + 1>>) = Doc(s)
BY BoundsAssumption DEF Sockets, Doc

\* The sockets of a task are finitely many.
LEMMA SocketsOfOne ==
    ASSUME NEW d \in Docs, NEW S \in SUBSET Sockets, \A s \in S : Doc(s) = d
    PROVE  IsFiniteSet(S)
<1>1. IsFiniteSet({d}) /\ IsFiniteSet(1..MaxSockets)
  <2>1. MaxSockets \in Int
    BY BoundsAssumption
  <2>2. IsFiniteSet(1..MaxSockets)
    BY <2>1, FS_Interval
  <2> QED
    BY <2>2, FS_Singleton
<1>2. IsFiniteSet({d} \X (1..MaxSockets))
  BY <1>1, FS_Product
<1>3. S \subseteq {d} \X (1..MaxSockets)
  BY DEF Sockets, Doc
<1> QED
  BY <1>2, <1>3, FS_Subset

\* The effect of useAnalysisSocket opens a socket only for a task that begins to be
\* processed.
LEMMA EffectOK ==
    ASSUME TypeOK, NEW p \in PageType, SocketEffect(p)
    PROVE  /\ sock' \in [Sockets -> SocketSteps] /\ hook' \in HookType
           /\ \A s \in Sockets : sock[s] = "unused" =>
                 \/ sock'[s] = "unused"
                 \/ Doc(s) = p.active /\ p.status = "processing" /\ HookInputs(p) # HookInputs(page)
<1>1. sock \in [Sockets -> SocketSteps] /\ hook \in HookType
  BY DEF TypeOK, SocketSteps
<1>2. CASE HookInputs(p) = HookInputs(page)
  BY <1>1, <1>2 DEF SocketEffect, hookVars
<1>3. CASE HookInputs(p) # HookInputs(page)
  <2> DEFINE old    == hook.current
             closed == IF old # NoSocket /\ Alive(old)
                       THEN [sock EXCEPT ![old] = "closing"] ELSE sock
             first  == <<p.active, 1>>
  <2>1. closed \in [Sockets -> SocketSteps] /\ \A s \in Sockets : sock[s] = "unused" => closed[s] = "unused"
    BY <1>1 DEF HookType, Alive, SocketSteps
  <2>2. IF p.active # "none" /\ p.status = "processing"
        THEN /\ sock' = [closed EXCEPT ![first] = "connecting"]
             /\ hook' = [hook EXCEPT !.current = first]
        ELSE sock' = closed /\ UNCHANGED hook
    BY <1>3 DEF SocketEffect
  <2> HIDE DEF closed
  <2>3. CASE p.active # "none" /\ p.status = "processing"
    <3>1. p.active \in Docs /\ first \in Sockets /\ Doc(first) = p.active
      BY <2>3, FirstSocket DEF PageType
    <3> HIDE DEF first
    <3>2. sock' \in [Sockets -> SocketSteps]
      BY <2>1, <2>2, <2>3, <3>1 DEF SocketSteps
    <3>3. hook' \in HookType
      BY <1>1, <2>2, <2>3, <3>1 DEF HookType
    <3>4. \A s \in Sockets : s # first => sock'[s] = closed[s]
      BY <2>1, <2>2, <2>3
    <3> QED
      BY <1>3, <2>1, <2>3, <3>1, <3>2, <3>3, <3>4
  <2>4. CASE ~(p.active # "none" /\ p.status = "processing")
    BY <1>1, <2>1, <2>2, <2>4
  <2> QED
    BY <2>3, <2>4
<1> QED
  BY <1>2, <1>3

LEMMA TimerClearedOK ==
    ASSUME TypeOK
    PROVE  TimerCleared \in [Docs -> PollType]
BY DEF TypeOK, TimerCleared, PollType, PageType

-----------------------------------------------------------------------------
(* Type correctness *)

LEMMA BecomesOK ==
    ASSUME TypeOK, NEW p \in PageType, Becomes(p)
    PROVE  /\ page' = p /\ page' \in PageType
           /\ sock' \in [Sockets -> SocketSteps] /\ hook' \in HookType
BY EffectOK DEF Becomes

LEMMA PollBecomesOK ==
    ASSUME TypeOK, NEW d \in Docs, NEW step \in {"waiting", "over", "uploading"},
           PollBecomes(d, step)
    PROVE  poll' \in [Docs -> PollType]
BY DEF TypeOK, PollBecomes, PollType, Answers

\* Only a user who drops a file overtakes what is under way.
LEMMA OvertakenKept ==
    ASSUME [Next]_vars, ~\E d \in Docs : StartAnalysis(d)
    PROVE  UNCHANGED overtaken
<1>1. ASSUME NEW d \in Docs,
             PageStep(d) \/ UploadFails(d) \/ AcceptUpload(d) \/ SettleRun(d) \/ PublishOutcome(d)
      PROVE  UNCHANGED overtaken
  BY <1>1 DEF PageStep, UploadDone, TimerFires, ReadResult, TakeAnswer, UploadFails, AcceptUpload,
     SettleRun, PublishOutcome
<1>2. ASSUME NEW s \in Sockets,
             \/ SocketOpens(s) \/ SocketBreaks(s) \/ SocketClosed(s) \/ Reconnect(s)
             \/ SocketMessage(s) \/ NoticeDisconnect(s)
      PROVE  UNCHANGED overtaken
  BY <1>2 DEF SocketOpens, SocketBreaks, SocketClosed, Reconnect, SocketMessage, NoticeDisconnect
<1>3. CASE PressReset \/ BroadcastStep \/ ListenerDies \/ UNCHANGED vars
  BY <1>3 DEF PressReset, BroadcastStep, BeginBroadcast, BroadcastRaises, EndBroadcast, SendNext,
     ListenerDies, vars
<1> QED
  BY <1>1, <1>2, <1>3 DEF Next

LEMMA NextTypeOK ==
    ASSUME TypeOK, [Next]_vars
    PROVE  TypeOK'
<1> USE DEF pageVars, hookVars, runVars, serverVars
<1>1. /\ page \in PageType /\ poll \in [Docs -> PollType]
      /\ sock \in [Sockets -> SocketSteps] /\ hook \in HookType /\ wire \subseteq Sockets
      /\ run \in [Docs -> {"none", "processing"} \cup Outcomes]
      /\ announced \in [Docs -> BOOLEAN] /\ channel \in Seq(Docs) /\ listening \in BOOLEAN
      /\ members \in [Docs -> SUBSET Sockets] /\ (\A d \in Docs : \A s \in members[d] : Doc(s) = d)
      /\ relay \in RelayType
  BY DEF TypeOK, SocketSteps
<1>0. overtaken' \subseteq Docs
  <2>1. CASE \E d \in Docs : StartAnalysis(d)
    BY <2>1 DEF TypeOK, StartAnalysis
  <2>2. CASE UNCHANGED overtaken
    BY <2>2 DEF TypeOK
  <2> QED
    BY <2>1, <2>2, OvertakenKept
<1>2. ASSUME page' \in PageType, poll' \in [Docs -> PollType],
             sock' \in [Sockets -> SocketSteps], hook' \in HookType,
             wire' \subseteq Sockets, UNCHANGED <<runVars, serverVars>>
      PROVE  TypeOK'
  BY <1>0, <1>1, <1>2 DEF TypeOK, SocketSteps
<1>3. ASSUME run' \in [Docs -> {"none", "processing"} \cup Outcomes],
             announced' \in [Docs -> BOOLEAN], channel' \in Seq(Docs),
             UNCHANGED <<pageVars, hookVars, wire, listening, members, relay>>
      PROVE  TypeOK'
  BY <1>0, <1>1, <1>3 DEF TypeOK, SocketSteps
<1>4. ASSUME sock' \in [Sockets -> SocketSteps], hook' \in HookType, wire' \subseteq Sockets,
             channel' \in Seq(Docs), listening' \in BOOLEAN,
             members' \in [Docs -> SUBSET Sockets],
             \A d \in Docs : \A s \in members'[d] : Doc(s) = d,
             relay' \in RelayType, UNCHANGED <<pageVars, runVars>>
      PROVE  TypeOK'
  BY <1>0, <1>1, <1>4 DEF TypeOK, SocketSteps
<1>5. ASSUME NEW d \in Docs, StartAnalysis(d) \/ UploadDone(d) \/ UploadFails(d)
      PROVE  TypeOK'
  <2>1. PICK p \in PageType, step \in {"waiting", "over", "uploading"} :
            Becomes(p) /\ PollBecomes(d, step)
    BY <1>1, <1>5, PageUpdates DEF StartAnalysis, UploadDone, UploadFails
  <2>2. UNCHANGED <<wire, runVars, serverVars>>
    BY <1>5 DEF StartAnalysis, UploadDone, UploadFails
  <2> QED
    BY <1>1, <1>2, <2>1, <2>2, BecomesOK, PollBecomesOK
<1>6. CASE PressReset
  <2>1. PICK p \in PageType : Becomes(p) /\ poll' = TimerCleared
    <3>1. CASE \E d \in Docs : TRUE
      BY <1>1, <1>6, <3>1, PageUpdates DEF PressReset
    <3>2. CASE ~\E d \in Docs : TRUE
      BY <1>1, <1>6, <3>2 DEF PressReset, Reset, PageType
    <3> QED
      BY <3>1, <3>2
  <2>2. UNCHANGED <<wire, runVars, serverVars>>
    BY <1>6 DEF PressReset
  <2> QED
    BY <1>1, <1>2, <2>1, <2>2, BecomesOK, TimerClearedOK
<1>7. ASSUME NEW d \in Docs, TimerFires(d)
      PROVE  TypeOK'
  <2>1. UNCHANGED <<wire, runVars, serverVars>>
    BY <1>7 DEF TimerFires
  <2>2. CASE PollBecomes(d, "over")
    <3>1. UNCHANGED <<page, hookVars>> \/ \E p \in PageType : Becomes(p)
      BY <1>1, <1>7, <2>2, PageUpdates DEF TimerFires
    <3> QED
      BY <1>1, <1>2, <2>1, <2>2, <3>1, BecomesOK, PollBecomesOK
  <2>3. CASE ~PollBecomes(d, "over")
    <3>1. /\ poll' = [poll EXCEPT ![d].step = "asking", ![d].attempts = @ + 1]
          /\ poll[d].attempts < MaxPolls /\ UNCHANGED <<page, hookVars>>
      BY <1>7, <2>3 DEF TimerFires
    <3>2. MaxPolls \in Nat
      BY BoundsAssumption
    <3>3. poll[d].attempts + 1 \in 0..MaxPolls
      BY <1>1, <3>1, <3>2 DEF PollType
    <3>4. poll' \in [Docs -> PollType]
      BY <1>1, <3>1, <3>3 DEF PollType
    <3> QED
      BY <1>1, <1>2, <2>1, <3>1, <3>4
  <2> QED
    BY <2>2, <2>3
<1>8. ASSUME NEW d \in Docs, ReadResult(d)
      PROVE  TypeOK'
  <2>1. PICK answer \in Answers : poll' = [poll EXCEPT ![d].step = "answered", ![d].answer = answer]
    BY <1>1, <1>8 DEF ReadResult, Answers
  <2>2. poll' \in [Docs -> PollType]
    BY <1>1, <2>1 DEF PollType
  <2> QED
    BY <1>1, <1>2, <1>8, <2>2 DEF ReadResult
<1>9. ASSUME NEW d \in Docs, TakeAnswer(d)
      PROVE  TypeOK'
  <2>1. PICK step \in {"waiting", "over"} : PollBecomes(d, step)
    BY <1>9 DEF TakeAnswer
  <2>2. UNCHANGED <<page, hookVars>> \/ \E p \in PageType : Becomes(p)
    BY <1>1, <1>9, PageUpdates DEF TakeAnswer
  <2>3. UNCHANGED <<wire, runVars, serverVars>>
    BY <1>9 DEF TakeAnswer
  <2> QED
    BY <1>1, <1>2, <2>1, <2>2, <2>3, BecomesOK, PollBecomesOK
<1>10. ASSUME NEW s \in Sockets, SocketOpens(s)
       PROVE  TypeOK'
  <2>1. sock' \in [Sockets -> SocketSteps] /\ hook' \in HookType
    BY <1>1, <1>10, BoundsAssumption DEF SocketOpens, SocketSteps, HookType
  <2>2. /\ members' \in [Docs -> SUBSET Sockets]
        /\ \A d \in Docs : \A x \in members'[d] : Doc(x) = d
    BY <1>1, <1>10, NextSocket DEF SocketOpens
  <2> QED
    BY <1>1, <1>4, <1>10, <2>1, <2>2 DEF SocketOpens
<1>11. ASSUME NEW s \in Sockets, SocketBreaks(s) \/ SocketClosed(s)
       PROVE  TypeOK'
  <2>1. sock' \in [Sockets -> SocketSteps] /\ wire' \subseteq Sockets
    BY <1>1, <1>11 DEF SocketBreaks, SocketClosed, SocketSteps
  <2>2. hook' \in HookType
    BY <1>1, <1>11, BoundsAssumption DEF SocketBreaks, SocketClosed, HookType
  <2> QED
    BY <1>1, <1>2, <1>11, <2>1, <2>2 DEF SocketBreaks, SocketClosed
<1>12. ASSUME NEW s \in Sockets, Reconnect(s)
       PROVE  TypeOK'
  <2> DEFINE next == <<Doc(s), s[2] + 1>>
  <2>1. next \in Sockets
    BY <1>12, NextSocket DEF Reconnect, MayReconnect
  <2>2. /\ sock' = [sock EXCEPT ![s] = "closed", ![next] = "connecting"]
        /\ hook' = [hook EXCEPT !.current = next]
    BY <1>12 DEF Reconnect
  <2> HIDE DEF next
  <2>3. sock' \in [Sockets -> SocketSteps] /\ hook' \in HookType
    BY <1>1, <2>1, <2>2 DEF SocketSteps, HookType
  <2> QED
    BY <1>1, <1>2, <1>12, <2>3 DEF Reconnect
<1>13. ASSUME NEW s \in Sockets, SocketMessage(s)
       PROVE  TypeOK'
  <2>1. wire' \subseteq Sockets /\ UNCHANGED <<runVars, serverVars>>
    BY <1>1, <1>13 DEF SocketMessage
  <2>2. CASE UNCHANGED <<pageVars, hookVars>>
    BY <1>1, <1>2, <2>1, <2>2
  <2>3. CASE ~UNCHANGED <<pageVars, hookVars>>
    <3>1. PICK p \in PageType : Becomes(p) /\ poll' = TimerCleared
      BY <1>1, <1>13, <2>3, PageUpdates, NextSocket DEF SocketMessage
    <3> QED
      BY <1>2, <2>1, <3>1, BecomesOK, TimerClearedOK
  <2> QED
    BY <2>2, <2>3
<1>14. ASSUME NEW d \in Docs, AcceptUpload(d) \/ SettleRun(d)
       PROVE  TypeOK'
  BY <1>1, <1>3, <1>14 DEF AcceptUpload, SettleRun, Outcomes
<1>15. ASSUME NEW d \in Docs, PublishOutcome(d)
       PROVE  TypeOK'
  <2>1. channel' \in Seq(Docs)
    BY <1>1, <1>15, AppendProperties DEF PublishOutcome
  <2> QED
    BY <1>1, <1>3, <1>15, <2>1 DEF PublishOutcome
<1>16. CASE BeginBroadcast
  <2>1. Head(channel) \in Docs /\ Tail(channel) \in Seq(Docs)
    BY <1>1, <1>16, HeadTailProperties DEF BeginBroadcast
  <2>2. Cardinality(members[Head(channel)]) \in Nat
    BY <1>1, <2>1, SocketsOfOne, FS_CardinalityType
  <2>3. IdleRelay \in RelayType
    BY DEF IdleRelay, RelayType
  <2>4. relay' \in RelayType
    BY <1>16, <2>1, <2>2, <2>3 DEF BeginBroadcast, RelayType
  <2> QED
    BY <1>1, <1>4, <1>16, <2>1, <2>4 DEF BeginBroadcast
<1>17. ASSUME NEW s \in Sockets, SendNext(s)
       PROVE  TypeOK'
  <2>1. wire' \subseteq Sockets
    BY <1>1, <1>17 DEF SendNext
  <2>2. /\ [relay EXCEPT !.visited = @ \cup {s}] \in RelayType
        /\ [relay EXCEPT !.visited = @ \cup {s}, !.dead = @ \cup {s}] \in RelayType
    BY <1>1 DEF RelayType
  <2>3. relay' \in RelayType
    BY <1>17, <2>2 DEF SendNext
  <2> QED
    BY <1>1, <1>4, <1>17, <2>1, <2>3 DEF SendNext
<1>18. CASE BroadcastRaises
  BY <1>1, <1>4, <1>18 DEF BroadcastRaises, IdleRelay, RelayType
<1>19. CASE EndBroadcast
  <2>1. IdleRelay \in RelayType
    BY DEF IdleRelay, RelayType
  <2>2. /\ members' \in [Docs -> SUBSET Sockets]
        /\ \A d \in Docs : members'[d] \subseteq members[d]
    BY <1>1, <1>19 DEF EndBroadcast
  <2> QED
    BY <1>1, <1>4, <1>19, <2>1, <2>2 DEF EndBroadcast
<1>20. ASSUME NEW s \in Sockets, NoticeDisconnect(s)
       PROVE  TypeOK'
  <2>1. /\ members' \in [Docs -> SUBSET Sockets]
        /\ \A d \in Docs : members'[d] \subseteq members[d]
    BY <1>1, <1>20 DEF NoticeDisconnect
  <2>2. relay' \in RelayType
    BY <1>1, <1>20 DEF NoticeDisconnect, RelayType
  <2> QED
    BY <1>1, <1>4, <1>20, <2>1, <2>2 DEF NoticeDisconnect
<1>21. CASE ListenerDies
  <2>1. << >> \in Seq(Docs)
    OBVIOUS
  <2>2. channel' \in Seq(Docs)
    BY <1>21, <2>1 DEF ListenerDies
  <2>3. listening' \in BOOLEAN
    BY <1>21 DEF ListenerDies
  <2> QED
    BY <1>1, <1>4, <1>21, <2>2, <2>3 DEF ListenerDies
<1>22. CASE UNCHANGED vars
  BY <1>1, <1>2, <1>22 DEF vars
<1> QED
  BY <1>5, <1>6, <1>7, <1>8, <1>9, <1>10, <1>11, <1>12, <1>13, <1>14, <1>15, <1>16, <1>17, <1>18,
     <1>19, <1>20, <1>21, <1>22 DEF Next, PageStep, BroadcastStep

\* The variables keep their types, for any number of documents, sockets and polls:
\* the page's state and refs, the sockets, and the sets of ws_manager.
THEOREM TypeCorrect == Spec => []TypeOK
<1>1. Init => TypeOK
  <2>1. FreshPage \in PageType
    BY DEF FreshPage, PageType
  <2>2. NoPoll \in PollType /\ 0 \in 0..MaxReconnects
    BY BoundsAssumption DEF NoPoll, PollType, Answers
  <2>3. IdleRelay \in RelayType
    BY DEF IdleRelay, RelayType
  <2> QED
    BY <2>1, <2>2, <2>3 DEF Init, TypeOK, HookType
<1>2. TypeOK /\ [Next]_vars => TypeOK'
  BY NextTypeOK
<1> QED
  BY <1>1, <1>2, PTL DEF Spec

-----------------------------------------------------------------------------
(* One client's failure *)

\* A broadcast that is over without its set of sockets having changed has visited all
\* of them: send_json to a client that is gone ends nothing (broadcast, ws_manager.py).
THEOREM FailureStaysAlone == Spec => OneFailureOneLoss
<1> USE DEF pageVars, hookVars, runVars, serverVars
<1> DEFINE Loses == Broadcasting /\ relay' = IdleRelay /\ ~SetChanged => Unvisited = {}
<1>1. TypeOK /\ [Next]_vars => [Loses]_vars
  <2> SUFFICES ASSUME TypeOK, Next, Broadcasting, relay' = IdleRelay
               PROVE  SetChanged \/ Unvisited = {}
    OBVIOUS
  <2>1. relay' # relay /\ relay \in RelayType
    BY DEF Broadcasting, TypeOK
  <2>2. ASSUME NEW d \in Docs,
               StartAnalysis(d) \/ PageStep(d) \/ UploadFails(d) \/ AcceptUpload(d) \/ SettleRun(d)
               \/ PublishOutcome(d)
        PROVE  FALSE
    BY <2>1, <2>2 DEF StartAnalysis, PageStep, UploadDone, TimerFires, ReadResult, TakeAnswer,
       UploadFails, AcceptUpload, SettleRun, PublishOutcome
  <2>3. ASSUME NEW s \in Sockets,
               SocketOpens(s) \/ SocketBreaks(s) \/ SocketClosed(s) \/ Reconnect(s) \/ SocketMessage(s)
        PROVE  FALSE
    BY <2>1, <2>3 DEF SocketOpens, SocketBreaks, SocketClosed, Reconnect, SocketMessage
  <2>4. ASSUME NEW s \in Sockets, NoticeDisconnect(s)
        PROVE  FALSE
    <3>1. relay' = [relay EXCEPT !.orphan = TRUE]
      BY <2>1, <2>4 DEF NoticeDisconnect
    <3>2. relay'.orphan
      BY <2>1, <3>1 DEF RelayType
    <3> QED
      BY <3>2 DEF IdleRelay
  <2>5. ASSUME NEW s \in Sockets, SendNext(s)
        PROVE  FALSE
    <3>1. s \in relay'.visited
      BY <2>1, <2>5 DEF SendNext, RelayType
    <3> QED
      BY <3>1 DEF IdleRelay
  <2>6. PressReset \/ ListenerDies \/ BeginBroadcast => FALSE
    BY <2>1 DEF PressReset, ListenerDies, BeginBroadcast, Broadcasting
  <2>7. BroadcastRaises \/ EndBroadcast => SetChanged \/ Unvisited = {}
    BY DEF BroadcastRaises, EndBroadcast
  <2> QED
    BY <2>2, <2>3, <2>4, <2>5, <2>6, <2>7 DEF Next, BroadcastStep
<1> QED
  BY <1>1, TypeCorrect, PTL DEF Spec, OneFailureOneLoss

-----------------------------------------------------------------------------
(* A user who waits: what the page tells *)

\* The poll of d belongs to the file on the page, the last timer is its own, its
\* answer is what the row said, and no socket of d was opened before its upload.
PollFollows(d) ==
    /\ poll[d].step \notin {"none", "over"} => d = page.file
    /\ poll[d].step = "uploading" => page.status = "uploading"
    /\ poll[d].step = "waiting" => page.timer = d
    /\ poll[d].step \in {"none", "uploading"} =>
          \A s \in Sockets : Doc(s) = d => sock[s] = "unused"
    /\ poll[d].answer \in {"completed", "failed"} => run[d] = poll[d].answer
    /\ poll[d].answer = "gone" => "gone" \in Faults

RunFollows(d) ==
    /\ announced[d] => run[d] \in Outcomes
    /\ run[d] # "none" /\ ~announced[d] => d = page.file

\* Every event under way is about the file on the page.
OnItsWay(d) == d = page.file /\ announced[d]

EventsFollow ==
    /\ \A s \in wire : OnItsWay(Doc(s))
    /\ \A i \in 1..Len(channel) : OnItsWay(channel[i])
    /\ relay.doc # "none" => OnItsWay(relay.doc)
    /\ relay.doc = "none" => relay = IdleRelay

\* The inductive invariant behind PageTellsOutcome: one analysis
\* at a time is under way, the one of the file on the page.
PageFollows ==
    /\ \A d \in Docs : PollFollows(d) /\ RunFollows(d)
    /\ EventsFollow
    /\ PageTellsOutcome

LEMMA PageFields ==
    ASSUME NEW p \in PageType, NEW d \in Docs
    PROVE  /\ Analyzing(p, d).file = d /\ Analyzing(p, d).status = "uploading"
           /\ Analyzing(p, d).history = p.history /\ Analyzing(p, d).timer = p.timer
           /\ UploadAccepted(p, d).file = p.file /\ UploadAccepted(p, d).status = "processing"
           /\ UploadAccepted(p, d).timer = d /\ UploadAccepted(p, d).active = d
           /\ UploadAccepted(p, d).history = p.history
           /\ Failed(p).file = p.file /\ Failed(p).status = "failed"
           /\ Failed(p).history = p.history /\ Failed(p).timer = p.timer
           /\ Completed(p, d).file = p.file /\ Completed(p, d).status = "completed"
           /\ Completed(p, d).shown = d /\ Completed(p, d).timer = p.timer
           /\ \A entry \in Completed(p, d).history :
                 \/ entry \in p.history
                 \/ p.file # "none" /\ entry = [file |-> p.file, doc |-> d]
<1>1. /\ Analyzing(p, d).file = d /\ Analyzing(p, d).status = "uploading"
      /\ Analyzing(p, d).history = p.history /\ Analyzing(p, d).timer = p.timer
  BY DEF Analyzing, PageType
<1>2. /\ UploadAccepted(p, d).file = p.file /\ UploadAccepted(p, d).status = "processing"
      /\ UploadAccepted(p, d).timer = d /\ UploadAccepted(p, d).active = d
      /\ UploadAccepted(p, d).history = p.history
  BY DEF UploadAccepted, PageType
<1>3. /\ Failed(p).file = p.file /\ Failed(p).status = "failed"
      /\ Failed(p).history = p.history /\ Failed(p).timer = p.timer
  BY DEF Failed, PageType
<1>4. /\ Completed(p, d).file = p.file /\ Completed(p, d).status = "completed"
      /\ Completed(p, d).shown = d /\ Completed(p, d).timer = p.timer
      /\ \A entry \in Completed(p, d).history :
            \/ entry \in p.history
            \/ p.file # "none" /\ entry = [file |-> p.file, doc |-> d]
  <2> DEFINE shown == [p EXCEPT !.shown = d, !.status = "completed"]
  <2>1. /\ shown \in PageType /\ shown.shown = d /\ shown.status = "completed"
        /\ shown.file = p.file /\ shown.timer = p.timer /\ shown.history = p.history
    BY DEF PageType
  <2> HIDE DEF shown
  <2>2. /\ SaveEffect(shown).file = shown.file /\ SaveEffect(shown).status = shown.status
        /\ SaveEffect(shown).shown = shown.shown /\ SaveEffect(shown).timer = shown.timer
        /\ \/ SaveEffect(shown).history = shown.history
           \/ /\ shown.file # "none"
              /\ SaveEffect(shown).history
                    = shown.history \cup {[file |-> shown.file, doc |-> shown.shown]}
    BY <2>1 DEF SaveEffect, PageType
  <2>3. \A entry \in SaveEffect(shown).history :
            \/ entry \in p.history
            \/ p.file # "none" /\ entry = [file |-> p.file, doc |-> d]
    BY <2>1, <2>2
  <2>4. Completed(p, d) = SaveEffect(shown)
    BY DEF Completed, shown
  <2> QED
    BY <2>1, <2>2, <2>3, <2>4
<1> QED
  BY <1>1, <1>2, <1>3, <1>4

\* The poll of the file on the page goes on or ends, and the page becomes p.
LEMMA PollStepFollows ==
    ASSUME TypeOK, PageFollows, NEW d \in Docs, poll[d].step \notin {"none", "over"},
           NEW p \in PageType, Becomes(p), p.file = page.file,
           p.status = "processing" /\ HookInputs(p) # HookInputs(page) => p.active = d,
           NEW step \in {"waiting", "over"}, PollBecomes(d, step), step = "waiting" => p.timer = d,
           UNCHANGED <<wire, runVars, serverVars>>,
           p.status = "completed" => p.shown = d /\ run[d] = "completed",
           p.status = "failed" => \/ run[d] \in {"none", "failed"}
                                  \/ "gone" \in Faults
                                  \/ poll[d].attempts = MaxPolls
    PROVE  PageFollows'
<1> USE DEF runVars, serverVars
<1>1. poll \in [Docs -> PollType] /\ d = page.file /\ page' = p
      /\ \A e \in Docs : PollFollows(e) /\ RunFollows(e)
  BY DEF TypeOK, PageFollows, PollFollows, Becomes
<1>2. /\ poll'[d].step = step /\ poll'[d].answer = "none" /\ poll'[d].attempts = poll[d].attempts
      /\ \A e \in Docs : e # d => poll'[e] = poll[e]
  BY <1>1 DEF PollBecomes, PollType
<1>3. \A s \in Sockets : sock[s] = "unused" => sock'[s] = "unused" \/ Doc(s) = d
  BY EffectOK DEF Becomes
<1>4. ASSUME NEW e \in Docs
      PROVE  PollFollows(e)' /\ RunFollows(e)'
  <2>1. RunFollows(e)'
    BY <1>1 DEF RunFollows
  <2>2. CASE e = d
    <3>1. PollFollows(e)'
      BY <1>1, <1>2, <2>2 DEF PollFollows
    <3> QED
      BY <2>1, <3>1
  <2>3. CASE e # d
    <3>1. poll'[e] = poll[e] /\ poll[e].step \in {"none", "over"} /\ PollFollows(e)
      BY <1>1, <1>2, <2>3 DEF PollFollows
    <3>2. poll[e].step = "none" => \A s \in Sockets : Doc(s) = e => sock'[s] = "unused"
      BY <1>3, <2>3, <3>1 DEF PollFollows
    <3>3. PollFollows(e)'
      BY <3>1, <3>2 DEF PollFollows
    <3> QED
      BY <2>1, <3>3
  <2> QED
    BY <2>2, <2>3
<1>5. EventsFollow'
  BY <1>1 DEF PageFollows, EventsFollow, OnItsWay
<1>6. PageTellsOutcome'
  BY <1>1, <1>2 DEF PageTellsOutcome
<1> QED
  BY <1>4, <1>5, <1>6 DEF PageFollows

LEMMA PagePollsFollow ==
    ASSUME TypeOK, PageFollows, NEW d \in Docs, UploadFails(d) \/ PageStep(d)
    PROVE  PageFollows'
<1> USE DEF pageVars, hookVars, runVars, serverVars
<1>1. /\ page \in PageType /\ poll \in [Docs -> PollType] /\ PollFollows(d)
  BY DEF TypeOK, PageFollows
<1>2. poll[d].step \notin {"none", "over"} /\ UNCHANGED <<wire, runVars, serverVars>>
  BY DEF UploadFails, PageStep, UploadDone, TimerFires, ReadResult, TakeAnswer
<1>3. d = page.file
  BY <1>1, <1>2 DEF PollFollows
<1>4. /\ page.status = "completed" => page.shown = d /\ run[d] = "completed"
      /\ page.status = "failed" => \/ run[d] \in {"none", "failed"}
                                   \/ "gone" \in Faults
                                   \/ poll[d].attempts = MaxPolls
  BY <1>3 DEF PageFollows, PageTellsOutcome
<1>5. UNCHANGED <<page, hookVars>> => Becomes(page)
  BY DEF Becomes, SocketEffect
\* The page says the same, fails or shows the report of d.
<1>6. ASSUME NEW step \in {"waiting", "over"}, PollBecomes(d, step),
             \/ Becomes(page) /\ step = "over"
             \/ /\ Becomes(Failed(page)) /\ step = "over"
                /\ run[d] \in {"none", "failed"} \/ "gone" \in Faults \/ poll[d].attempts = MaxPolls
             \/ Becomes(Completed(page, d)) /\ step = "over" /\ run[d] = "completed"
      PROVE  PageFollows'
  <2>1. CASE Becomes(page)
    BY <1>1, <1>2, <1>4, <1>6, <2>1, PollStepFollows
  <2>2. CASE Becomes(Failed(page)) /\ ~Becomes(page)
    <3>1. Failed(page).file = page.file /\ Failed(page).status = "failed"
          /\ Failed(page).history = page.history /\ Failed(page) \in PageType
      BY <1>1, PageFields, PageUpdates
    <3>2. run[d] \in {"none", "failed"} \/ "gone" \in Faults \/ poll[d].attempts = MaxPolls
      <4>1. Becomes(Completed(page, d)) => Completed(page, d) = Failed(page)
        BY <2>2 DEF Becomes
      <4>2. Completed(page, d).status = "completed"
        BY <1>1, PageFields
      <4> QED
        BY <1>6, <2>2, <3>1, <4>1, <4>2
    <3>3. step = "over"
      BY <1>6, <2>2
    <3> QED
      BY <1>1, <1>2, <1>6, <2>2, <3>1, <3>2, <3>3, PollStepFollows
  <2>3. CASE Becomes(Completed(page, d)) /\ run[d] = "completed" /\ step = "over"
    <3>1. /\ Completed(page, d).file = page.file /\ Completed(page, d).status = "completed"
          /\ Completed(page, d).shown = d /\ Completed(page, d) \in PageType
      BY <1>1, PageFields, PageUpdates
    <3> QED
      BY <1>1, <1>2, <1>6, <2>3, <3>1, PollStepFollows
  <2> QED
    BY <1>6, <2>1, <2>2, <2>3
<1>7. CASE UploadDone(d)
  <2>1. /\ UploadAccepted(page, d).file = page.file /\ UploadAccepted(page, d).status = "processing"
        /\ UploadAccepted(page, d).active = d /\ UploadAccepted(page, d).timer = d
        /\ UploadAccepted(page, d).history = page.history /\ UploadAccepted(page, d) \in PageType
    BY <1>1, PageFields, PageUpdates
  <2>2. Becomes(UploadAccepted(page, d)) /\ PollBecomes(d, "waiting")
    BY <1>7 DEF UploadDone
  <2> QED
    BY <1>1, <1>2, <2>1, <2>2, PollStepFollows
<1>8. CASE UploadFails(d)
  BY <1>6, <1>8 DEF UploadFails
<1>9. CASE TimerFires(d)
  <2>1. CASE PollBecomes(d, "over")
    <3>1. poll[d].attempts >= MaxPolls => poll[d].attempts = MaxPolls
      BY <1>1, BoundsAssumption DEF PollType
    <3> QED
      BY <1>5, <1>6, <1>9, <2>1, <3>1 DEF TimerFires
  <2>2. CASE ~PollBecomes(d, "over")
    <3>1. /\ poll' = [poll EXCEPT ![d].step = "asking", ![d].attempts = @ + 1]
          /\ poll[d].attempts < MaxPolls /\ UNCHANGED <<page, hookVars>>
          /\ poll[d].step = "waiting"
      BY <1>9, <2>2 DEF TimerFires
    <3>2. /\ poll'[d].step = "asking" /\ poll'[d].answer = poll[d].answer
          /\ \A e \in Docs : e # d => poll'[e] = poll[e]
      BY <1>1, <3>1 DEF PollType
    <3>3. \A e \in Docs : PollFollows(e)'
      BY <1>1, <1>2, <3>1, <3>2 DEF PageFollows, PollFollows
    <3>4. \A e \in Docs : RunFollows(e)'
      BY <1>2, <3>1 DEF PageFollows, RunFollows
    <3>5. EventsFollow'
      BY <1>2, <3>1 DEF PageFollows, EventsFollow, OnItsWay
    <3>6. poll[d].attempts # MaxPolls
      BY <1>1, <3>1, BoundsAssumption DEF PollType
    <3>7. PageTellsOutcome'
      BY <1>2, <1>3, <1>4, <3>1, <3>6 DEF PageTellsOutcome
    <3> QED
      BY <3>3, <3>4, <3>5, <3>7 DEF PageFollows
  <2> QED
    BY <2>1, <2>2
<1>10. CASE ReadResult(d)
  <2>1. PICK answer \in {run[d], "lost"} \cup (IF "gone" \in Faults THEN {"gone"} ELSE {}) :
            poll' = [poll EXCEPT ![d].step = "answered", ![d].answer = answer]
    BY <1>10 DEF ReadResult
  <2>2. /\ poll'[d].step = "answered" /\ poll'[d].answer = answer
        /\ poll'[d].attempts = poll[d].attempts
        /\ \A e \in Docs : e # d => poll'[e] = poll[e]
        /\ UNCHANGED <<page, sock, wire, runVars, serverVars>>
    BY <1>1, <1>10, <2>1 DEF PollType, ReadResult
  <2>3. answer = "gone" => "gone" \in Faults
    BY <2>1 DEF TypeOK, Outcomes
  <2>4. answer \in {"completed", "failed"} => run[d] = answer
    BY <2>1
  <2>5. \A e \in Docs : PollFollows(e)'
    BY <1>1, <1>3, <2>2, <2>3, <2>4 DEF PageFollows, PollFollows
  <2>6. \A e \in Docs : RunFollows(e)'
    BY <2>2 DEF PageFollows, RunFollows
  <2>7. EventsFollow'
    BY <2>2 DEF PageFollows, EventsFollow, OnItsWay
  <2>8. PageTellsOutcome'
    BY <1>3, <1>4, <2>2 DEF PageTellsOutcome
  <2> QED
    BY <2>5, <2>6, <2>7, <2>8 DEF PageFollows
<1>11. CASE TakeAnswer(d)
  <2>1. CASE /\ PollBecomes(d, "over")
             /\ \/ Becomes(page)
                \/ Becomes(Completed(page, d)) /\ poll[d].answer = "completed"
                \/ Becomes(Failed(page)) /\ poll[d].answer \in {"failed", "gone"}
    BY <1>1, <1>6, <2>1 DEF PollFollows
  <2>2. CASE PollBecomes(d, "waiting") /\ Becomes([page EXCEPT !.timer = d])
    <3> DEFINE p == [page EXCEPT !.timer = d]
    <3>1. /\ p \in PageType /\ p.file = page.file /\ p.status = page.status /\ p.timer = d
          /\ p.active = page.active /\ p.shown = page.shown /\ p.history = page.history
      BY <1>1 DEF PageType
    <3>2. HookInputs(p) = HookInputs(page)
      BY <3>1 DEF HookInputs
    <3> HIDE DEF p
    <3>3. Becomes(p)
      BY <2>2 DEF p
    <3> QED
      BY <1>1, <1>2, <1>4, <2>2, <3>1, <3>2, <3>3, PollStepFollows
  <2> QED
    BY <1>5, <1>11, <2>1, <2>2 DEF TakeAnswer
<1> QED
  BY <1>7, <1>8, <1>9, <1>10, <1>11 DEF PageStep

\* clearTimeout ends at most a poll that was waiting.
LEMMA TimerClearedFields ==
    ASSUME TypeOK, poll' = TimerCleared
    PROVE  \A e \in Docs :
              /\ poll'[e].answer = poll[e].answer /\ poll'[e].attempts = poll[e].attempts
              /\ \/ poll'[e].step = poll[e].step
                 \/ poll[e].step = "waiting" /\ poll'[e].step = "over"
              /\ poll[e].step = "waiting" /\ page.timer = e => poll'[e].step = "over"
<1>1. poll \in [Docs -> PollType] /\ page \in PageType
  BY DEF TypeOK
<1>2. CASE page.timer # "none" /\ poll[page.timer].step = "waiting"
  <2>1. page.timer \in Docs /\ poll' = [poll EXCEPT ![page.timer].step = "over"]
    BY <1>1, <1>2 DEF TimerCleared, PageType
  <2> QED
    BY <1>1, <1>2, <2>1 DEF PollType
<1>3. CASE ~(page.timer # "none" /\ poll[page.timer].step = "waiting")
  <2>1. poll' = poll
    BY <1>3 DEF TimerCleared
  <2> QED
    BY <1>3, <2>1, NoDocAssumption
<1> QED
  BY <1>2, <1>3

\* Nothing but the sockets and the events changes: events only arrive or get lost.
LEMMA QuietStepFollows ==
    ASSUME TypeOK, PageFollows, UNCHANGED <<pageVars, runVars>>,
           \A s \in Sockets : sock[s] = "unused" => sock'[s] = "unused" \/
                                                    poll[Doc(s)].step \notin {"none", "uploading"},
           EventsFollow'
    PROVE  PageFollows'
<1> USE DEF pageVars, runVars
<1>1. ASSUME NEW d \in Docs
      PROVE  PollFollows(d)' /\ RunFollows(d)'
  <2>1. PollFollows(d) /\ RunFollows(d)
    BY DEF PageFollows
  <2>2. poll[d].step \in {"none", "uploading"} =>
            \A s \in Sockets : Doc(s) = d => sock'[s] = "unused"
    BY <2>1 DEF PollFollows
  <2> QED
    BY <2>1, <2>2 DEF PollFollows, RunFollows
<1>2. PageTellsOutcome'
  BY DEF PageFollows, PageTellsOutcome
<1> QED
  BY <1>1, <1>2 DEF PageFollows

LEMMA SocketMessageFollows ==
    ASSUME TypeOK, PageFollows, NEW s \in Sockets, SocketMessage(s)
    PROVE  PageFollows'
<1> USE DEF pageVars, hookVars, runVars, serverVars
<1> DEFINE d == Doc(s)
<1>1. /\ page \in PageType /\ poll \in [Docs -> PollType] /\ d \in Docs
      /\ s \in wire /\ wire' = wire \ {s} /\ UNCHANGED <<runVars, serverVars>>
  BY NextSocket DEF TypeOK, PageFollows, SocketMessage
<1>2. d = page.file /\ announced[d]
  BY <1>1 DEF PageFollows, EventsFollow, OnItsWay
<1>3. run[d] \in Outcomes
  BY <1>1, <1>2 DEF PageFollows, RunFollows
<1>4. CASE UNCHANGED <<pageVars, hookVars>>
  <2>1. EventsFollow'
    BY <1>1, <1>4 DEF PageFollows, EventsFollow, OnItsWay
  <2> QED
    BY <1>1, <1>4, <2>1, QuietStepFollows
<1>5. CASE ~UNCHANGED <<pageVars, hookVars>>
  <2> DEFINE p == IF run[d] = "completed" THEN Completed(page, d) ELSE Failed(page)
  <2>1. sock[s] = "open" /\ run[d] # "cancelled" /\ Becomes(p) /\ poll' = TimerCleared
    BY <1>5 DEF SocketMessage
  <2>2. p \in PageType
    BY <1>1, PageUpdates
  <2>3. /\ Failed(page).file = page.file /\ Failed(page).status = "failed"
        /\ Failed(page).history = page.history /\ Failed(page).timer = page.timer
    BY <1>1, PageFields
  <2>4. /\ Completed(page, d).file = page.file /\ Completed(page, d).status = "completed"
        /\ Completed(page, d).shown = d /\ Completed(page, d).timer = page.timer
    BY <1>1, PageFields
  <2>6. /\ p.file = d /\ p.timer = page.timer /\ p.status \in {"completed", "failed"}
        /\ p.status = "completed" => p.shown = d /\ run[d] = "completed"
        /\ p.status = "failed" => run[d] = "failed"
    BY <1>1, <1>2, <1>3, <2>1, <2>3, <2>4 DEF Outcomes
  <2> HIDE DEF p
  <2>7. page' = p /\ \A x \in Sockets : sock[x] = "unused" => sock'[x] = "unused"
    BY <2>1, <2>2, <2>6, EffectOK DEF Becomes
  <2>8. \A e \in Docs : poll[e].step # "uploading"
    <3>1. poll[d].step # "uploading"
      BY <1>1, <2>1 DEF PageFollows, PollFollows
    <3> QED
      BY <1>2, <3>1 DEF PageFollows, PollFollows
  <2>9. ASSUME NEW e \in Docs
        PROVE  PollFollows(e)' /\ RunFollows(e)'
    <3>1. PollFollows(e) /\ RunFollows(e) /\ poll[e].step # "uploading"
      BY <2>8 DEF PageFollows
    <3>2. /\ poll'[e].answer = poll[e].answer
          /\ \/ poll'[e].step = poll[e].step
             \/ poll[e].step = "waiting" /\ poll'[e].step = "over"
      BY <2>1, TimerClearedFields
    <3>3. RunFollows(e)'
      BY <1>1, <1>2, <2>6, <2>7, <3>1 DEF RunFollows
    <3>4. poll'[e].step \in {"none", "uploading"} =>
              \A x \in Sockets : Doc(x) = e => sock'[x] = "unused"
      BY <2>7, <3>1, <3>2 DEF PollFollows
    <3>5. PollFollows(e)'
      BY <1>1, <1>2, <2>6, <2>7, <3>1, <3>2, <3>4 DEF PollFollows
    <3> QED
      BY <3>3, <3>5
  <2>10. EventsFollow'
    BY <1>1, <1>2, <2>6, <2>7 DEF PageFollows, EventsFollow, OnItsWay
  <2>11. PageTellsOutcome'
    BY <1>1, <2>6, <2>7 DEF PageTellsOutcome
  <2> QED
    BY <2>9, <2>10, <2>11 DEF PageFollows
<1> QED
  BY <1>4, <1>5

\* The user acts when nothing is under way, so nothing speaks of the earlier file.
LEMMA UserFollows ==
    ASSUME UserWaits, TypeOK, PageFollows, PressReset \/ \E d \in Docs : StartAnalysis(d)
    PROVE  PageFollows'
<1> USE DEF pageVars, hookVars, runVars, serverVars
<1>1. /\ page \in PageType /\ poll \in [Docs -> PollType] /\ channel \in Seq(Docs)
      /\ \A e \in Docs : PollFollows(e) /\ RunFollows(e)
      /\ UNCHANGED <<wire, runVars, serverVars>>
  BY DEF TypeOK, PageFollows, PressReset, StartAnalysis
<1>2. NothingUnderWay
  BY DEF PressReset, StartAnalysis, UserMayAct
<1>3. /\ wire = {} /\ channel = <<>> /\ relay.doc = "none"
      /\ \A e \in Docs : /\ poll[e].step \in {"none", "waiting", "over"}
                         /\ poll[e].step = "waiting" => Pending(page)
                         /\ run[e] # "none" => announced[e]
  BY <1>2 DEF NothingUnderWay, IdleRelay
<1>4. EventsFollow'
  <2>1. relay = IdleRelay /\ Len(channel) = 0
    BY <1>2, <1>3 DEF NothingUnderWay
  <2> QED
    BY <1>1, <1>3, <2>1 DEF EventsFollow
<1>5. \A e \in Docs : RunFollows(e)'
  BY <1>1, <1>3 DEF RunFollows
<1>6. ASSUME NEW d \in Docs, StartAnalysis(d)
      PROVE  PageFollows'
  <2>1. /\ Analyzing(page, d).file = d /\ Analyzing(page, d).status = "uploading"
        /\ Analyzing(page, d).history = page.history /\ Analyzing(page, d) \in PageType
    BY <1>1, PageFields, PageUpdates
  <2>2. /\ Becomes(Analyzing(page, d)) /\ PollBecomes(d, "uploading")
        /\ poll[d].step = "none" /\ ~Pending(page)
    BY <1>6 DEF StartAnalysis, OffersUpload
  <2>3. /\ page' = Analyzing(page, d)
        /\ \A x \in Sockets : sock[x] = "unused" => sock'[x] = "unused"
    BY <2>1, <2>2, EffectOK DEF Becomes
  <2>4. /\ poll'[d].step = "uploading" /\ poll'[d].answer = "none"
        /\ \A e \in Docs : e # d => poll'[e] = poll[e]
    BY <1>1, <2>2 DEF PollBecomes, PollType
  <2>5. ASSUME NEW e \in Docs
        PROVE  PollFollows(e)'
    <3>1. PollFollows(e) /\ (poll[e].step \in {"none", "over"})
      BY <1>1, <1>3, <2>2
    <3>2. poll[e].step = "none" => \A x \in Sockets : Doc(x) = e => sock'[x] = "unused"
      BY <2>3, <3>1 DEF PollFollows
    <3>3. CASE e = d
      BY <2>1, <2>2, <2>3, <2>4, <3>2, <3>3 DEF PollFollows
    <3>4. CASE e # d
      BY <1>1, <2>4, <3>1, <3>2, <3>4 DEF PollFollows
    <3> QED
      BY <3>3, <3>4
  <2>6. PageTellsOutcome'
    BY <1>1, <2>1, <2>3 DEF PageTellsOutcome
  <2> QED
    BY <1>4, <1>5, <2>5, <2>6 DEF PageFollows
<1>7. CASE PressReset
  <2>1. PICK p \in PageType : /\ Becomes(p) /\ p.status = "idle" /\ p.history = page.history
                              /\ poll' = TimerCleared
    <3>1. \A b \in BOOLEAN : /\ Reset(page, b) \in PageType /\ Reset(page, b).status = "idle"
                             /\ Reset(page, b).history = page.history
      BY <1>1 DEF Reset, PageType
    <3> QED
      BY <1>7, <3>1 DEF PressReset
  <2>2. page' = p /\ \A x \in Sockets : sock[x] = "unused" => sock'[x] = "unused"
    BY <2>1, EffectOK DEF Becomes
  <2>3. ASSUME NEW e \in Docs
        PROVE  PollFollows(e)'
    <3>1. PollFollows(e) /\ poll[e].step \in {"none", "waiting", "over"}
      BY <1>1, <1>3
    <3>2. /\ poll'[e].answer = poll[e].answer
          /\ \/ poll'[e].step = poll[e].step
             \/ poll[e].step = "waiting" /\ poll'[e].step = "over"
          /\ poll[e].step = "waiting" /\ page.timer = e => poll'[e].step = "over"
      BY <2>1, TimerClearedFields
    <3>3. poll'[e].step \in {"none", "over"} /\ (poll'[e].step = "none" => poll[e].step = "none")
      BY <3>1, <3>2 DEF PollFollows
    <3>4. poll[e].step = "none" => \A x \in Sockets : Doc(x) = e => sock'[x] = "unused"
      BY <2>2, <3>1 DEF PollFollows
    <3> QED
      BY <1>1, <3>1, <3>2, <3>3, <3>4 DEF PollFollows
  <2>4. PageTellsOutcome'
    BY <1>1, <2>1, <2>2 DEF PageTellsOutcome
  <2> QED
    BY <1>4, <1>5, <2>3, <2>4 DEF PageFollows
<1> QED
  BY <1>6, <1>7

\* The upload is accepted, the run settles and publishes.
LEMMA RunStepFollows ==
    ASSUME TypeOK, PageFollows, NEW d \in Docs,
           AcceptUpload(d) \/ SettleRun(d) \/ PublishOutcome(d)
    PROVE  PageFollows'
<1> USE DEF pageVars, hookVars, runVars, serverVars
<1>1. /\ page \in PageType /\ poll \in [Docs -> PollType] /\ channel \in Seq(Docs)
      /\ run \in [Docs -> {"none", "processing"} \cup Outcomes] /\ announced \in [Docs -> BOOLEAN]
      /\ \A e \in Docs : PollFollows(e) /\ RunFollows(e)
      /\ UNCHANGED <<page, poll, sock, wire, relay>>
  BY DEF TypeOK, PageFollows, AcceptUpload, SettleRun, PublishOutcome
<1>3. CASE AcceptUpload(d)
  <2>1. /\ poll[d].step = "uploading" /\ run[d] = "none" /\ UNCHANGED <<announced, channel>>
        /\ run' = [run EXCEPT ![d] = "processing"]
    BY <1>3 DEF AcceptUpload
  <2>2. d = page.file /\ page.status = "uploading" /\ ~announced[d]
    BY <1>1, <2>1 DEF PollFollows, RunFollows, Outcomes
  <2>3. run'[d] = "processing" /\ \A e \in Docs : e # d => run'[e] = run[e]
    BY <1>1, <2>1
  <2>4. ASSUME NEW e \in Docs
        PROVE  PollFollows(e)' /\ RunFollows(e)'
    <3>1. RunFollows(e)'
      BY <1>1, <2>1, <2>2, <2>3 DEF RunFollows
    <3>2. poll[e].answer \in {"completed", "failed"} => e # d
      BY <1>1, <2>1 DEF PollFollows
    <3>3. PollFollows(e)'
      BY <1>1, <2>3, <3>2 DEF PollFollows
    <3> QED
      BY <3>1, <3>3
  <2>5. EventsFollow' /\ PageTellsOutcome'
    BY <1>1, <2>1, <2>2 DEF PageFollows, EventsFollow, OnItsWay, PageTellsOutcome
  <2> QED
    BY <2>4, <2>5 DEF PageFollows
<1>4. CASE SettleRun(d)
  <2>1. PICK outcome \in Outcomes : /\ run[d] = "processing" /\ UNCHANGED <<announced, channel>>
                                    /\ run' = [run EXCEPT ![d] = outcome]
    BY <1>4 DEF SettleRun
  <2>2. run'[d] = outcome /\ \A e \in Docs : e # d => run'[e] = run[e]
    BY <1>1, <2>1
  <2>3. ASSUME NEW e \in Docs
        PROVE  PollFollows(e)' /\ RunFollows(e)'
    <3>1. RunFollows(e)'
      BY <1>1, <2>1, <2>2 DEF RunFollows
    <3>2. poll[e].answer \in {"completed", "failed"} => e # d
      BY <1>1, <2>1 DEF PollFollows
    <3>3. PollFollows(e)'
      BY <1>1, <2>2, <3>2 DEF PollFollows
    <3> QED
      BY <3>1, <3>3
  <2>4. EventsFollow'
    BY <1>1, <2>1 DEF PageFollows, EventsFollow, OnItsWay
  <2>5. PageTellsOutcome'
    <3>1. CASE page.file = d
      BY <1>1, <2>1, <3>1 DEF PageFollows, PageTellsOutcome
    <3>2. CASE page.file # d
      BY <1>1, <2>1, <3>2 DEF PageFollows, PageTellsOutcome
    <3> QED
      BY <3>1, <3>2
  <2> QED
    BY <2>3, <2>4, <2>5 DEF PageFollows
<1>5. CASE PublishOutcome(d)
  <2>1. /\ run[d] \in Outcomes /\ ~announced[d] /\ UNCHANGED run
        /\ announced' = [announced EXCEPT ![d] = TRUE]
        /\ channel' = channel \/ channel' = Append(channel, d)
    BY <1>5 DEF PublishOutcome
  <2>2. d = page.file
    BY <1>1, <2>1 DEF RunFollows, Outcomes
  <2>3. announced'[d] /\ \A e \in Docs : announced[e] => announced'[e]
    BY <1>1, <2>1
  <2>4. \A e \in Docs : PollFollows(e)'
    BY <1>1, <2>1 DEF PollFollows
  <2>5. \A e \in Docs : RunFollows(e)'
    BY <1>1, <2>1, <2>3 DEF RunFollows
  <2>6. EventsFollow'
    <3>1. page.file = d /\ announced'[d] /\ UNCHANGED <<page, wire, relay>>
      BY <1>1, <2>2, <2>3
    <3>2. \A i \in 1..Len(channel) : channel[i] = d
      BY <2>2 DEF PageFollows, EventsFollow, OnItsWay
    <3>3. \A i \in 1..Len(channel') : channel'[i] = d
      <4>1. CASE channel' = channel
        BY <3>2, <4>1
      <4>2. CASE channel' = Append(channel, d)
        <5>1. /\ Len(channel') = Len(channel) + 1 /\ Len(channel) \in Nat
              /\ \A i \in 1..Len(channel) : channel'[i] = channel[i]
              /\ channel'[Len(channel) + 1] = d
          BY <1>1, <4>2, AppendProperties
        <5> QED
          BY <3>2, <5>1
      <4> QED
        BY <2>1, <4>1, <4>2
    <3>4. \A x \in wire : Doc(x) = d
      BY <2>2 DEF PageFollows, EventsFollow, OnItsWay
    <3>5. /\ relay.doc # "none" => relay.doc = d
          /\ relay.doc = "none" => relay = IdleRelay
      BY <2>2 DEF PageFollows, EventsFollow, OnItsWay
    <3> QED
      BY <3>1, <3>3, <3>4, <3>5 DEF EventsFollow, OnItsWay
  <2>7. PageTellsOutcome'
    BY <1>1, <2>1 DEF PageFollows, PageTellsOutcome
  <2> QED
    BY <2>4, <2>5, <2>6, <2>7 DEF PageFollows
<1> QED
  BY <1>3, <1>4, <1>5

\* Sockets open, break, close and open again; the relay passes events on or loses them.
LEMMA DeliveryFollows ==
    ASSUME TypeOK, PageFollows,
           \/ \E s \in Sockets : \/ SocketOpens(s) \/ SocketBreaks(s) \/ SocketClosed(s)
                                 \/ Reconnect(s) \/ NoticeDisconnect(s)
           \/ BroadcastStep \/ ListenerDies \/ UNCHANGED vars
    PROVE  PageFollows'
<1> USE DEF pageVars, hookVars, runVars, serverVars
<1>1. /\ sock \in [Sockets -> SocketSteps] /\ channel \in Seq(Docs) /\ relay \in RelayType
      /\ members \in [Docs -> SUBSET Sockets] /\ (\A d \in Docs : \A s \in members[d] : Doc(s) = d)
      /\ \A s \in wire : OnItsWay(Doc(s))
      /\ \A i \in 1..Len(channel) : OnItsWay(channel[i])
      /\ relay.doc # "none" => OnItsWay(relay.doc)
      /\ relay.doc = "none" => relay = IdleRelay
  BY DEF TypeOK, SocketSteps, PageFollows, EventsFollow
<1>2. ASSUME UNCHANGED <<pageVars, runVars>>,
             \A s \in Sockets : sock[s] = "unused" => sock'[s] = "unused" \/
                                                      poll[Doc(s)].step \notin {"none", "uploading"},
             \A s \in wire' : OnItsWay(Doc(s)),
             \A i \in 1..Len(channel') : OnItsWay(channel'[i]),
             relay'.doc # "none" => OnItsWay(relay'.doc),
             relay'.doc = "none" => relay' = IdleRelay
      PROVE  PageFollows'
  <2>1. EventsFollow'
    BY <1>2 DEF EventsFollow, OnItsWay
  <2> QED
    BY <1>2, <2>1, QuietStepFollows
<1>3. ASSUME NEW s \in Sockets, SocketOpens(s) \/ SocketBreaks(s) \/ SocketClosed(s)
      PROVE  PageFollows'
  <2>1. sock[s] # "unused" /\ \A x \in Sockets : x # s => sock'[x] = sock[x]
    BY <1>1, <1>3 DEF SocketOpens, SocketBreaks, SocketClosed, Alive
  <2>2. UNCHANGED <<pageVars, runVars, channel, relay>> /\ wire' \subseteq wire
    BY <1>3 DEF SocketOpens, SocketBreaks, SocketClosed
  <2> QED
    BY <1>1, <1>2, <2>1, <2>2
<1>4. ASSUME NEW s \in Sockets, Reconnect(s)
      PROVE  PageFollows'
  <2> DEFINE next == <<Doc(s), s[2] + 1>>
  <2>1. sock[s] = "retry" /\ next \in Sockets /\ Doc(next) = Doc(s) /\ Doc(s) \in Docs
    BY <1>4, NextSocket DEF Reconnect, MayReconnect
  <2>2. poll[Doc(s)].step \notin {"none", "uploading"}
    BY <2>1 DEF PageFollows, PollFollows
  <2>3. sock' = [sock EXCEPT ![s] = "closed", ![next] = "connecting"]
    BY <1>4 DEF Reconnect
  <2> HIDE DEF next
  <2>4. \A x \in Sockets : x # s /\ x # next => sock'[x] = sock[x]
    BY <1>1, <2>1, <2>3
  <2>5. UNCHANGED <<pageVars, runVars, channel, relay, wire>>
    BY <1>4 DEF Reconnect
  <2> QED
    BY <1>1, <1>2, <2>1, <2>2, <2>4, <2>5
<1>5. ASSUME NEW s \in Sockets, NoticeDisconnect(s)
      PROVE  PageFollows'
  <2>1. relay'.doc = relay.doc
    BY <1>1, <1>5 DEF NoticeDisconnect, RelayType
  <2>2. UNCHANGED <<pageVars, runVars, sock, channel, wire>>
    BY <1>5 DEF NoticeDisconnect
  <2>3. relay.doc = "none" => relay' = relay
    BY <1>5, NextSocket, NoDocAssumption DEF NoticeDisconnect
  <2> QED
    BY <1>1, <1>2, <2>1, <2>2, <2>3
<1>6. CASE BeginBroadcast
  <2>1. /\ channel # <<>> /\ channel' = Tail(channel)
        /\ UNCHANGED <<pageVars, runVars, sock, wire>>
        /\ relay' = IdleRelay \/ \E n : relay' = [IdleRelay EXCEPT !.doc = Head(channel), !.size = n]
    BY <1>6 DEF BeginBroadcast
  <2>2. /\ Len(channel) \in Nat \ {0} /\ Head(channel) = channel[1] /\ Head(channel) \in Docs
        /\ Len(channel') = Len(channel) - 1
        /\ \A i \in 1..Len(channel') : channel'[i] = channel[i + 1]
    <3>1. Len(channel) \in Nat \ {0}
      BY <1>1, <2>1, EmptySeq
    <3>2. Head(channel) = channel[1]
      BY <1>1
    <3> QED
      BY <1>1, <2>1, <3>1, <3>2, HeadTailProperties
  <2>3. \A i \in 1..Len(channel') : OnItsWay(channel'[i])
    BY <1>1, <2>2
  <2>4. OnItsWay(Head(channel)) /\ Head(channel) # "none"
    BY <1>1, <2>2, NoDocAssumption
  <2>5. CASE relay' = IdleRelay
    <3>1. relay'.doc = "none"
      BY <2>5 DEF IdleRelay
    <3> QED
      BY <1>1, <1>2, <2>1, <2>3, <2>5, <3>1
  <2>6. ASSUME NEW n, relay' = [IdleRelay EXCEPT !.doc = Head(channel), !.size = n]
        PROVE  PageFollows'
    <3>1. relay'.doc = Head(channel)
      BY <2>6 DEF IdleRelay
    <3> QED
      BY <1>1, <1>2, <2>1, <2>3, <2>4, <3>1
  <2> QED
    BY <2>1, <2>5, <2>6
<1>7. ASSUME NEW s \in Sockets, SendNext(s)
      PROVE  PageFollows'
  <2>1. s \in members[relay.doc] /\ relay # IdleRelay /\ UNCHANGED <<pageVars, runVars, sock, channel>>
    BY <1>7 DEF SendNext, Broadcasting, Unvisited
  <2>2. relay'.doc = relay.doc
    BY <1>1, <1>7 DEF SendNext, RelayType
  <2>3. wire' \subseteq wire \cup {s}
    BY <1>7 DEF SendNext
  <2>4. relay.doc # "none" /\ OnItsWay(Doc(s))
    BY <1>1, <2>1 DEF RelayType
  <2> QED
    BY <1>1, <1>2, <2>1, <2>2, <2>3, <2>4
<1>8. CASE BroadcastRaises \/ EndBroadcast
  <2>1. /\ relay' = IdleRelay /\ relay'.doc = "none"
        /\ UNCHANGED <<pageVars, runVars, sock, wire, channel>>
    BY <1>8 DEF BroadcastRaises, EndBroadcast, IdleRelay
  <2> QED
    BY <1>1, <1>2, <2>1
<1>9. CASE ListenerDies
  <2>1. channel' = <<>> /\ UNCHANGED <<pageVars, runVars, sock, wire, relay>>
    BY <1>9 DEF ListenerDies
  <2> QED
    BY <1>1, <1>2, <2>1
<1>10. CASE UNCHANGED vars
  BY <1>1, <1>2, <1>10 DEF vars
<1> QED
  BY <1>3, <1>4, <1>5, <1>6, <1>7, <1>8, <1>9, <1>10 DEF BroadcastStep

LEMMA AlwaysFollows == ASSUME UserWaits PROVE Spec => []PageFollows
<1>1. Init => PageFollows
  <2> SUFFICES ASSUME Init PROVE PageFollows
    OBVIOUS
  <2>1. \A d \in Docs : PollFollows(d) /\ RunFollows(d)
    BY DEF Init, PollFollows, RunFollows, NoPoll
  <2>2. EventsFollow
    BY DEF Init, EventsFollow, IdleRelay
  <2>3. PageTellsOutcome
    BY DEF Init, PageTellsOutcome, FreshPage
  <2> QED
    BY <2>1, <2>2, <2>3 DEF PageFollows
<1>2. TypeOK /\ PageFollows /\ [Next]_vars => PageFollows'
  <2> SUFFICES ASSUME TypeOK, PageFollows, [Next]_vars PROVE PageFollows'
    OBVIOUS
  <2>1. CASE PressReset \/ \E d \in Docs : StartAnalysis(d)
    BY <2>1, UserFollows
  <2>2. ASSUME NEW d \in Docs, UploadFails(d) \/ PageStep(d)
        PROVE  PageFollows'
    BY <2>2, PagePollsFollow
  <2>3. ASSUME NEW d \in Docs, AcceptUpload(d) \/ SettleRun(d) \/ PublishOutcome(d)
        PROVE  PageFollows'
    BY <2>3, RunStepFollows
  <2>4. ASSUME NEW s \in Sockets, SocketMessage(s)
        PROVE  PageFollows'
    BY <2>4, SocketMessageFollows
  <2>5. CASE \/ \E s \in Sockets : \/ SocketOpens(s) \/ SocketBreaks(s) \/ SocketClosed(s)
                                   \/ Reconnect(s) \/ NoticeDisconnect(s)
             \/ BroadcastStep \/ ListenerDies \/ UNCHANGED vars
    BY <2>5, DeliveryFollows
  <2> QED
    BY <2>1, <2>2, <2>3, <2>4, <2>5 DEF Next
<1> QED
  BY <1>1, <1>2, TypeCorrect, PTL DEF Spec

\* For a user who waits: "completed" comes with the report of the file on the page and
\* "failed" with a reason, for no poll and no socket tells of an earlier file
\* (analyze and onWSMessage, AnalysisContext.tsx).
THEOREM PageTellsTheTruth == ASSUME UserWaits PROVE Spec => []PageTellsOutcome
<1>1. PageFollows => PageTellsOutcome
  BY DEF PageFollows
<1> QED
  BY <1>1, AlwaysFollows, PTL
-----------------------------------------------------------------------------
(* Any user: whose names the history keeps *)

\* The inductive invariant behind OnlyOvertakenMisnamed: what may still reach the
\* page is about the file on it, or about an overtaken document.
OthersOvertaken ==
    /\ \A d \in Docs : UnderWay(d) /\ page.file # "none" => d = page.file \/ d \in overtaken
    /\ relay.doc = "none" => relay = IdleRelay
    /\ OnlyOvertakenMisnamed

\* Nothing new is under way, the file on the page stays or goes, and the history
\* stays or takes in the report of an analysis that was under way.
LEMMA NothingNewUnderWay ==
    ASSUME OthersOvertaken, UNCHANGED overtaken,
           \A d \in Docs : UnderWay(d)' => UnderWay(d),
           page'.file \in {"none", page.file},
           relay'.doc = "none" => relay' = IdleRelay,
           \A entry \in page'.history :
               \/ entry \in page.history
               \/ \E d \in Docs : /\ UnderWay(d) /\ page.file # "none"
                                  /\ entry = [file |-> page.file, doc |-> d]
    PROVE  OthersOvertaken'
<1>1. \A d \in Docs : UnderWay(d)' /\ page'.file # "none" => d = page'.file \/ d \in overtaken'
  BY DEF OthersOvertaken
<1>2. OnlyOvertakenMisnamed'
  <2> SUFFICES ASSUME NEW entry \in page'.history
               PROVE  entry.file = entry.doc \/ entry.doc \in overtaken
    BY DEF OnlyOvertakenMisnamed
  <2>1. CASE entry \in page.history
    BY <2>1 DEF OthersOvertaken, OnlyOvertakenMisnamed
  <2>2. ASSUME NEW d \in Docs, UnderWay(d), page.file # "none",
               entry = [file |-> page.file, doc |-> d]
        PROVE  entry.file = entry.doc \/ entry.doc \in overtaken
    BY <2>2 DEF OthersOvertaken
  <2> QED
    BY <2>1, <2>2
<1> QED
  BY <1>1, <1>2 DEF OthersOvertaken

\* The page becomes what one of its updates makes of it: a report that is shown is
\* that of d.
LEMMA PageStepOvertakes ==
    ASSUME TypeOK, OthersOvertaken, UNCHANGED <<overtaken, relay>>, NEW d \in Docs, UnderWay(d),
           \A e \in Docs : UnderWay(e)' => UnderWay(e),
           \/ page' \in {page, UploadAccepted(page, d), Failed(page), Completed(page, d)}
           \/ page' = [page EXCEPT !.timer = d]
    PROVE  OthersOvertaken'
<1>1. page \in PageType
  BY DEF TypeOK
<1>2. [page EXCEPT !.timer = d].file = page.file /\ [page EXCEPT !.timer = d].history = page.history
  BY <1>1 DEF PageType
<1>3. /\ UploadAccepted(page, d).file = page.file /\ UploadAccepted(page, d).history = page.history
      /\ Failed(page).file = page.file /\ Failed(page).history = page.history
      /\ Completed(page, d).file = page.file
  BY <1>1, PageFields
<1>4. \A entry \in Completed(page, d).history :
          \/ entry \in page.history
          \/ page.file # "none" /\ entry = [file |-> page.file, doc |-> d]
  BY <1>1, PageFields
<1>5. page'.file = page.file
  BY <1>2, <1>3
<1>6. \A entry \in page'.history :
          \/ entry \in page.history
          \/ page.file # "none" /\ entry = [file |-> page.file, doc |-> d]
  <2>1. CASE page' = Completed(page, d)
    BY <1>4, <2>1
  <2>2. CASE page'.history = page.history
    BY <2>2
  <2> QED
    BY <1>2, <1>3, <2>1, <2>2
<1>7. relay'.doc = "none" => relay' = IdleRelay
  BY DEF OthersOvertaken
<1> QED
  BY <1>5, <1>6, <1>7, NothingNewUnderWay

LEMMA PollsOvertake ==
    ASSUME TypeOK, OthersOvertaken, NEW d \in Docs, PageStep(d) \/ UploadFails(d)
    PROVE  OthersOvertaken'
<1> USE DEF pageVars, hookVars, runVars, serverVars
<1>1. /\ poll \in [Docs -> PollType] /\ poll[d].step \notin {"none", "over"}
      /\ UNCHANGED <<wire, runVars, serverVars, overtaken>>
  BY DEF TypeOK, PageStep, UploadDone, TimerFires, ReadResult, TakeAnswer, UploadFails
<1>2. UnderWay(d)
  BY <1>1 DEF UnderWay
<1>3. \A e \in Docs : e # d => poll'[e] = poll[e]
  BY <1>1 DEF PageStep, UploadDone, TimerFires, ReadResult, TakeAnswer, UploadFails, PollBecomes
<1>4. \A e \in Docs : UnderWay(e)' => UnderWay(e)
  BY <1>1, <1>2, <1>3 DEF UnderWay
<1>5. \/ page' \in {page, UploadAccepted(page, d), Failed(page), Completed(page, d)}
      \/ page' = [page EXCEPT !.timer = d]
  BY DEF PageStep, UploadDone, TimerFires, ReadResult, TakeAnswer, UploadFails, Becomes
<1> QED
  BY <1>1, <1>2, <1>4, <1>5, PageStepOvertakes

LEMMA MessageOvertakes ==
    ASSUME TypeOK, OthersOvertaken, NEW s \in Sockets, SocketMessage(s)
    PROVE  OthersOvertaken'
<1> USE DEF pageVars, hookVars, runVars, serverVars
<1>1. /\ Doc(s) \in Docs /\ s \in wire /\ wire' \subseteq wire
      /\ UNCHANGED <<runVars, serverVars, overtaken>>
  BY NextSocket DEF SocketMessage
<1>2. UnderWay(Doc(s))
  BY <1>1 DEF UnderWay
<1>3. \A e \in Docs : poll'[e].step = poll[e].step \/ poll'[e].step = "over"
  <2>1. CASE poll' = poll
    BY <2>1
  <2>2. CASE poll' = TimerCleared
    BY <2>2, TimerClearedFields
  <2> QED
    BY <2>1, <2>2 DEF SocketMessage
<1>4. \A e \in Docs : UnderWay(e)' => UnderWay(e)
  BY <1>1, <1>3 DEF UnderWay
<1>5. page' \in {page, Failed(page), Completed(page, Doc(s))}
  BY DEF SocketMessage, Becomes
<1> QED
  BY <1>1, <1>2, <1>4, <1>5, PageStepOvertakes

\* Dropping a file overtakes what is under way; a reset takes the name off the page.
LEMMA UserOvertakes ==
    ASSUME TypeOK, OthersOvertaken, PressReset \/ \E d \in Docs : StartAnalysis(d)
    PROVE  OthersOvertaken'
<1> USE DEF pageVars, hookVars, runVars, serverVars
<1>1. page \in PageType /\ poll \in [Docs -> PollType]
  BY DEF TypeOK
<1>2. ASSUME NEW d \in Docs, StartAnalysis(d)
      PROVE  OthersOvertaken'
  <2>1. /\ page' = Analyzing(page, d) /\ UNCHANGED <<wire, runVars, serverVars>>
        /\ overtaken' = overtaken \cup {e \in Docs \ {d} : UnderWay(e)}
        /\ \A e \in Docs : e # d => poll'[e] = poll[e]
    BY <1>1, <1>2 DEF StartAnalysis, Becomes, PollBecomes
  <2>2. page'.file = d /\ page'.history = page.history
    BY <1>1, <2>1, PageFields
  <2>3. ASSUME NEW e \in Docs, UnderWay(e)'
        PROVE  e = page'.file \/ e \in overtaken'
    <3>1. e # d => UnderWay(e)
      BY <2>1, <2>3 DEF UnderWay
    <3> QED
      BY <2>1, <2>2, <3>1
  <2>4. OnlyOvertakenMisnamed'
    BY <2>1, <2>2 DEF OthersOvertaken, OnlyOvertakenMisnamed
  <2> QED
    BY <2>1, <2>3, <2>4 DEF OthersOvertaken
<1>3. CASE PressReset
  <2>1. PICK b \in BOOLEAN : page' = Reset(page, b)
    BY <1>3 DEF PressReset, Becomes
  <2>2. page'.file = "none" /\ page'.history = page.history
    BY <1>1, <2>1 DEF Reset, PageType
  <2>3. UNCHANGED <<relay, overtaken>>
    BY <1>3 DEF PressReset
  <2> QED
    BY <2>2, <2>3 DEF OthersOvertaken, OnlyOvertakenMisnamed
<1> QED
  BY <1>2, <1>3

\* The server: an event is about a run that has not announced, and is broadcast to
\* sockets of its own task.
LEMMA ServerOvertakes ==
    ASSUME TypeOK, OthersOvertaken,
           \/ \E d \in Docs : AcceptUpload(d) \/ SettleRun(d) \/ PublishOutcome(d)
           \/ \E s \in Sockets : \/ SocketOpens(s) \/ SocketBreaks(s) \/ SocketClosed(s)
                                 \/ Reconnect(s) \/ NoticeDisconnect(s)
           \/ BroadcastStep \/ ListenerDies \/ UNCHANGED vars
    PROVE  OthersOvertaken'
<1> USE DEF pageVars, hookVars, runVars, serverVars
<1>1. /\ run \in [Docs -> {"none", "processing"} \cup Outcomes] /\ announced \in [Docs -> BOOLEAN]
      /\ channel \in Seq(Docs) /\ relay \in RelayType
      /\ (\A d \in Docs : \A s \in members[d] : Doc(s) = d)
      /\ relay.doc = "none" => relay = IdleRelay
  BY DEF TypeOK, OthersOvertaken
<1>2. UNCHANGED <<page, poll, overtaken>>
  BY DEF AcceptUpload, SettleRun, PublishOutcome, SocketOpens, SocketBreaks, SocketClosed,
     Reconnect, NoticeDisconnect, BroadcastStep, BeginBroadcast, BroadcastRaises, EndBroadcast,
     SendNext, ListenerDies, vars
<1>3. ASSUME \A d \in Docs : UnderWay(d)' => UnderWay(d), relay'.doc = "none" => relay' = IdleRelay
      PROVE  OthersOvertaken'
  BY <1>2, <1>3, NothingNewUnderWay
<1>4. ASSUME UNCHANGED runVars, wire' \subseteq wire, channel' = channel \/ channel' = <<>>,
             relay'.doc = "none" => relay' = IdleRelay, relay'.doc \in {"none", relay.doc}
      PROVE  OthersOvertaken'
  <2>1. \A d \in Docs : UnderWay(d)' => UnderWay(d)
    <3>1. \A i \in 1..Len(channel') : i \in 1..Len(channel) /\ channel'[i] = channel[i]
      BY <1>4
    <3> QED
      BY <1>2, <1>4, <3>1, NoDocAssumption DEF UnderWay
  <2> QED
    BY <1>3, <1>4, <2>1
<1>5. ASSUME NEW d \in Docs, AcceptUpload(d) \/ SettleRun(d)
      PROVE  OthersOvertaken'
  <2>1. /\ UNCHANGED <<wire, serverVars, announced>>
        /\ run[d] # "none" \/ poll[d].step = "uploading"
        /\ \A e \in Docs : e # d => run'[e] = run[e]
    BY <1>1, <1>5 DEF AcceptUpload, SettleRun
  <2>2. \A e \in Docs : UnderWay(e)' => UnderWay(e)
    BY <1>2, <2>1 DEF UnderWay
  <2> QED
    BY <1>1, <1>3, <2>1, <2>2
<1>6. ASSUME NEW d \in Docs, PublishOutcome(d)
      PROVE  OthersOvertaken'
  <2>1. /\ run[d] # "none" /\ ~announced[d] /\ UNCHANGED <<run, wire, relay>>
        /\ announced' = [announced EXCEPT ![d] = TRUE]
        /\ channel' = channel \/ channel' = Append(channel, d)
    BY <1>6 DEF PublishOutcome, Outcomes
  <2>2. \A i \in 1..Len(channel') :
            channel'[i] = d \/ (i \in 1..Len(channel) /\ channel'[i] = channel[i])
    <3>1. CASE channel' = channel
      BY <3>1
    <3>2. CASE channel' = Append(channel, d)
      <4>1. /\ Len(channel') = Len(channel) + 1 /\ Len(channel) \in Nat
            /\ \A i \in 1..Len(channel) : channel'[i] = channel[i]
            /\ channel'[Len(channel) + 1] = d
        BY <1>1, <3>2, AppendProperties
      <4> QED
        BY <4>1
    <3> QED
      BY <2>1, <3>1, <3>2
  <2>3. UnderWay(d) /\ \A e \in Docs : announced[e] => announced'[e]
    BY <1>1, <2>1 DEF UnderWay
  <2>4. \A e \in Docs : UnderWay(e)' => UnderWay(e)
    BY <1>2, <2>1, <2>2, <2>3 DEF UnderWay
  <2> QED
    BY <1>1, <1>3, <2>1, <2>4
<1>7. ASSUME NEW s \in Sockets, \/ SocketOpens(s) \/ SocketBreaks(s) \/ SocketClosed(s) \/ Reconnect(s)
      PROVE  OthersOvertaken'
  <2>1. UNCHANGED <<runVars, channel, relay>> /\ wire' \subseteq wire
    BY <1>7 DEF SocketOpens, SocketBreaks, SocketClosed, Reconnect
  <2> QED
    BY <1>1, <1>4, <2>1
<1>8. ASSUME NEW s \in Sockets, NoticeDisconnect(s)
      PROVE  OthersOvertaken'
  <2>1. UNCHANGED <<runVars, wire, channel>>
    BY <1>8 DEF NoticeDisconnect
  <2>2. relay'.doc = relay.doc
    BY <1>1, <1>8 DEF NoticeDisconnect, RelayType
  <2>3. relay.doc = "none" => relay' = relay
    BY <1>8, NextSocket, NoDocAssumption DEF NoticeDisconnect
  <2> QED
    BY <1>1, <1>4, <2>1, <2>2, <2>3
<1>9. CASE BeginBroadcast
  <2>1. /\ channel # <<>> /\ channel' = Tail(channel) /\ UNCHANGED <<runVars, wire>>
        /\ relay' = IdleRelay \/ \E n : relay' = [IdleRelay EXCEPT !.doc = Head(channel), !.size = n]
    BY <1>9 DEF BeginBroadcast
  <2>2. relay' = IdleRelay \/ relay'.doc = Head(channel)
    BY <2>1 DEF IdleRelay
  <2>3. Len(channel) \in Nat \ {0}
    BY <1>1, <2>1, EmptySeq
  <2>4. /\ Head(channel) = channel[1] /\ channel[1] \in Docs /\ 1 \in 1..Len(channel)
        /\ \A i \in 1..Len(channel') : i + 1 \in 1..Len(channel) /\ channel'[i] = channel[i + 1]
    <3>1. /\ Len(channel') = Len(channel) - 1 /\ Head(channel) \in Docs
          /\ \A i \in 1..Len(channel') : channel'[i] = channel[i + 1]
      BY <1>1, <2>1, <2>3, HeadTailProperties
    <3>2. Head(channel) = channel[1]
      BY <1>1
    <3> QED
      BY <2>3, <3>1, <3>2
  <2>5. relay' = IdleRelay \/ (relay'.doc = channel[1] /\ relay'.doc # "none")
    BY <2>2, <2>4, NoDocAssumption
  <2>6. IdleRelay.doc = "none"
    BY DEF IdleRelay
  <2>7. \A d \in Docs : UnderWay(d)' => UnderWay(d)
    BY <1>2, <2>1, <2>4, <2>5, <2>6, NoDocAssumption DEF UnderWay
  <2> QED
    BY <1>3, <2>5, <2>7
<1>10. ASSUME NEW s \in Sockets, SendNext(s)
       PROVE  OthersOvertaken'
  <2>1. /\ s \in members[relay.doc] /\ relay # IdleRelay /\ wire' \subseteq wire \cup {s}
        /\ UNCHANGED <<runVars, channel>>
    BY <1>10 DEF SendNext, Broadcasting, Unvisited
  <2>2. relay'.doc = relay.doc /\ relay.doc \in Docs
    BY <1>1, <1>10, <2>1 DEF SendNext, RelayType
  <2>3. Doc(s) = relay.doc
    BY <1>1, <2>1, <2>2
  <2>4. \A d \in Docs : UnderWay(d)' => UnderWay(d)
    BY <1>2, <2>1, <2>2, <2>3 DEF UnderWay
  <2> QED
    BY <1>3, <2>2, <2>4, NoDocAssumption
<1>11. CASE BroadcastRaises \/ EndBroadcast
  <2>1. relay' = IdleRelay /\ relay'.doc = "none" /\ UNCHANGED <<runVars, wire, channel>>
    BY <1>11 DEF BroadcastRaises, EndBroadcast, IdleRelay
  <2> QED
    BY <1>4, <2>1
<1>12. CASE ListenerDies \/ UNCHANGED vars
  <2>1. UNCHANGED <<runVars, wire, relay>> /\ (channel' = channel \/ channel' = <<>>)
    BY <1>12 DEF ListenerDies, vars
  <2> QED
    BY <1>1, <1>4, <2>1
<1> QED
  BY <1>5, <1>6, <1>7, <1>8, <1>9, <1>10, <1>11, <1>12 DEF BroadcastStep

\* Whatever the user presses and when, whatever is lost, late or told twice: the
\* history keeps a report under its own file name, unless something of its analysis
\* was under way when the user dropped another file.  Such a report may get the other
\* file's name, as analyze clears the one cancelled flag of the page
\* (AnalysisContext.tsx; the effect of Dashboard.tsx).
THEOREM HistoryKeepsNames == Spec => []OnlyOvertakenMisnamed
<1>1. Init => OthersOvertaken
  <2> SUFFICES ASSUME Init PROVE OthersOvertaken
    OBVIOUS
  <2>1. page.file = "none" /\ page.history = {}
    BY DEF Init, FreshPage
  <2> QED
    BY <2>1 DEF Init, OthersOvertaken, OnlyOvertakenMisnamed
<1>2. TypeOK /\ OthersOvertaken /\ [Next]_vars => OthersOvertaken'
  <2> SUFFICES ASSUME TypeOK, OthersOvertaken, [Next]_vars PROVE OthersOvertaken'
    OBVIOUS
  <2>1. CASE PressReset \/ \E d \in Docs : StartAnalysis(d)
    BY <2>1, UserOvertakes
  <2>2. ASSUME NEW d \in Docs, PageStep(d) \/ UploadFails(d)
        PROVE  OthersOvertaken'
    BY <2>2, PollsOvertake
  <2>3. ASSUME NEW s \in Sockets, SocketMessage(s)
        PROVE  OthersOvertaken'
    BY <2>3, MessageOvertakes
  <2>4. CASE \/ \E d \in Docs : AcceptUpload(d) \/ SettleRun(d) \/ PublishOutcome(d)
             \/ \E s \in Sockets : \/ SocketOpens(s) \/ SocketBreaks(s) \/ SocketClosed(s)
                                   \/ Reconnect(s) \/ NoticeDisconnect(s)
             \/ BroadcastStep \/ ListenerDies \/ UNCHANGED vars
    BY <2>4, ServerOvertakes
  <2> QED
    BY <2>1, <2>2, <2>3, <2>4 DEF Next
<1>3. OthersOvertaken => OnlyOvertakenMisnamed
  BY DEF OthersOvertaken
<1> QED
  BY <1>1, <1>2, <1>3, TypeCorrect, PTL DEF Spec
=============================================================================
