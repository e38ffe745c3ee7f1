--------------------------- MODULE ConsoleProofs ---------------------------
(***************************************************************************)
(* Proofs about Console.tla, for any number of viewers, any output, input, *)
(* length of the log and number of failures: a session ends once and       *)
(* leaves nothing behind, and its viewers receive every chunk once; and    *)
(* about the cleaner of the job history (JobHistory), which lists once and *)
(* removes later: of a job that it has listed and that still is the one    *)
(* listed, the end lies in the past.                                       *)
(***************************************************************************)
EXTENDS Console, JobHistory, TLAPS

-----------------------------------------------------------------------------
(* The end of a session *)

Events == {"started", "connected", "completed", "closed", "failed"}
Opened == {"record", "done"}

NoEnd == \A i \in 1..Len(trail) : trail[i] \notin Ended
OneEnd == \A i, j \in 1..Len(trail) : trail[i] \in Ended /\ trail[j] \in Ended => i = j
EndsAre(status) == \A i \in 1..Len(trail) : trail[i] \in Ended => trail[i] = status

\* Somebody can call finishSession only once the session is registered.
Finishable == once # "free" \/ live \/ reader # "off" \/ \E v \in Viewers : viewer[v] # "away"

SessionIInv ==
    /\ trail \in Seq(Events) /\ verdict \in Ended
    /\ opening # "no" => command = "no"
    /\ Finishable => opening \in Opened
    /\ (once # "done" /\ opening # "refused" /\ command \in {"no", "run"}) => NoEnd
    /\ (once \in {"drop", "done"} /\ "save" \notin troubles) => sessionRow = verdict
    /\ OneEnd
    /\ (command = "no" /\ "save" \notin troubles) => EndsAre(sessionRow)
    /\ HeldIsUsed
    /\ (sessionRow = "connected" /\ troubles \cap {"save", "crash"} = {}) => live \/ opening = "register"

(* What an audit event adds to the trail.                                    *)
LEMMA TrailGrows ==
    ASSUME trail \in Seq(Events), NEW e \in Events, record(e)
    PROVE  /\ trail' \in Seq(Events)
           /\ (NoEnd /\ e \notin Ended) => NoEnd'
           /\ NoEnd => OneEnd' /\ EndsAre(e)'
           /\ e \notin Ended => (OneEnd => OneEnd') /\ \A status : EndsAre(status) => EndsAre(status)'
<1>1. /\ trail' \in Seq(Events) /\ Len(trail') = Len(trail) + 1 /\ trail'[Len(trail) + 1] = e /\ Len(trail) \in Nat
      /\ \A i \in 1..Len(trail) : trail'[i] = trail[i]
  BY DEF record
<1>2. \A i \in 1..Len(trail') : i \in 1..Len(trail) \/ i = Len(trail) + 1
  BY <1>1
<1>3. (NoEnd /\ e \notin Ended) => NoEnd'
  BY Zenon, <1>1, <1>2 DEF NoEnd
<1>4. NoEnd => OneEnd' /\ EndsAre(e)'
  BY Zenon, <1>1, <1>2 DEF NoEnd, OneEnd, EndsAre
<1>5. ASSUME e \notin Ended PROVE (OneEnd => OneEnd') /\ \A status : EndsAre(status) => EndsAre(status)'
  BY Zenon, <1>1, <1>2, <1>5 DEF OneEnd, EndsAre
<1> QED BY Zenon, <1>1, <1>3, <1>4, <1>5

(* Failures are not forgotten.                                               *)
LEMMA TroublesGrow ==
    ASSUME Fine \/ \E kind : Trouble(kind)
    PROVE  troubles \subseteq troubles'
  BY Zenon DEF Fine, Trouble

(* A step that leaves the trail and the row alone.                           *)
LEMMA TrailStays ==
    ASSUME SessionIInv, UNCHANGED <<trail, sessionRow>>, verdict' \in Ended, troubles \subseteq troubles',
           opening' # "no" => command' = "no",
           Finishable' => opening' \in Opened,
           (once' # "done" /\ opening' # "refused" /\ command' \in {"no", "run"}) =>
              (once # "done" /\ opening # "refused" /\ command \in {"no", "run"}),
           once' \in {"drop", "done"} => once \in {"drop", "done"} /\ verdict' = verdict,
           command' = "no" => command = "no",
           HeldIsUsed',
           live \/ opening = "register" => live' \/ opening' = "register" \/ "crash" \in troubles'
    PROVE  SessionIInv'
<1>1. /\ trail' \in Seq(Events) /\ (NoEnd => NoEnd') /\ OneEnd'
      /\ \A status : EndsAre(status) => EndsAre(status)'
  BY Zenon DEF SessionIInv, NoEnd, OneEnd, EndsAre
<1>2. (once' # "done" /\ opening' # "refused" /\ command' \in {"no", "run"}) => NoEnd'
  BY Zenon, <1>1 DEF SessionIInv
<1>3. (once' \in {"drop", "done"} /\ "save" \notin troubles') => sessionRow' = verdict'
  BY Zenon DEF SessionIInv
<1>4. (command' = "no" /\ "save" \notin troubles') => EndsAre(sessionRow)'
  <2>1. (command' = "no" /\ "save" \notin troubles') => EndsAre(sessionRow)
    BY Zenon DEF SessionIInv
  <2> QED BY Zenon, <2>1 DEF EndsAre
<1>5. (sessionRow' = "connected" /\ troubles' \cap {"save", "crash"} = {}) => live' \/ opening' = "register"
  BY Zenon DEF SessionIInv
<1> QED BY Zenon, <1>1, <1>2, <1>3, <1>4, <1>5 DEF SessionIInv

(* Reading, showing, joining and leaving do not touch the session.           *)
LEMMA AudienceSteps ==
    ASSUME SessionIInv,
           \/ AppendOutput \/ Share \/ Sent \/ ShellEnds \/ Abandon \/ SaveCommandEnd
           \/ \E v \in Viewers : \/ Send(v) \/ Join(v) \/ WriteHistory(v) \/ removeClient(v)
                                 \/ Lookup(v) \/ Drop(v) \/ Stall(v)
    PROVE  SessionIInv'
<1>1. /\ UNCHANGED <<trail, sessionRow, verdict, once, opening, live, held>> /\ troubles \subseteq troubles'
      /\ command' = command \/ (command \notin {"no", "run"} /\ command' \notin {"no", "run"})
  <2>1. CASE AppendOutput
    BY Zenon, <2>1, TroublesGrow DEF AppendOutput, appendLog, opener, finisher, commands
  <2>2. CASE Share \/ Sent \/ ShellEnds \/ Abandon
    BY Zenon, <2>2 DEF Share, Sent, ShellEnds, Abandon, opener, finisher, commands
  <2>3. CASE SaveCommandEnd
    BY Zenon, <2>3, TroublesGrow DEF SaveCommandEnd, opener, finisher
  <2>4. ASSUME NEW v \in Viewers, Send(v) \/ Join(v) \/ WriteHistory(v) \/ removeClient(v) \/ Lookup(v) \/ Drop(v) \/ Stall(v)
        PROVE  UNCHANGED <<trail, sessionRow, verdict, once, opening, live, held, troubles, command>>
    BY Zenon, <2>4 DEF Send, Join, WriteHistory, removeClient, Lookup, Drop, Stall, opener, finisher, commands
  <2> QED BY Zenon, <2>1, <2>2, <2>3, <2>4
<1>2. Finishable' => Finishable
  <2>1. CASE AppendOutput \/ Share \/ Sent
    BY Zenon, <2>1 DEF AppendOutput, Share, Sent, Finishable, finisher, audience
  <2>2. CASE ShellEnds \/ Abandon \/ SaveCommandEnd
    BY Zenon, <2>2 DEF ShellEnds, Abandon, SaveCommandEnd, Finishable, finisher, audience, output
  <2>3. ASSUME NEW v \in Viewers, Send(v) PROVE Finishable' => Finishable
    BY Zenon, <2>3 DEF Send, Finishable, finisher
  <2>4. ASSUME NEW v \in Viewers, Join(v) \/ WriteHistory(v) \/ removeClient(v) \/ Drop(v) \/ Stall(v) PROVE Finishable
    BY <2>4 DEF Join, WriteHistory, removeClient, Drop, Stall, Finishable
  <2>5. ASSUME NEW v \in Viewers, Lookup(v) PROVE Finishable
    BY Zenon, <2>5 DEF Lookup, Finishable
  <2> QED BY Zenon, <2>1, <2>2, <2>3, <2>4, <2>5
<1>3. HeldIsUsed'
  BY Zenon, <1>1 DEF SessionIInv, HeldIsUsed
<1> QED BY Zenon, <1>1, <1>2, <1>3, TrailStays DEF SessionIInv

(* Whoever comes first begins to finish the session.                         *)
LEMMA FinishBegins ==
    ASSUME SessionIInv, CloseSession \/ ReadTerminal \/ \E v \in Viewers : Type(v)
    PROVE  SessionIInv'
<1>1. Finishable
  <2>1. CASE CloseSession
    BY Zenon, <2>1 DEF CloseSession, Finishable
  <2>2. CASE ReadTerminal
    BY <2>2 DEF ReadTerminal, Finishable
  <2>3. ASSUME NEW v \in Viewers, Type(v) PROVE Finishable
    BY <2>3 DEF Type, Finishable
  <2> QED BY Zenon, <2>1, <2>2, <2>3
<1>2. /\ UNCHANGED <<trail, sessionRow, opening, live, held, command>> /\ troubles \subseteq troubles'
      /\ UNCHANGED <<once, verdict>> \/ \E status \in Ended : finishSession(status)
  <2>1. CASE CloseSession
    <3>1. "closed" \in Ended
      BY Zenon DEF Ended
    <3> QED BY Zenon, <2>1, <3>1 DEF CloseSession, opener, commands
  <2>2. CASE ReadTerminal
    <3>1. (IF shell = "ended" THEN "closed" ELSE "failed") \in Ended
      BY Zenon DEF Ended
    <3> QED BY Zenon, <2>2, <3>1 DEF ReadTerminal, opener, commands
  <2>3. ASSUME NEW v \in Viewers, Type(v)
        PROVE  /\ UNCHANGED <<trail, sessionRow, opening, live, held, command>> /\ troubles \subseteq troubles'
               /\ UNCHANGED <<once, verdict>> \/ \E status \in Ended : finishSession(status)
    <3>1. "closed" \in Ended
      BY Zenon DEF Ended
    <3> QED BY Zenon, <2>3, <3>1, TroublesGrow DEF Type, appendLog, opener, commands
  <2> QED BY Zenon, <2>1, <2>2, <2>3
<1>3. /\ verdict' \in Ended /\ (once' = once \/ (once = "free" /\ once' = "close"))
      /\ once' \in {"drop", "done"} => verdict' = verdict
  BY Zenon, <1>2 DEF SessionIInv, finishSession
<1>4. opening \in Opened
  BY Zenon, <1>1 DEF SessionIInv
<1>5. HeldIsUsed'
  BY Zenon, <1>2, <1>3 DEF SessionIInv, HeldIsUsed
<1>6. once' \in {"drop", "done"} => once \in {"drop", "done"}
  BY Zenon, <1>3
<1>7. once' # "done" => once # "done"
  BY Zenon, <1>3
<1> QED BY Zenon, <1>2, <1>3, <1>4, <1>5, <1>6, <1>7, TrailStays DEF SessionIInv

(* The body of closeOnce releases what the session held, saves its end, and  *)
(* records it when the session leaves the map.                               *)
LEMMA FinishSteps ==
    ASSUME SessionIInv, FinishClose \/ FinishSave \/ FinishDrop
    PROVE  SessionIInv'
<1>1. opening \in Opened /\ opening \notin {"no", "refused", "wait", "exec", "connect", "undo", "register"} /\ command = "no"
  <2>1. once # "free"
    BY Zenon DEF FinishClose, FinishSave, FinishDrop
  <2>2. opening \in Opened
    BY Zenon, <2>1 DEF SessionIInv, Finishable
  <2> QED BY Zenon, <2>2 DEF SessionIInv, Opened
<1>2. CASE FinishClose
  <2>1. /\ UNCHANGED <<trail, sessionRow, verdict, opening, live, command>> /\ once = "close" /\ once' = "save"
        /\ ~held' \/ "release" \in troubles'
    BY Zenon, <1>2 DEF FinishClose, Release, Trouble, commands
  <2>2. troubles \subseteq troubles'
    BY Zenon, <1>2, TroublesGrow DEF FinishClose, Release
  <2>3. HeldIsUsed'
    BY Zenon, <2>1 DEF HeldIsUsed
  <2> QED BY Zenon, <1>1, <2>1, <2>2, <2>3, TrailStays DEF SessionIInv
<1>3. CASE FinishSave
  <2>1. /\ UNCHANGED <<trail, verdict, opening, live, held, command>> /\ once = "save" /\ once' = "drop"
        /\ sessionRow' = verdict \/ (sessionRow' = sessionRow /\ "save" \in troubles')
    BY Zenon, <1>3 DEF FinishSave, SaveConsoleSession, SaveSessionFails, Trouble, opener, commands
  <2>2. troubles \subseteq troubles'
    BY Zenon, <1>3, TroublesGrow DEF FinishSave, SaveConsoleSession, SaveSessionFails
  <2>3. NoEnd' /\ OneEnd' /\ EndsAre(sessionRow)' /\ trail' \in Seq(Events)
    <3>1. NoEnd
      BY Zenon, <1>1, <2>1 DEF SessionIInv
    <3> QED BY Zenon, <2>1, <3>1 DEF SessionIInv, NoEnd, OneEnd, EndsAre
  <2>4. HeldIsUsed'
    BY Zenon, <1>1, <2>1, <2>2 DEF SessionIInv, HeldIsUsed
  <2>5. sessionRow' = "connected" => "save" \in troubles'
    <3>1. verdict # "connected"
      BY Zenon DEF SessionIInv, Ended
    <3> QED BY Zenon, <2>1, <3>1
  <2> QED BY Zenon, <1>1, <2>1, <2>2, <2>3, <2>4, <2>5 DEF SessionIInv
<1>4. CASE FinishDrop
  <2>1. /\ UNCHANGED <<sessionRow, verdict, opening, held, command, troubles>> /\ once = "drop" /\ once' = "done"
        /\ live' = FALSE /\ record(verdict)
    BY Zenon, <1>4 DEF FinishDrop, opener, commands
  <2>2. NoEnd /\ verdict \in Events
    BY Zenon, <1>1, <2>1 DEF SessionIInv, Ended, Events
  <2>3. trail' \in Seq(Events) /\ OneEnd' /\ EndsAre(verdict)'
    BY Zenon, <2>1, <2>2, TrailGrows DEF SessionIInv
  <2>4. HeldIsUsed'
    BY Zenon, <1>1, <2>1 DEF SessionIInv, HeldIsUsed
  <2>5. "save" \notin troubles => sessionRow = verdict /\ sessionRow # "connected"
    BY Zenon, <2>1 DEF SessionIInv, Ended
  <2>6. (command' = "no" /\ "save" \notin troubles') => EndsAre(sessionRow)'
    BY Zenon, <2>1, <2>3, <2>5 DEF EndsAre
  <2>7. (once' \in {"drop", "done"} /\ "save" \notin troubles') => sessionRow' = verdict'
    BY Zenon, <2>1, <2>5
  <2>8. ~(sessionRow' = "connected" /\ troubles' \cap {"save", "crash"} = {})
    BY Zenon, <2>1, <2>5
  <2> QED BY Zenon, <1>1, <2>1, <2>3, <2>4, <2>6, <2>7, <2>8 DEF SessionIInv
<1> QED BY Zenon, <1>2, <1>3, <1>4

(* Before the session is registered nobody can finish it.                    *)
LEMMA NotYetOpen ==
    ASSUME SessionIInv, opening \notin Opened
    PROVE  ~Finishable /\ once = "free" /\ ~live
  BY Zenon DEF SessionIInv, Finishable

(* Starting the terminal: what fails gives back what it was given.           *)
LEMMA StartSteps ==
    ASSUME SessionIInv, CreatePod \/ waitForPod \/ StartShell \/ Unsupported
    PROVE  SessionIInv'
<1>1. opening \in {"start", "wait", "exec"} /\ opening' \in {"wait", "exec", "connect", "failing"}
  BY Zenon DEF CreatePod, waitForPod, StartShell, Unsupported
<1>2. opening \notin Opened /\ opening \notin {"no", "refused", "register"}
      /\ opening' \notin {"no", "refused"} /\ command = "no"
  BY Zenon, <1>1 DEF SessionIInv, Opened
<1>3. UNCHANGED <<trail, sessionRow, verdict, once, live, command, reader, viewer>>
  BY Zenon DEF CreatePod, waitForPod, StartShell, Unsupported, finisher, output, audience, commands
<1>4. troubles \subseteq troubles'
  BY Zenon, TroublesGrow DEF CreatePod, waitForPod, StartShell, Unsupported, Release
<1>5. HeldIsUsed'
  <2>1. held => opening \in {"wait", "exec"} \/ troubles \cap {"create", "release", "crash"} # {}
    BY Zenon, <1>1, <1>2, NotYetOpen DEF SessionIInv, HeldIsUsed
  <2>2. \/ opening' \in {"wait", "exec", "connect"}
        \/ ~held' \/ "create" \in troubles' \/ "release" \in troubles' \/ (held' = held /\ opening = "start")
    BY Zenon DEF CreatePod, waitForPod, StartShell, Unsupported, Release, Trouble
  <2> QED BY Zenon, <1>4, <2>1, <2>2 DEF HeldIsUsed
<1>6. ~Finishable'
  BY Zenon, <1>2, <1>3, NotYetOpen DEF Finishable
<1> QED BY Zenon, <1>2, <1>3, <1>4, <1>5, <1>6, NotYetOpen, TrailStays DEF SessionIInv

(* The steps of OpenSession that write the row or the trail.                 *)
LEMMA OpenSteps ==
    ASSUME SessionIInv, OpenSession \/ OpenFailed \/ Connect \/ Undo
    PROVE  SessionIInv'
<1>1. opening \in {"no", "failing", "connect", "undo"} /\ command = "no"
  BY Zenon DEF OpenSession, OpenFailed, Connect, Undo, SessionIInv
<1>2. opening \notin Opened /\ opening \notin {"refused", "register"}
  BY Zenon, <1>1 DEF Opened
<1>3. UNCHANGED <<verdict, once, live, command, reader, viewer>>
  BY Zenon DEF OpenSession, OpenFailed, Connect, Undo, finisher, output, audience, commands
<1>4. troubles \subseteq troubles'
  BY Zenon, TroublesGrow DEF OpenSession, OpenFailed, Connect, Undo, SaveConsoleSession, SaveSessionFails, Release, Fine
<1>5. ~Finishable' /\ once' = "free" /\ ~live /\ NoEnd
  BY Zenon, <1>1, <1>2, <1>3, NotYetOpen DEF Finishable, SessionIInv
<1>6. /\ "started" \in Events /\ "failed" \in Events /\ "started" \notin Ended
      /\ (opening \notin {"connect", "undo"} /\ held) => troubles \cap {"create", "release", "crash"} # {}
      /\ sessionRow # "connected" \/ troubles \cap {"save", "crash"} # {}
  BY Zenon, <1>1, <1>2, <1>5 DEF SessionIInv, HeldIsUsed, Events, Ended
<1>7. CASE OpenSession
  <2>1. /\ held' = held /\ opening = "no" /\ opening' \in {"start", "refused"}
        /\ sessionRow' = sessionRow \/ sessionRow' = "starting"
        /\ (trail' = trail) \/ record("started")
    BY Zenon, <1>7 DEF OpenSession, SaveConsoleSession, SaveSessionFails
  <2>2. trail' \in Seq(Events) /\ NoEnd'
    BY Zenon, <1>5, <1>6, <2>1, TrailGrows DEF SessionIInv, NoEnd
  <2>3. HeldIsUsed'
    BY Zenon, <1>4, <1>6, <2>1 DEF HeldIsUsed
  <2>4. OneEnd' /\ EndsAre(sessionRow)'
    BY Zenon, <2>2 DEF NoEnd, OneEnd, EndsAre
  <2>5. sessionRow' # "connected" \/ troubles' \cap {"save", "crash"} # {}
    BY Zenon, <1>4, <1>6, <2>1
  <2> QED BY Zenon, <1>1, <1>3, <1>5, <2>2, <2>3, <2>4, <2>5 DEF SessionIInv
<1>8. CASE OpenFailed
  <2>1. /\ held' = held /\ opening = "failing" /\ opening' = "refused" /\ record("failed")
        /\ sessionRow' = "failed" \/ (sessionRow' = sessionRow /\ "save" \in troubles')
    BY Zenon, <1>8 DEF OpenFailed, SaveConsoleSession, SaveSessionFails, Trouble
  <2>2. trail' \in Seq(Events) /\ OneEnd' /\ EndsAre("failed")'
    BY Zenon, <1>5, <1>6, <2>1, TrailGrows DEF SessionIInv
  <2>3. HeldIsUsed'
    BY Zenon, <1>4, <1>6, <2>1 DEF HeldIsUsed
  <2>4. "save" \notin troubles' => EndsAre(sessionRow)'
    BY Zenon, <2>1, <2>2 DEF EndsAre
  <2>5. sessionRow' # "connected" \/ troubles' \cap {"save", "crash"} # {}
    BY Zenon, <2>1
  <2> QED BY Zenon, <1>1, <1>3, <1>5, <2>1, <2>2, <2>3, <2>4, <2>5 DEF SessionIInv
<1>9. CASE Connect
  <2>1. /\ trail' = trail
        /\ \/ opening' = "register" /\ held' = held
           \/ opening' = "undo" /\ sessionRow' = sessionRow
    BY Zenon, <1>9 DEF Connect, SaveConsoleSession, SaveSessionFails
  <2>2. trail' \in Seq(Events) /\ NoEnd'
    BY Zenon, <1>5, <2>1 DEF SessionIInv, NoEnd
  <2>3. HeldIsUsed'
    BY Zenon, <2>1 DEF HeldIsUsed
  <2>4. OneEnd' /\ EndsAre(sessionRow)'
    BY Zenon, <2>2 DEF NoEnd, OneEnd, EndsAre
  <2>5. sessionRow' # "connected" \/ troubles' \cap {"save", "crash"} # {} \/ opening' = "register"
    BY Zenon, <1>4, <1>6, <2>1
  <2> QED BY Zenon, <1>1, <1>3, <1>5, <2>2, <2>3, <2>4, <2>5 DEF SessionIInv
<1>10. CASE Undo
  <2>1. /\ trail' = trail /\ opening' = "refused" /\ sessionRow' = sessionRow
        /\ ~held' \/ "release" \in troubles'
    BY Zenon, <1>10 DEF Undo, Release, Trouble
  <2>2. trail' \in Seq(Events) /\ NoEnd'
    BY Zenon, <1>5, <2>1 DEF SessionIInv, NoEnd
  <2>3. HeldIsUsed'
    BY Zenon, <2>1 DEF HeldIsUsed
  <2>4. OneEnd' /\ EndsAre(sessionRow)'
    BY Zenon, <2>2 DEF NoEnd, OneEnd, EndsAre
  <2>5. sessionRow' # "connected" \/ troubles' \cap {"save", "crash"} # {}
    BY Zenon, <1>4, <1>6, <2>1
  <2> QED BY Zenon, <1>1, <1>3, <1>5, <2>2, <2>3, <2>4, <2>5 DEF SessionIInv
<1> QED BY Zenon, <1>7, <1>8, <1>9, <1>10

(* The session is put into the map, and may end before that is recorded.     *)
LEMMA RegisterSteps ==
    ASSUME SessionIInv, Register \/ RecordConnected
    PROVE  SessionIInv'
<1>1. /\ "record" \in Opened /\ "done" \in Opened /\ "connected" \in Events /\ "connected" \notin Ended
      /\ "register" \notin Opened
  BY Zenon DEF Opened, Events, Ended
<1>2. CASE Register
  <2>1. /\ UNCHANGED <<trail, sessionRow, verdict, once, held, command, troubles>> /\ live'
        /\ opening = "register" /\ opening' = "record"
    BY Zenon, <1>2 DEF Register, commands
  <2>2. once = "free"
    BY Zenon, <1>1, <2>1, NotYetOpen
  <2>3. HeldIsUsed'
    BY Zenon, <2>1, <2>2 DEF HeldIsUsed
  <2> QED BY Zenon, <1>1, <2>1, <2>2, <2>3, TrailStays DEF SessionIInv
<1>3. CASE RecordConnected
  <2>1. /\ UNCHANGED <<sessionRow, verdict, once, live, held, command, troubles, reader, viewer>>
        /\ opening = "record" /\ opening' = "done" /\ record("connected")
    BY Zenon, <1>3 DEF RecordConnected, finisher, output, audience, commands
  <2>2. /\ trail' \in Seq(Events) /\ OneEnd' /\ (NoEnd => NoEnd')
        /\ \A status : EndsAre(status) => EndsAre(status)'
    BY Zenon, <1>1, <2>1, TrailGrows DEF SessionIInv
  <2>3. HeldIsUsed'
    BY Zenon, <2>1 DEF SessionIInv, HeldIsUsed
  <2>4. (command' = "no" /\ "save" \notin troubles') => EndsAre(sessionRow)'
    <3>1. (command = "no" /\ "save" \notin troubles) => EndsAre(sessionRow)'
      BY Zenon, <2>2, <2>1 DEF SessionIInv, EndsAre
    <3> QED BY Zenon, <2>1, <3>1
  <2>5. (once' # "done" /\ opening' # "refused" /\ command' \in {"no", "run"}) => NoEnd'
    BY Zenon, <2>1, <2>2 DEF SessionIInv
  <2> QED BY Zenon, <1>1, <2>1, <2>2, <2>3, <2>4, <2>5 DEF SessionIInv
<1> QED BY Zenon, <1>2, <1>3

(* A command has no session beside it.                                       *)
LEMMA CommandSteps ==
    ASSUME SessionIInv, ExecuteCommand \/ RunConsoleCommand
    PROVE  SessionIInv'
<1>1. /\ opening = "no" /\ opening \notin Opened /\ command \in {"no", "run"} /\ command' # "no"
      /\ UNCHANGED <<opening, sessionRow, verdict, once, live, held, reader, viewer>>
  <2>1. opening = "no"
    BY Zenon DEF SessionIInv, ExecuteCommand, RunConsoleCommand
  <2>2. UNCHANGED <<opening, sessionRow, verdict, once, live, held, reader, viewer>>
    BY Zenon DEF ExecuteCommand, RunConsoleCommand, opener, finisher, output, audience
  <2>3. command \in {"no", "run"} /\ command' # "no"
    BY Zenon DEF ExecuteCommand, RunConsoleCommand
  <2> QED BY Zenon, <2>1, <2>2, <2>3 DEF Opened
<1>2. troubles \subseteq troubles'
  BY Zenon, TroublesGrow DEF ExecuteCommand, RunConsoleCommand
<1>3. ~Finishable /\ ~Finishable' /\ once = "free" /\ ~live /\ NoEnd
  BY Zenon, <1>1, NotYetOpen DEF Finishable, SessionIInv
<1>4. /\ {"started", "completed", "failed"} \subseteq Events
      /\ "started" \notin Ended
  BY Zenon DEF Events, Ended
<1>5. /\ \/ trail' = trail
         \/ record("started")
         \/ command' # "run" /\ (record("completed") \/ record("failed"))
  BY Zenon DEF ExecuteCommand, RunConsoleCommand
<1>6. trail' \in Seq(Events) /\ OneEnd' /\ (command' = "run" => NoEnd')
  <2>1. CASE trail' = trail
    BY Zenon, <1>3, <2>1 DEF SessionIInv, OneEnd, NoEnd
  <2>2. CASE trail' # trail
    BY Zenon, <1>3, <1>4, <1>5, <2>2, TrailGrows DEF SessionIInv
  <2> QED BY Zenon, <2>1, <2>2
<1>7. HeldIsUsed'
  BY Zenon, <1>1, <1>2 DEF SessionIInv, HeldIsUsed
<1> QED BY Zenon, <1>1, <1>2, <1>3, <1>6, <1>7 DEF SessionIInv

(* A crash leaves rows and trail as they are.                                *)
LEMMA CrashStep ==
    ASSUME SessionIInv, ConsoleCrash
    PROVE  SessionIInv'
<1>1. /\ UNCHANGED <<trail, sessionRow, verdict, once, opening, held, command>> /\ "crash" \in troubles'
      /\ ~live' /\ reader' = "off" /\ \A v \in Viewers : viewer'[v] # "away" => viewer[v] # "away"
  BY Zenon DEF ConsoleCrash, Trouble, opener, commands
<1>2. troubles \subseteq troubles'
  BY Zenon, TroublesGrow DEF ConsoleCrash
<1>3. HeldIsUsed'
  BY Zenon, <1>1 DEF HeldIsUsed
<1>4. Finishable' => Finishable
  BY Zenon, <1>1 DEF Finishable
<1> QED BY Zenon, <1>1, <1>2, <1>3, <1>4, TrailStays DEF SessionIInv

(* Every step of the server, its clients, the shell and the network.         *)
LEMMA SessionStep == SessionIInv /\ [ConsoleNext]_consoleVars => SessionIInv'
<1> SUFFICES ASSUME SessionIInv, [ConsoleNext]_consoleVars PROVE SessionIInv'
  BY Zenon
<1>1. CASE UNCHANGED consoleVars
  <2>1. /\ UNCHANGED <<trail, sessionRow, verdict, once, opening, live, held, command, troubles, reader, viewer>>
    BY Zenon, <1>1 DEF consoleVars, opener, finisher, output, audience, commands
  <2>2. HeldIsUsed' /\ (Finishable' => Finishable)
    BY Zenon, <2>1 DEF HeldIsUsed, Finishable, SessionIInv
  <2> QED BY Zenon, <2>1, <2>2, TrailStays DEF SessionIInv
<1>2. CASE ServerStep
  BY Zenon, <1>2, AudienceSteps, FinishBegins, FinishSteps, StartSteps, OpenSteps, RegisterSteps, CommandSteps
     DEF ServerStep
<1> QED BY Zenon, <1>1, <1>2, AudienceSteps, FinishBegins, OpenSteps, CommandSteps, CrashStep DEF ConsoleNext

(* Before a session is opened there is no event, and nobody can end it.      *)
LEMMA SessionInit == ConsoleInit => SessionIInv
<1> SUFFICES ASSUME ConsoleInit PROVE SessionIInv
  BY Zenon
<1>1. trail = <<>> /\ trail \in Seq(Events) /\ 1..Len(trail) = {}
  BY DEF ConsoleInit
<1>2. NoEnd /\ OneEnd /\ EndsAre(sessionRow)
  BY Zenon, <1>1 DEF NoEnd, OneEnd, EndsAre
<1>3. ~Finishable /\ HeldIsUsed
  BY Zenon DEF ConsoleInit, Finishable, HeldIsUsed
<1> QED BY Zenon, <1>1, <1>2, <1>3 DEF ConsoleInit, SessionIInv, Ended

(* For any number of viewers and failures: a session ends once, the row and  *)
(* the trail agree on its end, and nothing of it is left behind              *)
(* (finishSession, OpenSession).                                             *)
THEOREM SessionsAlwaysEndOnce == ConsoleSpec => []SessionsEndOnce
<1>1. SessionIInv => SessionsEndOnce
  <2> SUFFICES ASSUME SessionIInv PROVE SessionsEndOnce
    BY Zenon
  <2>1. EndIsRecorded
    BY Zenon DEF SessionIInv, EndIsRecorded, OneEnd, EndsAre
  <2> QED BY Zenon, <2>1 DEF SessionIInv, SessionsEndOnce
<1> QED BY <1>1, SessionInit, SessionStep, PTL DEF ConsoleSpec

-----------------------------------------------------------------------------
(* What viewers receive *)

(* One more chunk at the end of a sequence.                                  *)
LEMMA OneMore ==
    ASSUME NEW s \in Seq(Nat), NEW e \in Nat
    PROVE  /\ Append(s, e) \in Seq(Nat) /\ Range(Append(s, e)) = Range(s) \cup {e}
           /\ (IsInjective(s) /\ e \notin Range(s)) => IsInjective(Append(s, e))
<1> DEFINE t == Append(s, e)
<1>1. /\ t \in Seq(Nat) /\ Len(s) \in Nat /\ DOMAIN s = 1..Len(s) /\ DOMAIN t = 1..(Len(s) + 1)
      /\ t[Len(s) + 1] = e /\ \A i \in 1..Len(s) : t[i] = s[i]
  OBVIOUS
<1>2. \A i \in 1..(Len(s) + 1) : i \in 1..Len(s) \/ i = Len(s) + 1
  BY <1>1
<1>3. 1..Len(s) \subseteq 1..(Len(s) + 1) /\ Len(s) + 1 \in 1..(Len(s) + 1)
  BY <1>1
<1> HIDE DEF t
<1>4. Range(t) = Range(s) \cup {e}
  BY Zenon, <1>1, <1>2, <1>3 DEF Range
<1>5. (IsInjective(s) /\ e \notin Range(s)) => IsInjective(t)
  BY Zenon, <1>1, <1>2 DEF IsInjective, Range
<1> QED BY Zenon, <1>1, <1>4, <1>5 DEF t

(* One sequence after the other.                                             *)
LEMMA TwoInARow ==
    ASSUME NEW s \in Seq(Nat), NEW t \in Seq(Nat)
    PROVE  /\ s \o t \in Seq(Nat) /\ Range(s \o t) = Range(s) \cup Range(t)
           /\ (IsInjective(s) /\ IsInjective(t) /\ Range(s) \cap Range(t) = {}) => IsInjective(s \o t)
<1> DEFINE u == s \o t
<1>1. PICK m \in Nat, n \in Nat : m = Len(s) /\ n = Len(t)
  OBVIOUS
<1>2. /\ u \in Seq(Nat) /\ DOMAIN s = 1..m /\ DOMAIN t = 1..n /\ DOMAIN u = 1..(m + n)
      /\ \A i \in 1..(m + n) : u[i] = IF i <= m THEN s[i] ELSE t[i - m]
  BY <1>1
<1> HIDE DEF u
<1>3. ASSUME NEW i \in 1..(m + n)
      PROVE  (i \in 1..m /\ u[i] = s[i]) \/ (\E k \in 1..n : i = m + k /\ u[i] = t[k])
  <2>1. CASE i <= m
    BY <1>2, <2>1
  <2>2. CASE ~(i <= m)
    <3>1. i - m \in 1..n /\ i = m + (i - m)
      BY <2>2
    <3>2. u[i] = t[i - m]
      BY <1>2, <2>2
    <3> QED BY Zenon, <3>1, <3>2
  <2> QED BY Zenon, <2>1, <2>2
<1>4. /\ \A i \in 1..m : i \in 1..(m + n) /\ u[i] = s[i]
      /\ \A k \in 1..n : m + k \in 1..(m + n) /\ u[m + k] = t[k]
  <2>1. ASSUME NEW i \in 1..m PROVE i \in 1..(m + n) /\ u[i] = s[i]
    BY <1>2
  <2>2. ASSUME NEW k \in 1..n PROVE m + k \in 1..(m + n) /\ u[m + k] = t[k]
    <3>1. m + k \in 1..(m + n) /\ ~(m + k <= m) /\ (m + k) - m = k
      OBVIOUS
    <3> QED BY Zenon, <1>2, <3>1
  <2> QED BY Zenon, <2>1, <2>2
<1>5. Range(u) = Range(s) \cup Range(t)
  <2>1. ASSUME NEW i \in 1..(m + n) PROVE u[i] \in Range(s) \cup Range(t)
    BY Zenon, <1>2, <1>3 DEF Range
  <2>2. \A i \in 1..m : s[i] \in Range(u)
    BY Zenon, <1>2, <1>4 DEF Range
  <2>3. \A k \in 1..n : t[k] \in Range(u)
    BY Zenon, <1>2, <1>4 DEF Range
  <2> QED BY Zenon, <1>2, <2>1, <2>2, <2>3 DEF Range
<1>6. ASSUME IsInjective(s), IsInjective(t), Range(s) \cap Range(t) = {} PROVE IsInjective(u)
  <2> SUFFICES ASSUME NEW i \in 1..(m + n), NEW j \in 1..(m + n), u[i] = u[j] PROVE i = j
    BY Zenon, <1>2 DEF IsInjective
  <2>1. \A x \in 1..m, k \in 1..n : s[x] # t[k]
    BY Zenon, <1>2, <1>6 DEF Range
  <2>2. /\ \A x, y \in 1..m : s[x] = s[y] => x = y
        /\ \A x, y \in 1..n : t[x] = t[y] => x = y
    BY Zenon, <1>2, <1>6 DEF IsInjective
  <2>3. CASE i \in 1..m /\ u[i] = s[i]
    <3>1. j \in 1..m /\ u[j] = s[j]
      BY Zenon, <1>3, <2>1, <2>3
    <3> QED BY Zenon, <2>2, <2>3, <3>1
  <2>4. ASSUME NEW k \in 1..n, i = m + k, u[i] = t[k] PROVE i = j
    <3>1. PICK x \in 1..n : j = m + x /\ u[j] = t[x]
      BY Zenon, <1>3, <2>1, <2>4
    <3> QED BY Zenon, <2>2, <2>4, <3>1
  <2> QED BY Zenon, <1>3, <2>3, <2>4
<1> QED BY Zenon, <1>2, <1>5, <1>6 DEF u

\* The latest chunks up to number top: all, or as many as the session keeps
History(s, top) ==
    /\ s \in Seq(Nat) /\ Len(s) <= top /\ Len(s) <= MaxLog
    /\ Len(s) = top \/ Len(s) = MaxLog
    /\ \A i \in 1..Len(s) : s[i] = top - Len(s) + i

(* A history has no gap and no repetition.                                   *)
LEMMA HistoryIsAnInterval ==
    ASSUME NEW s, NEW top \in Nat, History(s, top)
    PROVE  IsInjective(s) /\ Range(s) = (top - Len(s) + 1)..top /\ Len(s) \in Nat
<1>1. Len(s) \in Nat /\ DOMAIN s = 1..Len(s) /\ Len(s) <= top
  BY DEF History
<1>2. \A i \in 1..Len(s) : s[i] = top - Len(s) + i
  BY Zenon DEF History
<1>3. PICK n \in Nat : n = Len(s)
  BY Zenon, <1>1
<1>4. \A i, j \in 1..n : top - n + i = top - n + j => i = j
  BY <1>3
<1>5. /\ \A i \in 1..n : top - n + i \in (top - n + 1)..top
      /\ \A x \in (top - n + 1)..top : \E i \in 1..n : x = top - n + i
  <2>1. \A i \in 1..n : top - n + i \in (top - n + 1)..top
    BY <1>1, <1>3
  <2>2. \A x \in (top - n + 1)..top : x - top + n \in 1..n /\ x = top - n + (x - top + n)
    BY <1>1, <1>3
  <2> QED BY Zenon, <2>1, <2>2
<1>6. IsInjective(s)
  BY Zenon, <1>1, <1>2, <1>3, <1>4 DEF IsInjective
<1>7. Range(s) = (top - Len(s) + 1)..top
  <2>1. \A i \in 1..n : s[i] \in (top - n + 1)..top
    BY Zenon, <1>2, <1>3, <1>5
  <2>2. ASSUME NEW x \in (top - n + 1)..top PROVE \E i \in 1..n : s[i] = x
    <3>1. PICK i \in 1..n : x = top - n + i
      BY Zenon, <1>5
    <3>2. s[i] = top - n + i
      BY Zenon, <1>2, <1>3
    <3> QED BY Zenon, <3>1, <3>2
  <2>3. DOMAIN s = 1..n
    BY Zenon, <1>1, <1>3
  <2> QED BY Zenon, <1>3, <2>1, <2>2, <2>3 DEF Range
<1> QED BY Zenon, <1>1, <1>6, <1>7

(* publish appends to the log and trims it.                                  *)
LEMMA HistoryGrows ==
    ASSUME NEW s, NEW top \in Nat, History(s, top)
    PROVE  /\ History(Trimmed(Append(s, top + 1)), top + 1)
           /\ Range(Trimmed(Append(s, top + 1))) \subseteq Range(s) \cup {top + 1}
<1> DEFINE a == Append(s, top + 1)
           t == Trimmed(a)
<1>1. PICK n \in Nat : n = Len(s)
  BY DEF History
<1>2. /\ s \in Seq(Nat) /\ MaxLog \in Nat \ {0} /\ n <= top /\ n <= MaxLog
      /\ n = top \/ n = MaxLog
      /\ \A i \in 1..n : s[i] = top - n + i
  BY Zenon, <1>1, ConsoleAssumption DEF History
<1>3. a \in Seq(Nat) /\ Len(a) = n + 1 /\ a[n + 1] = top + 1 /\ \A i \in 1..n : a[i] = s[i]
  BY <1>1, <1>2
<1>4. DOMAIN a = 1..(n + 1)
  BY <1>3
<1>5. Range(a) = Range(s) \cup {top + 1}
  <2>1. top + 1 \in Nat
    OBVIOUS
  <2> QED BY Zenon, <1>2, <2>1, OneMore
<1> HIDE DEF a
<1>6. ASSUME NEW i \in 1..(n + 1) PROVE a[i] = top - n + i
  <2>1. CASE i \in 1..n
    BY Zenon, <1>2, <1>3, <2>1
  <2>2. CASE i = n + 1
    BY <1>3, <2>2
  <2> QED BY <2>1, <2>2
<1>7. CASE n < MaxLog
  <2>1. t = a
    BY <1>2, <1>3, <1>7 DEF Trimmed
  <2>2. n + 1 <= top + 1 /\ n + 1 <= MaxLog /\ n + 1 = top + 1
    BY <1>2, <1>7
  <2>3. \A i \in 1..(n + 1) : a[i] = (top + 1) - (n + 1) + i
    BY <1>6
  <2>4. History(a, top + 1)
    BY Zenon, <1>3, <2>2, <2>3 DEF History
  <2> QED BY Zenon, <1>5, <2>1, <2>4 DEF a
<1>8. CASE n = MaxLog
  <2>1. t = SubSeq(a, 2, n + 1)
    BY <1>2, <1>3, <1>8 DEF Trimmed
  <2>2. t \in Seq(Nat) /\ Len(t) = n /\ DOMAIN t = 1..n /\ \A i \in 1..n : t[i] = a[i + 1]
    BY <1>3, <2>1
  <2>3. \A i \in 1..n : i + 1 \in 1..(n + 1)
    OBVIOUS
  <2>4. ASSUME NEW i \in 1..n PROVE t[i] = (top + 1) - n + i
    <3>1. t[i] = top - n + (i + 1)
      BY Zenon, <1>6, <2>2, <2>3
    <3> QED BY <3>1
  <2> HIDE DEF t
  <2>5. n <= top + 1
    BY <1>2
  <2>6. History(t, top + 1)
    BY Zenon, <1>2, <1>8, <2>2, <2>4, <2>5 DEF History
  <2>7. Range(t) \subseteq Range(a)
    BY Zenon, <1>4, <2>2, <2>3 DEF Range
  <2> QED BY Zenon, <1>5, <2>6, <2>7 DEF t, a
<1> QED BY <1>2, <1>7, <1>8

(* Neighbouring intervals.                                                   *)
LEMMA Intervals ==
    ASSUME NEW h \in Nat, NEW top \in Nat, h <= top
    PROVE  /\ \A k \in 1..(top + 1) : (k..top) \cup {top + 1} = k..(top + 1) /\ top + 1 \notin k..top
           /\ ((h + 1)..top) \cup {top + 1} = (h + 1)..(top + 1)
           /\ \A k \in 1..(h + 1) : /\ (k..h) \cup ((h + 1)..top) = k..top
                                    /\ (k..h) \cap ((h + 1)..top) = {}
           /\ (top + 1)..top = {}
OBVIOUS

\* The chunks that publish has told of, and the one it has yet to send
Told == IF reader \in {"append", "share"} THEN said - 1 ELSE said
Due(v) == IF v \in receivers THEN {said} ELSE {}

\* A viewer that has joined keeps the history that its live output continues;
\* one that streams has both on its screen.
Watches(v) ==
    /\ viewer[v] \in {"away", "found"} => v \notin clients /\ v \notin receivers /\ screen[v] = <<>>
    /\ connected(v) => v \in clients /\ IsInjective(screen[v]) /\ Range(screen[v]) \cap Due(v) = {}
    /\ viewer[v] = "joined" =>
         \E h \in 0..Told : History(past[v], h) /\ Range(screen[v]) \cup Due(v) = (h + 1)..Told
    /\ viewer[v] = "streaming" =>
         \E k \in 1..(Told + 1) :
            /\ Range(screen[v]) \cup Due(v) = k..Told
            /\ k <= 1 \/ k <= Told - MaxLog + 1

StreamTypes ==
    /\ said \in Nat /\ (reader \in {"append", "share", "send"} => said >= 1)
    /\ transcript \in Seq(Nat) /\ DOMAIN viewer = Viewers
    /\ screen \in [Viewers -> Seq(Nat)] /\ past \in [Viewers -> Seq(Nat)]

\* What is kept in memory or shown was written to the transcript before.
Written(v) == Range(screen[v]) \cup Range(past[v]) \subseteq Range(transcript)
Transcribed ==
    "append" \notin troubles =>
        /\ Range(log) \subseteq Range(transcript)
        /\ reader \in {"share", "send"} => said \in Range(transcript)
        /\ \A v \in Viewers : Written(v)

StreamIInv ==
    /\ StreamTypes /\ Transcribed
    /\ ~up => \A v \in Viewers : ~connected(v)
    /\ up => /\ reader # "send" => receivers = {}
             /\ History(log, Told)
             /\ \A v \in Viewers : Watches(v)

(* The chunk that publish has not shared yet is the latest.                  *)
LEMMA ToldIsANumber ==
    ASSUME StreamTypes
    PROVE  /\ Told \in Nat /\ (reader \in {"append", "share"} => Told = said - 1 /\ said = Told + 1)
           /\ reader \notin {"append", "share"} => Told = said
<1>1. CASE reader \in {"append", "share"}
  <2>1. said \in Nat /\ said >= 1
    BY Zenon, <1>1 DEF StreamTypes
  <2>2. Told = said - 1
    BY Zenon, <1>1 DEF Told
  <2> QED BY <1>1, <2>1, <2>2
<1>2. CASE reader \notin {"append", "share"}
  BY Zenon, <1>2 DEF StreamTypes, Told
<1> QED BY Zenon, <1>1, <1>2

(* A viewer that a step does not concern.                                    *)
LEMMA WatchStays ==
    ASSUME NEW v \in Viewers, Watches(v), Told' = Told, Due(v)' = Due(v), v \in receivers' => v \in receivers,
           viewer'[v] = viewer[v], screen'[v] = screen[v], past'[v] = past[v], v \in clients' <=> v \in clients
    PROVE  Watches(v)'
<1>1. \A h : History(past[v], h) => History(past[v], h)'
  BY Zenon DEF History
<1> QED BY Zenon, <1>1 DEF Watches, connected

(* The steps of a session and of commands show nothing to anybody.           *)
LEMMA NothingShown ==
    ASSUME StreamIInv, UNCHANGED <<transcript, clients, viewer, past, screen, said, log, receivers>>,
           Told' = Told, up' = up, troubles \subseteq troubles',
           reader' \in {"append", "share", "send"} => reader' = reader,
           receivers = {} \/ reader' = reader
    PROVE  StreamIInv'
<1>1. StreamTypes'
  BY Zenon DEF StreamIInv, StreamTypes
<1>2. Transcribed'
  BY Zenon DEF StreamIInv, Transcribed, Written
<1>3. \A v \in Viewers : Due(v)' = Due(v)
  BY Zenon DEF Due
<1>4. up => \A v \in Viewers : Watches(v)'
  BY Zenon, <1>3, WatchStays DEF StreamIInv
<1>5. up => History(log, Told)'
  <2>1. up => History(log, Told)
    BY Zenon DEF StreamIInv
  <2> QED BY Zenon, <2>1 DEF History
<1>6. up => (reader' # "send" => receivers' = {})
  BY Zenon DEF StreamIInv
<1>7. ~up => \A v \in Viewers : ~connected(v)'
  BY Zenon DEF StreamIInv, connected
<1> QED BY Zenon, <1>1, <1>2, <1>4, <1>5, <1>6, <1>7 DEF StreamIInv

(* A failing call is not a crash, and failures are not forgotten.            *)
LEMMA UpStays ==
    ASSUME Fine \/ Trouble("save") \/ Trouble("append") \/ Trouble("create") \/ Trouble("release")
    PROVE  up' = up /\ troubles \subseteq troubles'
  BY DEF Fine, Trouble, up

(* OpenSession, finishSession and ExecuteCommand show nothing to anybody.    *)
LEMMA SessionShowsNothing ==
    ASSUME SessionIInv, StreamIInv,
           \/ OpenSession \/ CreatePod \/ waitForPod \/ StartShell \/ Unsupported \/ OpenFailed \/ Connect
           \/ Undo \/ Register \/ RecordConnected \/ Abandon \/ CloseSession \/ FinishClose \/ FinishSave \/ FinishDrop
           \/ ShellEnds \/ ExecuteCommand \/ RunConsoleCommand \/ SaveCommandEnd \/ UNCHANGED consoleVars
    PROVE  StreamIInv'
<1>1. CASE Register
  <2>1. /\ UNCHANGED <<transcript, clients, viewer, past, screen, said, log, receivers, troubles>>
        /\ reader' = "read" /\ opening = "register" /\ up
    BY Zenon, <1>1 DEF Register, audience
  <2>2. reader = "off"
    <3>1. opening \notin Opened
      BY Zenon, <2>1 DEF Opened
    <3> QED BY Zenon, <3>1, NotYetOpen DEF Finishable
  <2>3. receivers = {} /\ Told' = Told /\ up' = up
    <3>1. up' = up
      BY Zenon, <2>1 DEF up
    <3>2. Told' = Told
      BY Zenon, <2>1, <2>2 DEF Told
    <3>3. receivers = {}
      BY Zenon, <2>1, <2>2 DEF StreamIInv
    <3> QED BY Zenon, <3>1, <3>2, <3>3
  <2> QED BY Zenon, <2>1, <2>2, <2>3, NothingShown
<1>2. CASE ~Register
  <2>1. UNCHANGED <<transcript, clients, viewer, past, screen, said, log, receivers, reader>>
    BY Zenon, <1>2 DEF OpenSession, CreatePod, waitForPod, StartShell, Unsupported, OpenFailed, Connect,
       Undo, RecordConnected, Abandon, CloseSession, FinishClose, FinishSave, FinishDrop, ShellEnds, ExecuteCommand,
       RunConsoleCommand, SaveCommandEnd, consoleVars, output, audience
  <2>2. Fine \/ Trouble("save") \/ Trouble("append") \/ Trouble("create") \/ Trouble("release")
    <3>1. CASE OpenSession \/ OpenFailed \/ Connect \/ FinishSave
      BY Zenon, <3>1 DEF OpenSession, OpenFailed, Connect, FinishSave, SaveConsoleSession, SaveSessionFails,
         Release, Fine
    <3>2. CASE CreatePod \/ waitForPod \/ StartShell \/ Undo \/ FinishClose
      BY Zenon, <3>2 DEF CreatePod, waitForPod, StartShell, Undo, FinishClose, Release
    <3>3. CASE \/ Unsupported \/ RecordConnected \/ Abandon \/ CloseSession \/ FinishDrop \/ ShellEnds
               \/ UNCHANGED consoleVars
      BY Zenon, <3>3 DEF Unsupported, RecordConnected, Abandon, CloseSession, FinishDrop, ShellEnds, consoleVars, Fine
    <3>4. CASE ExecuteCommand \/ RunConsoleCommand \/ SaveCommandEnd
      BY Zenon, <3>4 DEF ExecuteCommand, RunConsoleCommand, SaveCommandEnd, Fine
    <3> QED BY Zenon, <1>2, <3>1, <3>2, <3>3, <3>4
  <2>3. Told' = Told
    BY Zenon, <2>1 DEF Told
  <2> QED BY Zenon, <2>1, <2>2, <2>3, UpStays, NothingShown
<1> QED BY Zenon, <1>1, <1>2

(* A step that concerns one viewer.                                          *)
LEMMA OneViewer ==
    ASSUME StreamIInv, up, NEW v \in Viewers, UNCHANGED <<reader, said, log>>, up' = up, troubles \subseteq troubles',
           Range(transcript) \subseteq Range(transcript'), receivers' \subseteq receivers,
           \A u \in Viewers \ {v} : /\ viewer'[u] = viewer[u] /\ screen'[u] = screen[u] /\ past'[u] = past[u]
                                    /\ u \in clients' <=> u \in clients
                                    /\ u \in receivers' <=> u \in receivers,
           StreamTypes', "append" \notin troubles => Written(v)', Watches(v)'
    PROVE  StreamIInv'
<1>1. Told' = Told /\ \A u \in Viewers \ {v} : Due(u)' = Due(u)
  BY Zenon DEF Told, Due
<1>2. ASSUME NEW u \in Viewers PROVE Watches(u)'
  <2>1. CASE u = v
    BY Zenon, <2>1
  <2>2. CASE u # v
    <3>1. Watches(u) /\ u \in Viewers \ {v}
      BY Zenon, <2>2 DEF StreamIInv
    <3> QED BY Zenon, <1>1, <3>1, WatchStays
  <2> QED BY Zenon, <2>1, <2>2
<1>3. Transcribed'
  <2> SUFFICES ASSUME "append" \notin troubles'
               PROVE  /\ Range(log') \subseteq Range(transcript')
                      /\ reader' \in {"share", "send"} => said' \in Range(transcript')
                      /\ \A u \in Viewers : Written(u)'
    BY Zenon DEF Transcribed
  <2>1. "append" \notin troubles
    BY Zenon
  <2>2. /\ Range(log) \subseteq Range(transcript) /\ (reader \in {"share", "send"} => said \in Range(transcript))
        /\ \A u \in Viewers : Written(u)
    BY Zenon, <2>1 DEF StreamIInv, Transcribed
  <2>3. ASSUME NEW u \in Viewers \ {v} PROVE Written(u)'
    BY Zenon, <2>2 DEF Written
  <2>4. \A u \in Viewers : u = v \/ u \in Viewers \ {v}
    BY Zenon
  <2> QED BY Zenon, <2>1, <2>2, <2>3, <2>4
<1>4. History(log, Told)'
  <2>1. History(log, Told)
    BY Zenon DEF StreamIInv
  <2> QED BY Zenon, <1>1, <2>1 DEF History
<1>5. reader' # "send" => receivers' = {}
  BY Zenon DEF StreamIInv
<1> QED BY Zenon, <1>2, <1>3, <1>4, <1>5 DEF StreamIInv

(* A viewer that is not served any more.                                     *)
LEMMA Aside ==
    ASSUME NEW v \in Viewers, viewer'[v] \in {"stalled", "dropped", "gone"}
    PROVE  Watches(v)'
  BY DEF Watches, connected

(* Without a failure the server is up as before.                             *)
LEMMA UpSame == UNCHANGED troubles => up' = up /\ troubles \subseteq troubles'
  BY Zenon DEF up

(* A viewer moves on and receives nothing.                                   *)
LEMMA ViewerMoves ==
    ASSUME StreamIInv, NEW v \in Viewers, Lookup(v) \/ Drop(v) \/ Stall(v) \/ removeClient(v)
    PROVE  StreamIInv'
<1>1. UNCHANGED <<reader, said, log, receivers, transcript, past, screen, troubles>> /\ up
  BY Zenon DEF Lookup, Drop, Stall, removeClient, output
<1>2. PICK where : /\ viewer' = [viewer EXCEPT ![v] = where]
                   /\ \/ where \in {"stalled", "dropped", "gone"}
                      \/ where = "found" /\ viewer[v] = "away" /\ clients' = clients
  BY Zenon DEF Lookup, Drop, Stall, removeClient
<1>3. clients' = clients \/ clients' = clients \ {v}
  BY Zenon DEF Lookup, Drop, Stall, removeClient
<1>4. DOMAIN viewer = Viewers
  BY Zenon DEF StreamIInv, StreamTypes
<1>5. viewer'[v] = where /\ DOMAIN viewer' = Viewers /\ \A u \in Viewers \ {v} : viewer'[u] = viewer[u]
  BY <1>2, <1>4
<1>6. Watches(v)'
  <2>1. CASE where = "found" /\ viewer[v] = "away" /\ clients' = clients
    <3>1. v \notin clients' /\ v \notin receivers' /\ screen'[v] = <<>>
      BY Zenon, <1>1, <2>1 DEF StreamIInv, Watches
    <3>2. viewer'[v] = "found"
      BY Zenon, <1>5, <2>1
    <3> QED BY <3>1, <3>2 DEF Watches, connected
  <2>2. CASE where \in {"stalled", "dropped", "gone"}
    <3>1. viewer'[v] \in {"stalled", "dropped", "gone"}
      BY Zenon, <1>5, <2>2
    <3> QED BY Zenon, <3>1, Aside
  <2> QED BY Zenon, <1>2, <2>1, <2>2
<1>7. StreamTypes'
  BY Zenon, <1>1, <1>5 DEF StreamIInv, StreamTypes
<1>8. "append" \notin troubles => Written(v)'
  BY Zenon, <1>1 DEF StreamIInv, Transcribed, Written
<1>9. up' = up /\ troubles \subseteq troubles'
  BY Zenon, <1>1, UpSame
<1> QED BY Zenon, <1>1, <1>3, <1>5, <1>6, <1>7, <1>8, <1>9, OneViewer

(* StreamSession registers the viewer and copies the log under one lock.     *)
LEMMA JoinStep ==
    ASSUME StreamIInv, NEW v \in Viewers, Join(v)
    PROVE  StreamIInv'
<1>1. /\ UNCHANGED <<reader, said, log, receivers, transcript, screen, troubles>> /\ up
      /\ viewer[v] = "found" /\ clients' = clients \cup {v}
      /\ viewer' = [viewer EXCEPT ![v] = "joined"] /\ past' = [past EXCEPT ![v] = log]
  BY Zenon DEF Join, output
<1>2. /\ DOMAIN viewer = Viewers /\ past \in [Viewers -> Seq(Nat)] /\ log \in Seq(Nat) /\ History(log, Told)
      /\ v \notin receivers /\ screen[v] = <<>>
  <2>1. History(log, Told) /\ log \in Seq(Nat)
    BY Zenon, <1>1 DEF StreamIInv, History
  <2>2. v \notin receivers /\ screen[v] = <<>>
    BY Zenon, <1>1 DEF StreamIInv, Watches
  <2> QED BY Zenon, <2>1, <2>2 DEF StreamIInv, StreamTypes
<1>3. /\ viewer'[v] = "joined" /\ past'[v] = log /\ DOMAIN viewer' = Viewers /\ past' \in [Viewers -> Seq(Nat)]
      /\ \A u \in Viewers \ {v} : viewer'[u] = viewer[u] /\ past'[u] = past[u]
  BY <1>1, <1>2
<1>4. Told \in Nat /\ Told' = Told
  BY Zenon, <1>1, ToldIsANumber DEF StreamIInv, Told
<1>5. IsInjective(<<>>) /\ Range(<<>>) = {} /\ Due(v)' = {}
  <2>1. IsInjective(<<>>) /\ Range(<<>>) = {}
    BY DEF IsInjective, Range
  <2>2. Due(v)' = {}
    BY Zenon, <1>1, <1>2 DEF Due
  <2> QED BY Zenon, <2>1, <2>2
<1>6. \E h \in 0..Told' : History(past'[v], h) /\ Range(screen'[v]) \cup Due(v)' = (h + 1)..Told'
  <2>1. Told \in 0..Told /\ (Told + 1)..Told = {}
    BY <1>4
  <2>2. History(past'[v], Told) /\ Range(screen'[v]) \cup Due(v)' = {}
    BY Zenon, <1>1, <1>2, <1>3, <1>5
  <2> QED BY Zenon, <1>4, <2>1, <2>2
<1>7. Watches(v)'
  <2>1. v \in clients' /\ IsInjective(screen'[v]) /\ Range(screen'[v]) \cap Due(v)' = {}
    BY Zenon, <1>1, <1>2, <1>5
  <2>2. \A h : History(past'[v], h) => History(past[v], h)'
    BY Zenon DEF History
  <2>3. viewer'[v] \notin {"away", "found"} /\ viewer'[v] # "streaming"
    BY <1>3
  <2> QED BY Zenon, <1>6, <2>1, <2>2, <2>3 DEF Watches
<1>8. StreamTypes'
  BY Zenon, <1>1, <1>3 DEF StreamIInv, StreamTypes
<1>9. "append" \notin troubles => Written(v)'
  BY Zenon, <1>1, <1>3 DEF StreamIInv, Transcribed, Written
<1>10. up' = up /\ troubles \subseteq troubles'
  BY Zenon, <1>1, UpSame
<1> QED BY Zenon, <1>1, <1>3, <1>7, <1>8, <1>9, <1>10, OneViewer

\* The live output s and the chunk that is due continue the history p.
Continues(s, due, top, p, h) ==
    /\ s \in Seq(Nat) /\ p \in Seq(Nat) /\ top \in Nat /\ h \in 0..top
    /\ IsInjective(s) /\ Range(s) \cap due = {}
    /\ History(p, h) /\ Range(s) \cup due = (h + 1)..top

\* What the viewer then has is whole.
Complete(s, due, top) ==
    /\ s \in Seq(Nat) /\ IsInjective(s) /\ Range(s) \cap due = {}
    /\ \E k \in 1..(top + 1) : Range(s) \cup due = k..top /\ (k <= 1 \/ k <= top - MaxLog + 1)

(* The history goes to the viewer, whatever live output has overtaken it.    *)
LEMMA HistoryCompletes ==
    ASSUME NEW s, NEW due, NEW top, NEW p, NEW h, Continues(s, due, top, p, h)
    PROVE  Complete(s \o p, due, top) /\ Range(s \o p) = Range(s) \cup Range(p)
<1>0. /\ s \in Seq(Nat) /\ p \in Seq(Nat) /\ top \in Nat /\ h \in 0..top
      /\ IsInjective(s) /\ Range(s) \cap due = {}
      /\ History(p, h) /\ Range(s) \cup due = (h + 1)..top
  BY Zenon DEF Continues
<1>1. h \in Nat /\ h <= top /\ top \in Nat
  BY <1>0
<1>2. IsInjective(p) /\ Range(p) = (h - Len(p) + 1)..h /\ Len(p) \in Nat
  BY Zenon, <1>0, <1>1, HistoryIsAnInterval
<1>3. PICK k \in Int : k = h - Len(p) + 1
  <2>1. h - Len(p) + 1 \in Int
    BY <1>1, <1>2
  <2> QED BY Zenon, <2>1
<1>4. k \in 1..(h + 1) /\ k \in 1..(top + 1) /\ (k <= 1 \/ k <= top - MaxLog + 1)
  <2>1. Len(p) <= h /\ (Len(p) = h \/ Len(p) = MaxLog) /\ MaxLog \in Nat
    BY Zenon, <1>0, ConsoleAssumption DEF History
  <2> QED BY <1>1, <1>2, <1>3, <2>1
<1>5. Range(p) = k..h
  BY Zenon, <1>2, <1>3
<1>6. (k..h) \cup ((h + 1)..top) = k..top /\ (k..h) \cap ((h + 1)..top) = {}
  BY Zenon, <1>1, <1>4, Intervals
<1>7. Range(s) \cap Range(p) = {} /\ Range(p) \cap due = {} /\ Range(s) \cup Range(p) \cup due = k..top
  BY Zenon, <1>0, <1>5, <1>6
<1>8. s \o p \in Seq(Nat) /\ Range(s \o p) = Range(s) \cup Range(p) /\ IsInjective(s \o p)
  BY Zenon, <1>0, <1>2, <1>7, TwoInARow
<1>9. Range(s \o p) \cap due = {} /\ Range(s \o p) \cup due = k..top
  BY Zenon, <1>0, <1>7, <1>8
<1> QED BY Zenon, <1>4, <1>8, <1>9 DEF Complete

(* StreamSession writes the history under the client's own lock.             *)
LEMMA WriteHistoryStep ==
    ASSUME StreamIInv, NEW v \in Viewers, WriteHistory(v)
    PROVE  StreamIInv'
<1>1. /\ UNCHANGED <<reader, said, log, receivers, transcript, past, clients, troubles>> /\ up
      /\ viewer[v] = "joined" /\ viewer' = [viewer EXCEPT ![v] = "streaming"]
      /\ screen' = [screen EXCEPT ![v] = screen[v] \o past[v]]
  BY Zenon DEF WriteHistory, output
<1>2. /\ DOMAIN viewer = Viewers /\ screen \in [Viewers -> Seq(Nat)] /\ screen[v] \in Seq(Nat) /\ past[v] \in Seq(Nat)
  <2>1. DOMAIN viewer = Viewers /\ screen \in [Viewers -> Seq(Nat)] /\ past \in [Viewers -> Seq(Nat)]
    BY Zenon DEF StreamIInv, StreamTypes
  <2> QED BY Zenon, <2>1
<1>3. Watches(v)
  BY Zenon, <1>1 DEF StreamIInv
<1>4. v \in clients /\ IsInjective(screen[v]) /\ Range(screen[v]) \cap Due(v) = {}
  BY <1>1, <1>3 DEF Watches, connected
<1>5. PICK h \in 0..Told : History(past[v], h) /\ Range(screen[v]) \cup Due(v) = (h + 1)..Told
  BY Zenon, <1>1, <1>3 DEF Watches
<1>6. Told \in Nat /\ Told' = Told /\ Due(v)' = Due(v)
  BY Zenon, <1>1, ToldIsANumber DEF StreamIInv, Told, Due
<1> DEFINE both == screen[v] \o past[v]
<1>7. /\ both \in Seq(Nat) /\ Range(both) = Range(screen[v]) \cup Range(past[v])
      /\ IsInjective(both) /\ Range(both) \cap Due(v) = {}
      /\ \E k \in 1..(Told + 1) : Range(both) \cup Due(v) = k..Told /\ (k <= 1 \/ k <= Told - MaxLog + 1)
  <2>1. Continues(screen[v], Due(v), Told, past[v], h)
    BY Zenon, <1>2, <1>4, <1>5, <1>6 DEF Continues
  <2>2. Complete(both, Due(v), Told) /\ Range(both) = Range(screen[v]) \cup Range(past[v])
    BY Zenon, <2>1, HistoryCompletes
  <2> QED BY Zenon, <2>2 DEF Complete
<1> HIDE DEF both
<1>8. /\ viewer'[v] = "streaming" /\ screen'[v] = both /\ DOMAIN viewer' = Viewers
      /\ screen' \in [Viewers -> Seq(Nat)]
      /\ \A u \in Viewers \ {v} : viewer'[u] = viewer[u] /\ screen'[u] = screen[u]
  <2>1. screen' = [screen EXCEPT ![v] = both]
    BY Zenon, <1>1 DEF both
  <2> QED BY <1>1, <1>2, <1>7, <2>1
<1>9. Watches(v)'
  <2>1. viewer'[v] \notin {"away", "found"} /\ viewer'[v] # "joined"
    BY <1>8
  <2> QED BY Zenon, <1>1, <1>4, <1>6, <1>7, <1>8, <2>1 DEF Watches
<1>10. StreamTypes'
  BY Zenon, <1>1, <1>8 DEF StreamIInv, StreamTypes
<1>11. "append" \notin troubles => Written(v)'
  <2>1. "append" \notin troubles => Written(v)
    BY Zenon DEF StreamIInv, Transcribed
  <2>2. Range(screen'[v]) = Range(screen[v]) \cup Range(past[v])
    BY Zenon, <1>7, <1>8
  <2> QED BY Zenon, <1>1, <2>1, <2>2 DEF Written
<1>12. up' = up /\ troubles \subseteq troubles'
  BY Zenon, <1>1, UpSame
<1> QED BY Zenon, <1>1, <1>8, <1>9, <1>10, <1>11, <1>12, OneViewer

(* appendLog adds the chunk to the transcript, or fails.                     *)
LEMMA LogGrows ==
    ASSUME NEW chunk \in Nat, transcript \in Seq(Nat), appendLog(chunk)
    PROVE  /\ transcript' \in Seq(Nat) /\ Range(transcript) \subseteq Range(transcript')
           /\ "append" \notin troubles' => chunk \in Range(transcript')
           /\ up' = up /\ troubles \subseteq troubles'
<1>1. up' = up /\ troubles \subseteq troubles'
  BY Zenon, UpStays DEF appendLog
<1>2. CASE transcript' = Append(transcript, chunk)
  BY Zenon, <1>1, <1>2, OneMore
<1>3. CASE transcript' = transcript /\ "append" \in troubles'
  BY Zenon, <1>1, <1>3
<1>4. (transcript' = Append(transcript, chunk)) \/ (transcript' = transcript /\ "append" \in troubles')
  BY Zenon DEF appendLog, Trouble
<1> QED BY Zenon, <1>2, <1>3, <1>4

(* What a viewer types goes to the transcript; its connection may end.       *)
LEMMA TypeStep ==
    ASSUME StreamIInv, NEW v \in Viewers, Type(v)
    PROVE  StreamIInv'
<1>1. UNCHANGED <<reader, said, log, receivers, past, screen>> /\ up
  BY Zenon DEF Type, output
<1>2. CASE appendLog(0) /\ UNCHANGED <<viewer, clients>>
  <2>1. 0 \in Nat /\ transcript \in Seq(Nat)
    BY DEF StreamIInv, StreamTypes
  <2>2. /\ transcript' \in Seq(Nat) /\ Range(transcript) \subseteq Range(transcript')
        /\ up' = up /\ troubles \subseteq troubles'
    BY Zenon, <1>2, <2>1, LogGrows
  <2>3. StreamTypes'
    BY Zenon, <1>1, <1>2, <2>2 DEF StreamIInv, StreamTypes
  <2>4. Watches(v)'
    <3>1. Watches(v) /\ Told' = Told /\ Due(v)' = Due(v)
      BY Zenon, <1>1 DEF StreamIInv, Told, Due
    <3> QED BY Zenon, <1>1, <1>2, <3>1, WatchStays
  <2>5. "append" \notin troubles => Written(v)'
    BY Zenon, <1>1, <2>2 DEF StreamIInv, Transcribed, Written
  <2> QED BY Zenon, <1>1, <1>2, <2>2, <2>3, <2>4, <2>5, OneViewer
<1>3. CASE /\ UNCHANGED <<transcript, troubles>> /\ viewer' = [viewer EXCEPT ![v] = "gone"]
           /\ clients' = clients \ {v}
  <2>1. DOMAIN viewer = Viewers
    BY Zenon DEF StreamIInv, StreamTypes
  <2>2. viewer'[v] = "gone" /\ DOMAIN viewer' = Viewers /\ \A u \in Viewers \ {v} : viewer'[u] = viewer[u]
    BY <1>3, <2>1
  <2>3. Watches(v)'
    <3>1. viewer'[v] \in {"stalled", "dropped", "gone"}
      BY <2>2
    <3> QED BY Zenon, <3>1, Aside
  <2>4. StreamTypes'
    BY Zenon, <1>1, <1>3, <2>2 DEF StreamIInv, StreamTypes
  <2>5. "append" \notin troubles => Written(v)'
    BY Zenon, <1>1, <1>3 DEF StreamIInv, Transcribed, Written
  <2>6. up' = up /\ troubles \subseteq troubles'
    BY Zenon, <1>3, UpSame
  <2> QED BY Zenon, <1>1, <1>3, <2>2, <2>3, <2>4, <2>5, <2>6, OneViewer
<1>4. \/ appendLog(0) /\ UNCHANGED <<viewer, clients>>
      \/ /\ UNCHANGED <<transcript, troubles>> /\ viewer' = [viewer EXCEPT ![v] = "gone"]
         /\ clients' = clients \ {v}
  BY Zenon DEF Type, Fine
<1> QED BY Zenon, <1>2, <1>3, <1>4

(* publish writes its chunk to one client; a client that cannot be written   *)
(* to is removed.                                                            *)
LEMMA SendStep ==
    ASSUME StreamIInv, NEW v \in Viewers, Send(v)
    PROVE  StreamIInv'
<1>1. /\ UNCHANGED <<reader, said, log, transcript, viewer, past, troubles>> /\ up
      /\ reader = "send" /\ v \in receivers /\ receivers' = receivers \ {v}
  BY Zenon DEF Send
<1>2. Watches(v) /\ StreamTypes /\ screen[v] \in Seq(Nat) /\ said \in Nat
  <2>1. Watches(v) /\ StreamTypes
    BY Zenon, <1>1 DEF StreamIInv
  <2>2. screen \in [Viewers -> Seq(Nat)] /\ said \in Nat
    BY Zenon, <2>1 DEF StreamTypes
  <2> QED BY Zenon, <2>1, <2>2
<1>3. Told' = Told /\ Due(v) = {said} /\ Due(v)' = {}
  BY Zenon, <1>1 DEF Told, Due
<1>4. up' = up /\ troubles \subseteq troubles'
  BY Zenon, <1>1, UpSame
<1>5. "append" \notin troubles => Written(v) /\ said \in Range(transcript)
  BY Zenon, <1>1 DEF StreamIInv, Transcribed
<1>6. CASE connected(v)
  <2>1. screen' = [screen EXCEPT ![v] = Append(screen[v], said)] /\ clients' = clients
    BY Zenon, <1>6 DEF Send
  <2>2. v \in clients /\ IsInjective(screen[v]) /\ said \notin Range(screen[v])
    BY Zenon, <1>2, <1>3, <1>6 DEF Watches
  <2> DEFINE more == Append(screen[v], said)
  <2>3. more \in Seq(Nat) /\ Range(more) = Range(screen[v]) \cup Due(v) /\ IsInjective(more)
    BY Zenon, <1>2, <1>3, <2>2, OneMore
  <2> HIDE DEF more
  <2>4. /\ screen'[v] = more /\ screen' \in [Viewers -> Seq(Nat)]
        /\ \A u \in Viewers \ {v} : screen'[u] = screen[u]
    <3>1. screen' = [screen EXCEPT ![v] = more] /\ screen \in [Viewers -> Seq(Nat)]
      BY Zenon, <1>2, <2>1 DEF more, StreamTypes
    <3> QED BY <2>3, <3>1
  <2>5. Range(screen'[v]) \cup Due(v)' = Range(screen[v]) \cup Due(v)
    BY Zenon, <1>3, <2>3, <2>4
  <2>6. Watches(v)'
    <3>1. /\ v \in clients' /\ IsInjective(screen'[v]) /\ Range(screen'[v]) \cap Due(v)' = {}
          /\ viewer'[v] \notin {"away", "found"}
      <4>1. viewer'[v] \notin {"away", "found"}
        BY <1>1, <1>6 DEF connected
      <4> QED BY Zenon, <1>3, <2>1, <2>2, <2>3, <2>4, <4>1
    <3>2. \A h : History(past[v], h) => History(past'[v], h)
      BY Zenon, <1>1
    <3>3. viewer'[v] = "joined" =>
             \E h \in 0..Told' : History(past'[v], h) /\ Range(screen'[v]) \cup Due(v)' = (h + 1)..Told'
      BY Zenon, <1>1, <1>2, <1>3, <2>5, <3>2 DEF Watches
    <3>4. viewer'[v] = "streaming" =>
             \E k \in 1..(Told' + 1) : /\ Range(screen'[v]) \cup Due(v)' = k..Told'
                                       /\ k <= 1 \/ k <= Told' - MaxLog + 1
      BY Zenon, <1>1, <1>2, <1>3, <2>5 DEF Watches
    <3> QED BY Zenon, <3>1, <3>3, <3>4 DEF Watches, History
  <2>7. StreamTypes'
    BY Zenon, <1>1, <1>2, <2>4 DEF StreamTypes
  <2>8. "append" \notin troubles => Written(v)'
    BY Zenon, <1>1, <1>3, <1>5, <2>3, <2>4 DEF Written
  <2> QED BY Zenon, <1>1, <1>4, <2>1, <2>4, <2>6, <2>7, <2>8, OneViewer
<1>7. CASE ~connected(v)
  <2>1. clients' = clients \ {v} /\ screen' = screen
    BY Zenon, <1>7 DEF Send
  <2>2. viewer[v] \notin {"away", "found"}
    BY Zenon, <1>1, <1>2 DEF Watches
  <2>3. Watches(v)'
    <3>1. viewer'[v] \notin {"away", "found"} /\ ~connected(v)'
      BY Zenon, <1>1, <1>7, <2>2 DEF connected
    <3> QED BY Zenon, <3>1 DEF Watches, connected
  <2>4. StreamTypes'
    BY Zenon, <1>1, <1>2, <2>1 DEF StreamTypes
  <2>5. "append" \notin troubles => Written(v)'
    BY Zenon, <1>1, <1>5, <2>1 DEF Written
  <2> QED BY Zenon, <1>1, <1>4, <2>1, <2>3, <2>4, <2>5, OneViewer
<1> QED BY Zenon, <1>6, <1>7

(* publish keeps its chunk and makes it due to every client of the moment.   *)
LEMMA ShareStep ==
    ASSUME StreamIInv, Share
    PROVE  StreamIInv'
<1>1. /\ UNCHANGED <<said, transcript, clients, viewer, past, screen, troubles>> /\ up
      /\ reader = "share" /\ reader' = "send" /\ receivers' = clients /\ log' = Trimmed(Append(log, said))
  BY Zenon DEF Share, audience
<1>2. StreamTypes /\ receivers = {} /\ History(log, Told) /\ said \in Nat
  <2>1. reader # "send"
    BY <1>1
  <2> QED BY Zenon, <1>1, <2>1 DEF StreamIInv, StreamTypes
<1>3. Told \in Nat /\ said = Told + 1 /\ Told' = said
  <2>1. reader \in {"append", "share"} /\ reader' \notin {"append", "share"}
    BY <1>1
  <2> QED BY Zenon, <1>1, <1>2, <2>1, ToldIsANumber DEF Told
<1>4. up' = up /\ troubles \subseteq troubles'
  BY Zenon, <1>1, UpSame
<1>5. History(log', said) /\ Range(log') \subseteq Range(log) \cup {said}
  BY Zenon, <1>1, <1>2, <1>3, HistoryGrows
<1>6. StreamTypes'
  <2>1. said >= 1
    BY <1>3
  <2> QED BY Zenon, <1>1, <1>2, <2>1 DEF StreamTypes
<1>7. Transcribed'
  <2>1. "append" \notin troubles => /\ Range(log) \subseteq Range(transcript) /\ said \in Range(transcript)
                                    /\ \A v \in Viewers : Written(v)
    BY Zenon, <1>1 DEF StreamIInv, Transcribed
  <2>2. \A v \in Viewers : Written(v) => Written(v)'
    BY Zenon, <1>1 DEF Written
  <2> QED BY Zenon, <1>1, <1>5, <2>1, <2>2 DEF Transcribed
<1>8. ASSUME NEW v \in Viewers PROVE Watches(v)'
  <2>1. Watches(v) /\ Due(v) = {}
    BY Zenon, <1>1, <1>2 DEF StreamIInv, Due
  <2>2. v \in clients => Due(v)' = {said}
    BY Zenon, <1>1 DEF Due
  <2>3. CASE viewer[v] = "joined"
    <3>1. v \in clients /\ IsInjective(screen[v])
      BY Zenon, <2>1, <2>3 DEF Watches, connected
    <3>2. PICK h \in 0..Told : History(past[v], h) /\ Range(screen[v]) = (h + 1)..Told
      BY Zenon, <2>1, <2>3 DEF Watches
    <3>3. h \in 0..said /\ Range(screen[v]) \cup {said} = (h + 1)..said /\ said \notin Range(screen[v])
      BY <1>3, <3>2, ConsoleAssumption
    <3>4. \E x \in 0..Told' : History(past[v], x)' /\ Range(screen'[v]) \cup Due(v)' = (x + 1)..Told'
      BY Zenon, <1>1, <1>3, <2>2, <3>1, <3>2, <3>3 DEF History
    <3>5. v \in clients' /\ IsInjective(screen'[v]) /\ Range(screen'[v]) \cap Due(v)' = {}
      BY Zenon, <1>1, <2>2, <3>1, <3>3
    <3>6. viewer'[v] \notin {"away", "found"} /\ viewer'[v] # "streaming"
      BY <1>1, <2>3
    <3> QED BY Zenon, <3>4, <3>5, <3>6 DEF Watches
  <2>4. CASE viewer[v] = "streaming"
    <3>1. v \in clients /\ IsInjective(screen[v])
      BY Zenon, <2>1, <2>4 DEF Watches, connected
    <3>2. PICK k \in 1..(Told + 1) : Range(screen[v]) = k..Told /\ (k <= 1 \/ k <= Told - MaxLog + 1)
      BY Zenon, <2>1, <2>4 DEF Watches
    <3>3. /\ k \in 1..(said + 1) /\ Range(screen[v]) \cup {said} = k..said /\ said \notin Range(screen[v])
          /\ k <= 1 \/ k <= said - MaxLog + 1
      BY <1>3, <3>2, ConsoleAssumption
    <3>4. \E x \in 1..(Told' + 1) : /\ Range(screen'[v]) \cup Due(v)' = x..Told'
                                    /\ x <= 1 \/ x <= Told' - MaxLog + 1
      BY Zenon, <1>1, <1>3, <2>2, <3>1, <3>3
    <3>5. v \in clients' /\ IsInjective(screen'[v]) /\ Range(screen'[v]) \cap Due(v)' = {}
      BY Zenon, <1>1, <2>2, <3>1, <3>3
    <3>6. viewer'[v] \notin {"away", "found"} /\ viewer'[v] # "joined"
      BY <1>1, <2>4
    <3> QED BY Zenon, <3>4, <3>5, <3>6 DEF Watches
  <2>5. CASE ~connected(v)
    <3>1. ~connected(v)'
      BY Zenon, <1>1, <2>5 DEF connected
    <3> QED BY Zenon, <1>1, <2>1, <3>1 DEF Watches, connected
  <2> QED BY Zenon, <2>3, <2>4, <2>5 DEF connected
<1>9. History(log, Told)'
  BY Zenon, <1>3, <1>5 DEF History
<1> QED BY Zenon, <1>1, <1>4, <1>6, <1>7, <1>8, <1>9 DEF StreamIInv

(* readTerminal reads a chunk, writes it to the transcript, and goes on when *)
(* every client has it.                                                      *)
LEMMA ReadStep ==
    ASSUME StreamIInv, ReadTerminal
    PROVE  StreamIInv'
<1>1. /\ UNCHANGED <<log, receivers, transcript, clients, viewer, past, screen, troubles>>
      /\ up /\ reader = "read"
      /\ (said' = said /\ reader' = "off") \/ (said' = said + 1 /\ reader' = "append")
  BY Zenon DEF ReadTerminal, audience
<1>2. up' = up /\ troubles \subseteq troubles' /\ said \in Nat /\ receivers = {} /\ StreamTypes
  <2>1. reader # "send"
    BY <1>1
  <2> QED BY Zenon, <1>1, <2>1, UpSame DEF StreamIInv, StreamTypes
<1>3. Told = said
  <2>1. reader \notin {"append", "share"}
    BY <1>1
  <2> QED BY Zenon, <2>1 DEF Told
<1>4. CASE said' = said /\ reader' = "off"
  <2>1. reader' \notin {"append", "share"} /\ reader' \notin {"append", "share", "send"}
    BY <1>4
  <2>2. Told' = Told
    BY Zenon, <1>3, <1>4, <2>1 DEF Told
  <2> QED BY Zenon, <1>1, <1>2, <1>4, <2>1, <2>2, NothingShown
<1>5. CASE said' = said + 1 /\ reader' = "append"
  <2>1. said' \in Nat /\ said' >= 1 /\ said' - 1 = said
    BY <1>2, <1>5
  <2>2. reader' \in {"append", "share"} /\ reader' \notin {"share", "send"}
    BY <1>5
  <2>3. Told' = Told
    BY Zenon, <1>3, <2>1, <2>2 DEF Told
  <2>4. StreamTypes'
    BY Zenon, <1>1, <1>2, <2>1 DEF StreamTypes
  <2>5. Transcribed'
    BY Zenon, <1>1, <2>2 DEF StreamIInv, Transcribed, Written
  <2>6. \A v \in Viewers : Due(v)' = Due(v)
    BY Zenon, <1>1, <1>2 DEF Due
  <2>7. \A v \in Viewers : Watches(v)'
    BY Zenon, <1>1, <2>3, <2>6, WatchStays DEF StreamIInv
  <2>8. History(log, Told)'
    <3>1. History(log, Told)
      BY Zenon, <1>1 DEF StreamIInv
    <3> QED BY Zenon, <1>1, <2>3, <3>1 DEF History
  <2> QED BY Zenon, <1>1, <1>2, <2>4, <2>5, <2>7, <2>8 DEF StreamIInv
<1> QED BY Zenon, <1>1, <1>4, <1>5

(* publish writes to the transcript before anybody sees the chunk.           *)
LEMMA AppendStep ==
    ASSUME StreamIInv, AppendOutput
    PROVE  StreamIInv'
<1>1. /\ UNCHANGED <<said, log, receivers, clients, viewer, past, screen>>
      /\ up /\ reader = "append" /\ reader' = "share" /\ appendLog(said)
  BY Zenon DEF AppendOutput, audience
<1>2. /\ StreamTypes /\ receivers = {} /\ said \in Nat /\ said >= 1 /\ transcript \in Seq(Nat)
      /\ History(log, Told)
  <2>1. reader # "send" /\ reader \in {"append", "share", "send"}
    BY <1>1
  <2> QED BY Zenon, <1>1, <2>1 DEF StreamIInv, StreamTypes
<1>3. /\ transcript' \in Seq(Nat) /\ Range(transcript) \subseteq Range(transcript')
      /\ "append" \notin troubles' => said \in Range(transcript')
      /\ up' = up /\ troubles \subseteq troubles'
  BY Zenon, <1>1, <1>2, LogGrows
<1>4. Told' = Told /\ \A v \in Viewers : Due(v)' = Due(v)
  <2>1. reader \in {"append", "share"} /\ reader' \in {"append", "share"}
    BY <1>1
  <2> QED BY Zenon, <1>1, <2>1 DEF Told, Due
<1>5. StreamTypes'
  BY Zenon, <1>1, <1>2, <1>3 DEF StreamTypes
<1>6. Transcribed'
  <2>1. "append" \notin troubles' => Range(log) \subseteq Range(transcript) /\ \A v \in Viewers : Written(v)
    BY Zenon, <1>3 DEF StreamIInv, Transcribed
  <2>2. \A v \in Viewers : Written(v) => Written(v)'
    BY Zenon, <1>1, <1>3 DEF Written
  <2> QED BY Zenon, <1>1, <1>3, <2>1, <2>2 DEF Transcribed
<1>7. \A v \in Viewers : Watches(v)'
  BY Zenon, <1>1, <1>4, WatchStays DEF StreamIInv
<1>8. History(log, Told)'
  BY Zenon, <1>1, <1>2, <1>4 DEF History
<1> QED BY Zenon, <1>1, <1>2, <1>3, <1>5, <1>6, <1>7, <1>8 DEF StreamIInv

(* publish has written to every client.                                      *)
LEMMA SentStep ==
    ASSUME StreamIInv, Sent
    PROVE  StreamIInv'
<1>1. /\ UNCHANGED <<said, log, receivers, transcript, clients, viewer, past, screen, troubles>>
      /\ up /\ reader = "send" /\ reader' = "read" /\ receivers = {}
  BY Zenon DEF Sent, audience
<1>2. reader' \notin {"append", "share", "send"} /\ reader' \notin {"append", "share"} /\ reader \notin {"append", "share"}
  BY <1>1
<1>3. Told' = Told /\ up' = up /\ troubles \subseteq troubles'
  BY Zenon, <1>1, <1>2, UpSame DEF Told
<1> QED BY Zenon, <1>1, <1>2, <1>3, NothingShown

(* A crash disconnects every viewer and leaves the transcript.               *)
LEMMA CrashShows ==
    ASSUME StreamIInv, ConsoleCrash
    PROVE  StreamIInv'
<1>1. /\ UNCHANGED <<said, log, transcript, past, screen>> /\ reader' = "off"
      /\ viewer' = [v \in Viewers |-> IF viewer[v] = "away" THEN "away" ELSE "gone"]
      /\ troubles' = troubles \cup {"crash"}
  BY Zenon DEF ConsoleCrash, Trouble
<1>2. reader' \notin {"append", "share", "send"} /\ reader' \notin {"share", "send"}
  BY <1>1
<1>3. DOMAIN viewer' = Viewers /\ \A v \in Viewers : viewer'[v] \in {"away", "gone"}
  BY <1>1
<1>4. ~up' /\ \A v \in Viewers : ~connected(v)'
  <2>1. ~up'
    BY Zenon, <1>1 DEF up
  <2>2. \A v \in Viewers : ~connected(v)'
    BY <1>3 DEF connected
  <2> QED BY Zenon, <2>1, <2>2
<1>5. StreamTypes'
  BY Zenon, <1>1, <1>2, <1>3 DEF StreamIInv, StreamTypes
<1>6. Transcribed'
  <2>1. "append" \notin troubles' => "append" \notin troubles
    BY Zenon, <1>1
  <2> QED BY Zenon, <1>1, <1>2, <2>1 DEF StreamIInv, Transcribed, Written
<1> QED BY Zenon, <1>4, <1>5, <1>6 DEF StreamIInv

(* Every step of the server, its clients, the shell and the network.         *)
LEMMA StreamStep == SessionIInv /\ StreamIInv /\ [ConsoleNext]_consoleVars => StreamIInv'
<1> SUFFICES ASSUME SessionIInv, StreamIInv, [ConsoleNext]_consoleVars PROVE StreamIInv'
  OBVIOUS
<1>1. CASE \/ OpenSession \/ CreatePod \/ waitForPod \/ StartShell \/ Unsupported \/ OpenFailed \/ Connect
           \/ Undo \/ Register \/ RecordConnected \/ Abandon \/ CloseSession \/ FinishClose \/ FinishSave \/ FinishDrop
           \/ ShellEnds \/ ExecuteCommand \/ RunConsoleCommand \/ SaveCommandEnd \/ UNCHANGED consoleVars
  BY Zenon, <1>1, SessionShowsNothing
<1>2. CASE ReadTerminal \/ AppendOutput \/ Share \/ Sent \/ ConsoleCrash
  BY Zenon, <1>2, ReadStep, AppendStep, ShareStep, SentStep, CrashShows
<1>3. ASSUME NEW v \in Viewers, \/ Send(v) \/ Join(v) \/ WriteHistory(v) \/ removeClient(v)
                                \/ Lookup(v) \/ Type(v) \/ Drop(v) \/ Stall(v)
      PROVE  StreamIInv'
  BY Zenon, <1>3, SendStep, JoinStep, WriteHistoryStep, TypeStep, ViewerMoves
<1> QED BY Zenon, <1>1, <1>2, <1>3 DEF ConsoleNext, ServerStep

(* Nothing has been said and nobody watches.                                 *)
LEMMA StreamInit == ConsoleInit => StreamIInv
<1> SUFFICES ASSUME ConsoleInit PROVE StreamIInv
  OBVIOUS
<1>1. /\ reader = "off" /\ said = 0 /\ log = <<>> /\ transcript = <<>> /\ receivers = {} /\ clients = {}
      /\ viewer = [v \in Viewers |-> "away"] /\ past = [v \in Viewers |-> <<>>]
      /\ screen = [v \in Viewers |-> <<>>] /\ troubles = {}
  BY Zenon DEF ConsoleInit
<1>2. <<>> \in Seq(Nat) /\ Range(<<>>) = {}
  BY DEF Range
<1>3. Told = 0
  BY <1>1 DEF Told
<1>4. StreamTypes
  BY <1>1, <1>2 DEF StreamTypes
<1>5. Transcribed
  <2>1. Range(log) = {} /\ \A v \in Viewers : Range(screen[v]) = {} /\ Range(past[v]) = {}
    BY Zenon, <1>1, <1>2
  <2>2. reader \notin {"share", "send"}
    BY <1>1
  <2> QED BY Zenon, <2>1, <2>2 DEF Transcribed, Written
<1>6. History(log, Told)
  BY <1>1, <1>3, ConsoleAssumption DEF History
<1>7. \A v \in Viewers : Watches(v)
  BY <1>1 DEF Watches, connected
<1>8. up /\ \A v \in Viewers : ~connected(v)
  BY <1>1 DEF up, connected
<1> QED BY Zenon, <1>1, <1>4, <1>5, <1>6, <1>7, <1>8 DEF StreamIInv

(* A viewer whose connection works has every chunk once, from the oldest     *)
(* that the session remembered when it joined, and nobody saw a chunk that   *)
(* the transcript lacks (publish, StreamSession): for any number of viewers, *)
(* any output and any length of the log.                                     *)
THEOREM ViewersNeverMiss == ConsoleSpec => []ViewersMissNothing
<1>1. SessionIInv /\ StreamIInv => ViewersMissNothing
  <2> SUFFICES ASSUME StreamIInv PROVE ViewersMissNothing
    OBVIOUS
  <2>1. ASSUME NEW v \in Viewers, viewer[v] = "streaming"
        PROVE  /\ IsInjective(screen[v]) /\ Range(screen[v]) \cap Due(v) = {}
               /\ \E k \in 1..(Told + 1) : Range(screen[v]) \cup Due(v) = k..Told /\ (k <= 1 \/ k <= Told - MaxLog + 1)
    <3>1. connected(v)
      BY <2>1 DEF connected
    <3>2. Watches(v)
      BY Zenon, <3>1 DEF StreamIInv
    <3> QED BY Zenon, <2>1, <3>1, <3>2 DEF Watches
  <2>2. "append" \notin troubles => \A v \in Viewers : Range(screen[v]) \cup Range(past[v]) \subseteq Range(transcript)
    BY Zenon DEF StreamIInv, Transcribed, Written
  <2> QED BY Zenon, <2>1, <2>2 DEF ViewersMissNothing, Due, Told
<1>2. ConsoleInit => SessionIInv /\ StreamIInv
  BY Zenon, SessionInit, StreamInit
<1>3. SessionIInv /\ StreamIInv /\ [ConsoleNext]_consoleVars => SessionIInv' /\ StreamIInv'
  BY Zenon, SessionStep, StreamStep
<1> QED BY <1>1, <1>2, <1>3, PTL DEF ConsoleSpec

-----------------------------------------------------------------------------
(* The cleaner of the job history *)

KJobs == [state : {"none", "active", "backoff", "succeeded", "failed"}, number : Nat, since : Nat, ended : Nat]
Visiting == {"pods", "services", "jobs"}
Sweeps == [at : {"resting", "choosing"} \cup Visiting, left : SUBSET JobNames, name : JobNames \cup {""},
           listed : [JobNames -> Nat]]

HistoryTypeOK ==
    /\ kjob \in [JobNames -> KJobs] /\ sweep \in Sweeps
    /\ hours \in Nat /\ launches \in Nat

\* The cleaner still has something to remove under this name.
OnList(n) == n \in sweep.left \/ (sweep.at \in Visiting /\ sweep.name = n)

\* Numbers are given once, so the number on the list tells whether the job is
\* still the one that was listed.
ListInv(n) ==
    /\ kjob[n].number <= launches /\ sweep.listed[n] <= launches
    /\ kjob[n].state # "none" => kjob[n].number # 0
    /\ kjob[n].state = "backoff" => n \in Retries
    /\ OnList(n) => sweep.listed[n] # 0 /\ (kjob[n].number = sweep.listed[n] \/ n \in disturbed)
    /\ (sweep.listed[n] # 0 /\ kjob[n].number = sweep.listed[n] /\ n \notin Retries) =>
          kjob[n].state \in {"succeeded", "failed"} /\ kjob[n].ended <= hours - Retention

HistoryIInv ==
    /\ HistoryTypeOK
    /\ sweep.at \in Visiting => sweep.name \in JobNames \ sweep.left
    /\ \A n \in JobNames : ListInv(n)

(* A job without a state is no job.                                          *)
LEMMA NoKJobIsOne ==
    /\ NoKJob \in KJobs /\ NoKJob.number = 0 /\ NoKJob.state = "none" /\ NoKJob.ended = 0
    /\ Resting \in Sweeps /\ Resting.at = "resting" /\ Resting.left = {} /\ \A n \in JobNames : Resting.listed[n] = 0
<1>1. NoKJob \in KJobs /\ NoKJob.number = 0 /\ NoKJob.state = "none" /\ NoKJob.ended = 0
  BY SMTT(30) DEF NoKJob, KJobs
<1>2. Resting \in Sweeps /\ Resting.at = "resting" /\ Resting.left = {} /\ Resting.listed = [n \in JobNames |-> 0]
  BY DEF Resting, Sweeps, Visiting
<1> QED BY Zenon, <1>1, <1>2

(* A step of one job, or of nobody: the other jobs keep what the list says.  *)
LEMMA JobChanges ==
    ASSUME HistoryIInv, NEW n \in JobNames, NEW j \in KJobs, kjob' = [kjob EXCEPT ![n] = j],
           sweep' = sweep, hours' = hours, disturbed \subseteq disturbed', launches' \in Nat, launches' >= launches,
           ListInv(n)'
    PROVE  HistoryIInv'
<1>1. HistoryTypeOK' /\ \A m \in JobNames \ {n} : kjob'[m] = kjob[m]
  BY ZenonT(30) DEF HistoryIInv, HistoryTypeOK
<1>2. ASSUME NEW m \in JobNames \ {n} PROVE ListInv(m)'
  <2>1. ListInv(m) /\ kjob[m].number \in Nat /\ sweep.listed[m] \in Nat /\ launches \in Nat
    BY ZenonT(30) DEF HistoryIInv, HistoryTypeOK, KJobs, Sweeps
  <2>2. kjob'[m].number <= launches' /\ sweep.listed[m] <= launches'
    BY SMTT(30), <1>1, <2>1 DEF ListInv
  <2>3. OnList(m)' = OnList(m)
    BY Zenon DEF OnList
  <2> QED BY SMTT(30), <1>1, <2>1, <2>2, <2>3 DEF ListInv
<1> QED BY Zenon, <1>1, <1>2 DEF HistoryIInv

(* A step of the cleaner that keeps the jobs and takes no new name.          *)
LEMMA SweepMoves ==
    ASSUME HistoryIInv, sweep' \in Sweeps, sweep'.listed = sweep.listed,
           sweep'.at \in Visiting => sweep'.name \in JobNames \ sweep'.left,
           \A n \in JobNames : OnList(n)' => OnList(n),
           UNCHANGED <<kjob, hours, launches>>, disturbed \subseteq disturbed'
    PROVE  HistoryIInv'
<1>1. HistoryTypeOK'
  BY ZenonT(30) DEF HistoryIInv, HistoryTypeOK
<1>2. ASSUME NEW n \in JobNames PROVE ListInv(n)'
  <2>1. ListInv(n) /\ (OnList(n)' => OnList(n))
    BY Zenon DEF HistoryIInv
  <2> QED BY <2>1 DEF ListInv
<1> QED BY Zenon, <1>1, <1>2 DEF HistoryIInv

(* The cleaner rests again, after a sweep or a restart.                      *)
LEMMA SweepEnds ==
    ASSUME HistoryIInv, sweep' = Resting, UNCHANGED <<kjob, hours, launches, disturbed>>
    PROVE  HistoryIInv'
<1>1. HistoryTypeOK'
  BY ZenonT(30), NoKJobIsOne DEF HistoryIInv, HistoryTypeOK
<1>2. ASSUME NEW n \in JobNames PROVE ListInv(n)'
  <2>1. ListInv(n) /\ sweep'.listed[n] = 0 /\ launches \in Nat
    BY Zenon, NoKJobIsOne DEF HistoryIInv, HistoryTypeOK
  <2>2. ~OnList(n)'
    BY SMTT(30), NoKJobIsOne DEF OnList, Visiting
  <2> QED BY <2>1, <2>2 DEF ListInv
<1>3. sweep'.at \notin Visiting
  BY NoKJobIsOne DEF Visiting
<1> QED BY Zenon, <1>1, <1>2, <1>3 DEF HistoryIInv

(* What the invariant says about a single job, with its types.               *)
LEMMA JobFacts ==
    ASSUME HistoryIInv, NEW n \in JobNames
    PROVE  /\ ListInv(n) /\ kjob[n] \in KJobs /\ kjob[n].number \in Nat /\ kjob[n].ended \in Nat
           /\ sweep.listed[n] \in Nat /\ launches \in Nat /\ hours \in Nat /\ DOMAIN kjob = JobNames
BY Zenon DEF HistoryIInv, HistoryTypeOK, KJobs, Sweeps

(* Adapter.Start: a new job gets a number that is on no list.                *)
LEMMA StartJobStep ==
    ASSUME HistoryIInv, NEW n \in JobNames, StartJob(n)
    PROVE  HistoryIInv'
<1>1. /\ launches' = launches + 1 /\ kjob[n] = NoKJob
      /\ UNCHANGED <<hours, sweep, disturbed>> /\ (UNCHANGED kjob \/ PlaceJob(n))
  BY Zenon DEF StartJob
<1>2. ListInv(n) /\ launches \in Nat /\ launches' \in Nat /\ launches' >= launches /\ hours \in Nat /\ sweep.listed[n] \in Nat
  BY <1>1, JobFacts
<1>3. OnList(n)' = OnList(n)
  BY Zenon, <1>1 DEF OnList
<1>4. OnList(n) => n \in disturbed
  <2>1. kjob[n].number = 0
    BY Zenon, <1>1, NoKJobIsOne
  <2> QED BY Zenon, <1>2, <2>1 DEF ListInv
<1>5. CASE UNCHANGED kjob
  <2>1. ListInv(n)'
    BY SMTT(30), <1>1, <1>2, <1>3, <1>5, NoKJobIsOne DEF ListInv
  <2>2. kjob' = [kjob EXCEPT ![n] = kjob[n]] /\ kjob[n] \in KJobs
    BY Zenon, <1>5, JobFacts DEF HistoryIInv, HistoryTypeOK
  <2> QED BY ZenonT(30), <1>1, <1>2, <2>1, <2>2, JobChanges
<1>6. CASE PlaceJob(n)
  <2> DEFINE j == [state |-> "active", number |-> launches', since |-> hours, ended |-> 0]
  <2>1. kjob' = [kjob EXCEPT ![n] = j]
    BY Zenon, <1>6 DEF PlaceJob
  <2>2. j \in KJobs /\ j.state = "active" /\ j.number = launches'
    BY <1>2 DEF KJobs
  <2>3. kjob'[n] = j
    BY ZenonT(30), <2>1, JobFacts
  <2> HIDE DEF j
  <2>4. ListInv(n)'
    <3>1. sweep.listed[n] <= launches
      BY Zenon, <1>2 DEF ListInv
    <3> QED BY SMTT(30), <1>1, <1>2, <1>3, <1>4, <2>2, <2>3, <3>1 DEF ListInv
  <2> QED BY Zenon, <1>1, <1>2, <2>1, <2>2, <2>4, JobChanges
<1> QED BY Zenon, <1>1, <1>5, <1>6

(* Adapter.Stop: whoever stops a listed job disturbs the sweep.              *)
LEMMA StopJobStep ==
    ASSUME HistoryIInv, NEW n \in JobNames, StopJob(n)
    PROVE  HistoryIInv'
<1>1. /\ UNCHANGED <<hours, sweep, launches>> /\ disturbed \subseteq disturbed'
      /\ \/ UNCHANGED kjob
         \/ kjob' = [kjob EXCEPT ![n] = NoKJob] /\ (sweep.listed[n] = 0 \/ n \in disturbed')
  BY ZenonT(30) DEF StopJob, RemoveJob
<1>2. ListInv(n) /\ launches \in Nat /\ kjob[n] \in KJobs /\ launches' >= launches /\ sweep.listed[n] \in Nat
  BY <1>1, JobFacts
<1>3. OnList(n)' = OnList(n)
  BY Zenon, <1>1 DEF OnList
<1>4. CASE UNCHANGED kjob
  <2>1. ListInv(n)'
    BY SMTT(30), <1>1, <1>2, <1>3, <1>4 DEF ListInv
  <2>2. kjob' = [kjob EXCEPT ![n] = kjob[n]]
    BY Zenon, <1>4 DEF HistoryIInv, HistoryTypeOK
  <2> QED BY ZenonT(30), <1>1, <1>2, <2>1, <2>2, JobChanges
<1>5. CASE kjob' = [kjob EXCEPT ![n] = NoKJob] /\ (sweep.listed[n] = 0 \/ n \in disturbed')
  <2>1. kjob'[n] = NoKJob
    BY ZenonT(30), <1>5, JobFacts
  <2>2. ListInv(n)'
    BY SMTT(30), <1>1, <1>2, <1>3, <1>5, <2>1, NoKJobIsOne DEF ListInv
  <2> QED BY Zenon, <1>1, <1>2, <1>5, <2>2, NoKJobIsOne, JobChanges
<1> QED BY Zenon, <1>1, <1>4, <1>5

(* A pod ends or is tried again: only jobs that are not listed, or retry,    *)
(* are active.                                                               *)
LEMMA PodStep ==
    ASSUME HistoryIInv, NEW n \in JobNames, PodEnds(n) \/ PodRetried(n)
    PROVE  HistoryIInv'
<1>1. UNCHANGED <<hours, sweep, disturbed, launches>>
  BY Zenon DEF PodEnds, PodRetried
<1>2. PICK j \in KJobs : /\ kjob' = [kjob EXCEPT ![n] = j] /\ j.number = kjob[n].number
                         /\ j.state # "none" /\ (j.state = "backoff" => n \in Retries)
  <2>0. kjob[n] \in KJobs /\ hours \in Nat
    BY Zenon, JobFacts
  <2>1. CASE PodEnds(n)
    <3>1. PICK s \in {"succeeded", "failed"} \cup (IF n \in Retries THEN {"backoff"} ELSE {}) :
             kjob' = [kjob EXCEPT ![n] = [@ EXCEPT !.state = s, !.ended = IF s = "backoff" THEN 0 ELSE hours]]
      BY Zenon, <2>1 DEF PodEnds
    <3>2. PICK h \in Nat : h = IF s = "backoff" THEN 0 ELSE hours
      BY <2>0
    <3>3. s \in {"backoff", "succeeded", "failed"} /\ (s = "backoff" => n \in Retries)
      BY Zenon, <3>1
    <3> DEFINE j == [kjob[n] EXCEPT !.state = s, !.ended = h]
    <3>4. j \in KJobs /\ j.number = kjob[n].number /\ j.state = s
      BY Zenon, <2>0, <3>2, <3>3 DEF KJobs
    <3>5. kjob' = [kjob EXCEPT ![n] = j]
      BY Zenon, <3>1, <3>2
    <3>6. j.state # "none" /\ (j.state = "backoff" => n \in Retries)
      BY <3>3, <3>4
    <3> HIDE DEF j
    <3> QED BY Zenon, <3>4, <3>5, <3>6
  <2>2. CASE PodRetried(n)
    <3> DEFINE j == [kjob[n] EXCEPT !.state = "active"]
    <3>1. j \in KJobs /\ j.number = kjob[n].number /\ j.state = "active"
      BY <2>0 DEF KJobs
    <3>2. kjob' = [kjob EXCEPT ![n] = j]
      BY Zenon, <2>2 DEF PodRetried
    <3>3. j.state # "none" /\ j.state # "backoff"
      BY SMTT(30), <3>1
    <3> HIDE DEF j
    <3> QED BY Zenon, <3>1, <3>2, <3>3
  <2> QED BY Zenon, <2>1, <2>2
<1>3. ListInv(n) /\ kjob[n] \in KJobs /\ launches \in Nat /\ launches' >= launches
  BY <1>1, JobFacts
<1>4. kjob[n].state \in {"active", "backoff"} /\ (kjob[n].state = "backoff" => n \in Retries)
  BY Zenon, <1>3 DEF ListInv, PodEnds, PodRetried
<1>6. kjob'[n] = j
  BY Zenon, <1>2, JobFacts
<1>7. OnList(n)' = OnList(n)
  BY ZenonT(30), <1>1 DEF OnList
<1>8. ListInv(n)'
  BY SMTT(30), <1>1, <1>2, <1>3, <1>4, <1>6, <1>7 DEF ListInv
<1> QED BY Zenon, <1>1, <1>2, <1>3, <1>8, JobChanges

(* The clock: what has expired stays expired.                                *)
LEMMA HourStep ==
    ASSUME HistoryIInv, Hour
    PROVE  HistoryIInv'
<1>1. hours' = hours + 1 /\ UNCHANGED <<kjob, sweep, disturbed, launches>>
  BY Zenon DEF Hour
<1>2. HistoryTypeOK'
  BY SMTT(20), <1>1 DEF HistoryIInv, HistoryTypeOK
<1>3. ASSUME NEW n \in JobNames PROVE ListInv(n)'
  <2>1. ListInv(n) /\ kjob[n].ended \in Nat /\ hours \in Nat
    BY Zenon, JobFacts
  <2>2. OnList(n)' = OnList(n)
    BY ZenonT(30), <1>1 DEF OnList
  <2>3. kjob[n].ended <= hours - Retention => kjob[n].ended <= hours' - Retention
    BY <1>1, <2>1, HistoryAssumption
  <2> QED BY <1>1, <2>1, <2>2, <2>3 DEF ListInv
<1> QED BY Zenon, <1>1, <1>2, <1>3 DEF HistoryIInv

(* Cleanup: the jobs that are listed have ended, or retry.                   *)
LEMMA CleanupStep ==
    ASSUME HistoryIInv, Cleanup
    PROVE  HistoryIInv'
<1> DEFINE old == {n \in JobNames : expired(n)}
           list == [n \in JobNames |-> IF n \in old THEN kjob[n].number ELSE 0]
<1>1. /\ UNCHANGED <<kjob, hours, disturbed, launches>>
      /\ sweep' = [at |-> "choosing", left |-> old, name |-> "", listed |-> list]
  BY ZenonT(30) DEF Cleanup
<1>2. list \in [JobNames -> Nat]
  BY JobFacts
<1>3. sweep' \in Sweeps /\ sweep'.left = old /\ sweep'.listed = list /\ sweep'.at = "choosing"
  BY Zenon, <1>1, <1>2 DEF Sweeps
<1>4. HistoryTypeOK' /\ sweep'.at \notin Visiting
  BY Zenon, <1>1, <1>3 DEF HistoryIInv, HistoryTypeOK, Visiting
<1>5. ASSUME NEW n \in JobNames PROVE ListInv(n)'
  <2>1. ListInv(n) /\ kjob[n].number \in Nat /\ launches \in Nat
    BY ZenonT(30), JobFacts
  <2>2. OnList(n)' <=> n \in old
    BY <1>3 DEF OnList, Visiting
  <2>3. sweep'.listed[n] = IF n \in old THEN kjob[n].number ELSE 0
    BY Zenon, <1>3
  <2>4. n \in old => kjob[n].state \in {"backoff", "succeeded", "failed"}
    BY Zenon DEF expired
  <2>5. n \in old /\ n \notin Retries =>
          kjob[n].state \in {"succeeded", "failed"} /\ kjob[n].ended <= hours - Retention
    BY <2>1 DEF expired, ListInv
  <2> HIDE DEF old, list
  <2>6. CASE n \in old
    BY ZenonT(30), <1>1, <2>1, <2>2, <2>3, <2>4, <2>5, <2>6 DEF ListInv
  <2>7. CASE n \notin old
    <3>1. sweep'.listed[n] = 0 /\ ~OnList(n)'
      BY Zenon, <2>2, <2>3, <2>7
    <3>2. UNCHANGED <<kjob, hours, launches>>
      BY Zenon, <1>1
    <3> QED BY <2>1, <3>1, <3>2 DEF ListInv
  <2> QED BY Zenon, <2>6, <2>7
<1> QED BY Zenon, <1>4, <1>5 DEF HistoryIInv

(* A visit of one listed job: pods, service, job.                            *)
LEMMA VisitStep ==
    ASSUME HistoryIInv, NextJob \/ DeletePods \/ DeleteService
    PROVE  HistoryIInv'
<1>t. sweep \in Sweeps
  BY Zenon DEF HistoryIInv, HistoryTypeOK
<1>1. UNCHANGED <<kjob, hours, launches>> /\ disturbed \subseteq disturbed'
  BY Zenon DEF NextJob, DeletePods, DeleteService
<1>2. ASSUME NEW at \in {"choosing", "services", "jobs"}, Then(at), sweep.at \in Visiting
      PROVE  HistoryIInv'
  <2>1. sweep' \in Sweeps /\ sweep'.listed = sweep.listed /\ sweep'.left = sweep.left /\ sweep'.name = sweep.name
    BY Zenon, <1>2, <1>t DEF Then, Sweeps, Visiting
  <2>2. \A n \in JobNames : OnList(n)' => OnList(n)
    BY Zenon, <1>2, <2>1 DEF OnList
  <2> QED BY Zenon, <1>1, <1>2, <2>1, <2>2, SweepMoves DEF HistoryIInv
<1>3. ASSUME NEW n \in sweep.left, sweep' = [sweep EXCEPT !.at = "pods", !.name = n, !.left = @ \ {n}]
      PROVE  HistoryIInv'
  <2>1. sweep' \in Sweeps /\ sweep'.listed = sweep.listed /\ sweep'.left = sweep.left \ {n} /\ sweep'.name = n
    BY Zenon, <1>3, <1>t DEF Sweeps, Visiting
  <2>2. n \in JobNames
    BY Zenon, <1>3, <1>t DEF Sweeps
  <2>3. \A m \in JobNames : OnList(m)' => OnList(m)
    BY Zenon, <1>3, <2>1 DEF OnList
  <2> QED BY Zenon, <1>1, <2>1, <2>2, <2>3, SweepMoves
<1>4. CASE NextJob
  BY Zenon, <1>1, <1>3, <1>4, SweepEnds DEF NextJob
<1>5. CASE DeletePods
  BY Zenon, <1>2, <1>5 DEF DeletePods, Visiting
<1>6. CASE DeleteService
  BY Zenon, <1>2, <1>6 DEF DeleteService, Visiting
<1> QED BY Zenon, <1>4, <1>5, <1>6

(* deleteJobHistory removes the job and the cleaner leaves the name.         *)
LEMMA DeleteJobStep ==
    ASSUME HistoryIInv, DeleteJob
    PROVE  HistoryIInv'
<1>t. sweep \in Sweeps /\ sweep.name \in JobNames \ sweep.left
  BY Zenon DEF HistoryIInv, HistoryTypeOK, DeleteJob, Visiting
<1>1. /\ sweep.at = "jobs" /\ Then("choosing") /\ UNCHANGED <<hours, launches, disturbed>>
      /\ UNCHANGED kjob \/ kjob' = [kjob EXCEPT ![sweep.name] = NoKJob]
  BY Zenon DEF DeleteJob
<1>2. /\ sweep' \in Sweeps /\ sweep'.listed = sweep.listed /\ sweep'.left = sweep.left
      /\ sweep'.at = "choosing"
  BY Zenon, <1>1, <1>t DEF Then, Sweeps, Visiting
<1>3. /\ kjob' \in [JobNames -> KJobs]
      /\ \A n \in JobNames : kjob'[n] = kjob[n] \/ (kjob'[n] = NoKJob /\ n = sweep.name)
  <2>1. kjob \in [JobNames -> KJobs] /\ NoKJob \in KJobs
    BY Zenon, NoKJobIsOne DEF HistoryIInv, HistoryTypeOK
  <2>2. CASE UNCHANGED kjob
    BY ZenonT(30), <2>1, <2>2
  <2>3. CASE kjob' = [kjob EXCEPT ![sweep.name] = NoKJob]
    BY SMTT(20), <1>t, <2>1, <2>3
  <2> QED BY Zenon, <1>1, <2>2, <2>3
<1>4. HistoryTypeOK' /\ sweep'.at \notin Visiting
  BY SMTT(30), <1>1, <1>2, <1>3 DEF HistoryIInv, HistoryTypeOK, Visiting
<1>5. ASSUME NEW n \in JobNames PROVE ListInv(n)'
  <2>1. ListInv(n) /\ launches \in Nat
    BY Zenon, JobFacts
  <2>2. /\ OnList(n)' => OnList(n) /\ n # sweep.name
        /\ n = sweep.name => ~OnList(n)'
    BY Zenon, <1>2, <1>4, <1>t DEF OnList
  <2>3. CASE kjob'[n] = kjob[n]
    <3>1. launches' = launches /\ hours' = hours /\ disturbed' = disturbed /\ sweep'.listed = sweep.listed
      BY Zenon, <1>1, <1>2
    <3>2. OnList(n)' => OnList(n)
      BY Zenon, <2>2
    <3> QED BY Zenon, <2>1, <2>3, <3>1, <3>2 DEF ListInv
  <2>4. CASE kjob'[n] = NoKJob /\ n = sweep.name
    <3>1. ~OnList(n)'
      BY Zenon, <2>2, <2>4
    <3>2. kjob'[n].number = 0 /\ kjob'[n].state = "none"
      BY Zenon, <2>4, NoKJobIsOne
    <3>3. launches' = launches /\ sweep'.listed = sweep.listed
      BY Zenon, <1>1, <1>2
    <3>4. kjob'[n].number <= launches' /\ sweep'.listed[n] <= launches'
      <4>1. sweep.listed[n] <= launches
        BY Zenon, <2>1 DEF ListInv
      <4> QED BY <2>1, <3>2, <3>3, <4>1
    <3>5. sweep'.listed[n] # 0 => kjob'[n].number # sweep'.listed[n]
      BY Zenon, <3>2
    <3> QED BY ZenonT(30), <3>1, <3>2, <3>4, <3>5 DEF ListInv
  <2> QED BY Zenon, <1>3, <2>3, <2>4
<1> QED BY Zenon, <1>4, <1>5 DEF HistoryIInv

(* Every step of the adapter, the cluster and the cleaner keeps the list     *)
(* true of the jobs that are on it.                                          *)
LEMMA HistoryStep == HistoryIInv /\ [JobHistoryNext]_historyVars => HistoryIInv'
<1> SUFFICES ASSUME HistoryIInv, [JobHistoryNext]_historyVars PROVE HistoryIInv'
  BY Zenon
<1>1. CASE UNCHANGED historyVars
  <2>1. UNCHANGED <<kjob, hours, sweep, disturbed, launches>>
    BY Zenon, <1>1 DEF historyVars
  <2>2. \A n \in JobNames : OnList(n)' = OnList(n)
    BY Zenon, <2>1 DEF OnList
  <2> QED BY Zenon, <2>1, <2>2, SweepMoves DEF HistoryIInv, HistoryTypeOK
<1>2. CASE ServerRestarts
  BY Zenon, <1>2, SweepEnds DEF ServerRestarts
<1> QED BY Zenon, <1>1, <1>2, StartJobStep, StopJobStep, PodStep, HourStep, CleanupStep, VisitStep,
           DeleteJobStep DEF JobHistoryNext, CleanerStep

(* However long a sweep takes and whatever the adapter does meanwhile: the   *)
(* cleaner removes what belongs to the job it listed, after its retention,   *)
(* unless somebody stopped that job (deleteJobHistory, expired).             *)
THEOREM CleanerRemovesWhatItListed == JobHistorySpec => RemovesWhatItListed
<1>1. JobHistoryInit => HistoryIInv
  <2> SUFFICES ASSUME JobHistoryInit PROVE HistoryIInv
    BY Zenon
  <2>1. HistoryTypeOK
    BY ZenonT(30), NoKJobIsOne DEF JobHistoryInit, HistoryTypeOK
  <2>2. ASSUME NEW n \in JobNames PROVE ListInv(n)
    <3>1. kjob[n] = NoKJob /\ sweep = Resting /\ launches = 0
      BY ZenonT(30) DEF JobHistoryInit
    <3>2. ~OnList(n)
      BY Zenon, <3>1, NoKJobIsOne DEF OnList, Visiting
    <3>3. kjob[n].number = 0 /\ kjob[n].state = "none" /\ sweep.listed[n] = 0
      BY Zenon, <3>1, NoKJobIsOne
    <3>4. kjob[n].number <= launches /\ sweep.listed[n] <= launches
      BY <3>1, <3>3
    <3> QED BY ZenonT(30), <3>2, <3>3, <3>4 DEF ListInv
  <2>3. sweep.at \notin Visiting
    BY NoKJobIsOne DEF JobHistoryInit, Visiting
  <2> QED BY Zenon, <2>1, <2>2, <2>3 DEF HistoryIInv
<1>2. HistoryIInv =>
         \A n \in JobNames : Removes(n) =>
            /\ kjob[n].number = sweep.listed[n] \/ n \in disturbed
            /\ (kjob[n].number = sweep.listed[n] /\ kjob[n].state \in {"succeeded", "failed"} /\ n \notin Retries) =>
                 kjob[n].ended <= hours - Retention
  <2> SUFFICES ASSUME HistoryIInv, NEW n \in JobNames, Removes(n)
               PROVE  /\ kjob[n].number = sweep.listed[n] \/ n \in disturbed
                      /\ (kjob[n].number = sweep.listed[n] /\ kjob[n].state \in {"succeeded", "failed"} /\ n \notin Retries) =>
                           kjob[n].ended <= hours - Retention
    BY Zenon
  <2>1. OnList(n)
    BY Zenon DEF Removes, OnList, Visiting
  <2> QED BY Zenon, <2>1 DEF HistoryIInv, ListInv
<1> QED BY <1>1, <1>2, HistoryStep, PTL DEF JobHistorySpec, RemovesWhatItListed
=============================================================================
