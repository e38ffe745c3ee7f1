------------------------------- MODULE Console -------------------------------
(* The console: one interactive terminal session, the people who stream it,  *)
(* and one remote command (application/console), on the terminal runners of  *)
(* Kubernetes and Slurm and the rows of console_sessions, console_commands,  *)
(* console_session_logs and audit_events.  Sessions share nothing but the    *)
(* map they are registered in, so one of them is modelled.                   *)
EXTENDS Integers, Sequences, FiniteSets, Functions

CONSTANTS
    Viewers,      \* websocket connections
    Targets,      \* kinds of target the resource may resolve to
    MaxOutput,    \* bound: chunks the shell writes
    MaxLog,       \* maxTerminalLogBytes, in chunks
    MaxInput,     \* bound: messages the viewers type
    MaxTroubles   \* bound: kinds of failure in one behaviour

ASSUME ConsoleAssumption ==
    /\ Targets \subseteq {"kubernetes", "scheduler", "direct", "unsupported", "none"}
    /\ MaxOutput \in Nat /\ MaxLog \in Nat \ {0} /\ MaxInput \in Nat
    /\ MaxTroubles \in Nat

VARIABLES
    target,      \* what resolveTarget finds for the resource
    opening,     \* where OpenSession is
    abandoned,   \* the context of the request is done
    sessionRow,  \* the status in console_sessions
    held,        \* the pod or the scheduler's allocation exists
    shell,       \* the process behind the terminal handle
    live,        \* the session is in the map of sessions
    once,        \* where the body of closeOnce is
    verdict,     \* the status it writes
    reader,      \* where readTerminal is
    said,        \* chunks read from the terminal
    log,         \* the chunks the session keeps in memory
    transcript,  \* the chunks in console_session_logs; 0 stands for input
    clients,     \* the viewers registered with the session
    receivers,   \* those publish has yet to write its chunk to
    viewer,      \* where StreamSession is for each viewer
    past,        \* the history it copied
    screen,      \* what the viewer has received
    trail,       \* audit events of the session
    command,     \* where ExecuteCommand is
    commandRow,  \* the status in console_commands
    reply,       \* what the client of the command was answered
    typed,       \* messages typed
    troubles     \* the kinds of failure that have happened

opener == <<target, opening, abandoned, held>>
finisher == <<live, once, verdict>>
output == <<reader, said, log, receivers>>
audience == <<clients, viewer, past, screen, typed>>
commands == <<command, commandRow, reply>>
consoleVars == <<opener, sessionRow, shell, finisher, output, transcript,
                 audience, trail, commands, troubles>>

Troubles == {"save", "append", "create", "release", "crash"}
Ended == {"closed", "failed"}
up == "crash" \notin troubles

(* A call fails once for each kind of trouble; the bound limits the kinds.   *)
Trouble(kind) ==
    /\ Cardinality(troubles \cup {kind}) <= MaxTroubles
    /\ troubles' = troubles \cup {kind}
Fine == UNCHANGED troubles

(* SaveConsoleSession, with the context of the request or with a background  *)
(* context; both statements fail when the database does.                     *)
SaveConsoleSession(status, detached) ==
    /\ sessionRow' = status
    /\ detached \/ ~abandoned
    /\ Fine
SaveSessionFails(detached) ==
    /\ UNCHANGED sessionRow
    /\ \/ ~detached /\ abandoned /\ Fine
       \/ Trouble("save")

record(event) == trail' = Append(trail, event)

(* The cleanup of a terminal handle, or the deletion of a pod that is not    *)
(* needed: its error is ignored.                                             *)
Release == \/ held' = FALSE /\ Fine
           \/ held /\ UNCHANGED held /\ Trouble("release")

(* A runtime that is bound to the resource has a connection.                 *)
resolveTarget == target # "none"

(* resolveTarget and SaveConsoleSession with status starting.                *)
OpenSession ==
    /\ up /\ opening = "no" /\ command = "no"
    /\ IF ~resolveTarget
       THEN opening' = "refused" /\ UNCHANGED <<sessionRow, trail, troubles>>
       ELSE \/ /\ SaveConsoleSession("starting", FALSE)
               /\ opening' = "start" /\ record("started")
            \/ /\ SaveSessionFails(FALSE)
               /\ opening' = "refused" /\ UNCHANGED trail
    /\ UNCHANGED <<target, abandoned, held, shell, finisher, output, transcript,
                   audience, commands>>

(* TerminalRunner.StartInteractive for Kubernetes: create the pod.           *)
CreatePod ==
    /\ up /\ opening = "start" /\ target = "kubernetes"
    /\ \/ held' = TRUE /\ ~abandoned /\ opening' = "wait" /\ Fine
       \/ held' = FALSE /\ opening' = "failing" /\ Fine
       \/ held' = TRUE /\ opening' = "failing" /\ Trouble("create")
    /\ UNCHANGED <<target, abandoned, sessionRow, shell, finisher, output,
                   transcript, audience, trail, commands>>

waitForPod ==
    /\ up /\ opening = "wait"
    /\ \/ ~abandoned /\ opening' = "exec" /\ UNCHANGED held /\ Fine
       \/ opening' = "failing" /\ Release
    /\ UNCHANGED <<target, abandoned, sessionRow, shell, finisher, output,
                   transcript, audience, trail, commands>>

(* pty.Start, of kubectl exec, of ssh with srun, or of a plain shell.        *)
StartShell ==
    /\ up
    /\ \/ opening = "exec"
       \/ opening = "start" /\ target \in {"scheduler", "direct"}
    /\ \/ /\ opening' = "connect" /\ shell' = "running" /\ Fine
          /\ held' = (held \/ target = "scheduler")
       \/ /\ opening' = "failing" /\ UNCHANGED shell
          /\ Release
    /\ UNCHANGED <<target, abandoned, sessionRow, finisher, output, transcript,
                   audience, trail, commands>>

(* The connection type has no interactive terminal.                          *)
Unsupported ==
    /\ up /\ opening = "start" /\ target = "unsupported"
    /\ opening' = "failing"
    /\ UNCHANGED <<target, abandoned, held, sessionRow, shell, finisher, output,
                   transcript, audience, trail, commands, troubles>>

OpenFailed ==
    /\ up /\ opening = "failing"
    /\ SaveConsoleSession("failed", TRUE) \/ SaveSessionFails(TRUE)
    /\ opening' = "refused" /\ record("failed")
    /\ UNCHANGED <<target, abandoned, held, shell, finisher, output, transcript,
                   audience, commands>>

(* The row says connected, or else the terminal is closed again.             *)
Connect ==
    /\ up /\ opening = "connect"
    /\ \/ SaveConsoleSession("connected", FALSE) /\ opening' = "register"
       \/ SaveSessionFails(FALSE) /\ opening' = "undo"
    /\ UNCHANGED <<target, abandoned, held, shell, finisher, output, transcript,
                   audience, trail, commands>>

Undo ==
    /\ up /\ opening = "undo"
    /\ opening' = "refused" /\ shell' = "closed" /\ Release
    /\ UNCHANGED <<target, abandoned, sessionRow, finisher, output, transcript,
                   audience, trail, commands>>

Register ==
    /\ up /\ opening = "register"
    /\ live' = TRUE /\ reader' = "read" /\ opening' = "record"
    /\ UNCHANGED <<target, abandoned, held, sessionRow, shell, once, verdict,
                   said, log, receivers, transcript, audience, trail, commands,
                   troubles>>

(* The last step of OpenSession; its context is done when the handler returns. *)
RecordConnected ==
    /\ up /\ opening = "record"
    /\ opening' = "done" /\ abandoned' = TRUE /\ record("connected")
    /\ UNCHANGED <<target, held, sessionRow, shell, finisher, output,
                   transcript, audience, commands, troubles>>

(* The client of OpenSession, or of ExecuteCommand, disconnects.             *)
Abandon ==
    /\ up /\ ~abandoned /\ abandoned' = TRUE
    /\ \/ opening \in {"start", "wait", "exec", "connect"}
       \/ command \in {"run", "save completed", "save failed"}
    /\ UNCHANGED <<target, opening, held, sessionRow, shell, finisher, output,
                   transcript, audience, trail, commands, troubles>>

-----------------------------------------------------------------------------
(* finishSession: the first caller runs the body, any other returns when it  *)
(* is done.                                                                  *)
finishSession_Again(status) == once' = "close" /\ verdict' = status
finishSession(status) ==
    IF once = "free" THEN once' = "close" /\ verdict' = status
                     ELSE UNCHANGED <<once, verdict>>

CloseSession ==
    /\ up /\ live /\ once = "free" /\ finishSession("closed")
    /\ UNCHANGED <<opener, sessionRow, shell, live, output, transcript, audience,
                   trail, commands, troubles>>

FinishClose ==
    /\ up /\ once = "close"
    /\ once' = "save" /\ shell' = "closed" /\ Release
    /\ UNCHANGED <<target, opening, abandoned, sessionRow, live, verdict, output,
                   transcript, audience, trail, commands>>

FinishSave ==
    /\ up /\ once = "save" /\ once' = "drop"
    /\ SaveConsoleSession(verdict, TRUE) \/ SaveSessionFails(TRUE)
    /\ UNCHANGED <<opener, shell, live, verdict, output, transcript, audience,
                   trail, commands>>

FinishDrop ==
    /\ up /\ once = "drop"
    /\ once' = "done" /\ live' = FALSE /\ record(verdict)
    /\ UNCHANGED <<opener, sessionRow, shell, verdict, output, transcript,
                   audience, commands, troubles>>

(* The shell ends: the terminal reads end of file, or, as a Linux terminal   *)
(* does once its last writer is gone, an input/output error.                 *)
ShellEnds ==
    /\ shell = "running" /\ opening \in {"connect", "register", "record", "done"}
    /\ shell' \in {"ended", "broken"}
    /\ UNCHANGED <<opener, sessionRow, finisher, output, transcript, audience,
                   trail, commands, troubles>>

-----------------------------------------------------------------------------
(* readTerminal: read a chunk, or finish the session.  The handle that       *)
(* finishSession closed reads as an error too.                               *)
ReadTerminal ==
    /\ up /\ reader = "read"
    /\ \/ /\ shell = "running" /\ said < MaxOutput
          /\ said' = said + 1 /\ reader' = "append" /\ UNCHANGED <<once, verdict>>
       \/ /\ shell # "running" /\ UNCHANGED said /\ reader' = "off"
          /\ finishSession(IF shell = "ended" THEN "closed" ELSE "failed")
    /\ UNCHANGED <<opener, sessionRow, shell, live, log, receivers, transcript,
                   audience, trail, commands, troubles>>

(* appendLog ignores the error of AppendConsoleSessionLog.                   *)
appendLog(chunk) ==
    \/ transcript' = Append(transcript, chunk) /\ Fine
    \/ UNCHANGED transcript /\ Trouble("append")

(* publish: the transcript, then the log in memory and the clients of the    *)
(* moment under the session's lock, then each client under its own.          *)
AppendOutput ==
    /\ up /\ reader = "append" /\ reader' = "share"
    /\ appendLog(said)
    /\ UNCHANGED <<opener, sessionRow, shell, finisher, said, log, receivers,
                   audience, trail, commands>>

Trimmed(chunks) ==
    SubSeq(chunks, IF Len(chunks) > MaxLog THEN Len(chunks) - MaxLog + 1 ELSE 1,
           Len(chunks))

Share ==
    /\ up /\ reader = "share" /\ reader' = "send"
    /\ log' = Trimmed(Append(log, said)) /\ receivers' = clients
    /\ UNCHANGED <<opener, sessionRow, shell, finisher, said, transcript,
                   audience, trail, commands, troubles>>

connected(v) == viewer[v] \in {"joined", "streaming"}

Send(v) ==
    /\ up /\ reader = "send" /\ v \in receivers /\ viewer[v] # "stalled"
    /\ receivers' = receivers \ {v}
    /\ IF connected(v)
       THEN screen' = [screen EXCEPT ![v] = Append(@, said)] /\ UNCHANGED clients
       ELSE clients' = clients \ {v} /\ UNCHANGED screen
    /\ UNCHANGED <<opener, sessionRow, shell, finisher, reader, said, log,
                   transcript, viewer, past, typed, trail, commands, troubles>>

Sent ==
    /\ up /\ reader = "send" /\ receivers = {} /\ reader' = "read"
    /\ UNCHANGED <<opener, sessionRow, shell, finisher, said, log, receivers,
                   transcript, audience, trail, commands, troubles>>

-----------------------------------------------------------------------------
(* StreamSession: find the session and upgrade the connection; register the  *)
(* client and copy the history under the lock; write the history; read.      *)
Lookup(v) ==
    /\ up /\ live /\ viewer[v] = "away"
    /\ viewer' = [viewer EXCEPT ![v] = "found"]
    /\ UNCHANGED <<opener, sessionRow, shell, finisher, output, transcript,
                   clients, past, screen, typed, trail, commands, troubles>>

Join_Late(v) ==
    /\ up /\ viewer[v] = "found"
    /\ IF past[v] = <<>> /\ log # <<>>
       THEN past' = [past EXCEPT ![v] = log] /\ UNCHANGED <<viewer, clients>>
       ELSE /\ viewer' = [viewer EXCEPT ![v] = "joined"]
            /\ clients' = clients \cup {v} /\ UNCHANGED past
    /\ UNCHANGED <<opener, sessionRow, shell, finisher, output, transcript,
                   screen, typed, trail, commands, troubles>>
Join(v) ==
    /\ up /\ viewer[v] = "found"
    /\ viewer' = [viewer EXCEPT ![v] = "joined"]
    /\ clients' = clients \cup {v}
    /\ past' = [past EXCEPT ![v] = log]
    /\ UNCHANGED <<opener, sessionRow, shell, finisher, output, transcript,
                   screen, typed, trail, commands, troubles>>

WriteHistory(v) ==
    /\ up /\ viewer[v] = "joined"
    /\ viewer' = [viewer EXCEPT ![v] = "streaming"]
    /\ screen' = [screen EXCEPT ![v] = @ \o past[v]]
    /\ UNCHANGED <<opener, sessionRow, shell, finisher, output, transcript,
                   clients, past, typed, trail, commands, troubles>>

(* The viewer types: terminal.Write and appendLog, or, once the terminal is  *)
(* closed, closeSession and removeClient.  A resize changes no state here.   *)
Type(v) ==
    /\ up /\ viewer[v] = "streaming" /\ typed < MaxInput /\ typed' = typed + 1
    /\ \/ /\ shell # "closed" /\ appendLog(0)
          /\ UNCHANGED <<once, verdict, viewer, clients>>
       \/ /\ shell # "running" /\ UNCHANGED transcript /\ Fine
          /\ finishSession("closed")
          /\ viewer' = [viewer EXCEPT ![v] = "gone"]
          /\ clients' = clients \ {v}
    /\ UNCHANGED <<opener, sessionRow, shell, live, output, past, screen, trail,
                   commands>>

(* A viewer's connection breaks, or stops taking data; StreamSession removes *)
(* the client when its read fails.                                           *)
Drop(v) ==
    /\ up /\ viewer[v] \in {"joined", "streaming", "stalled"}
    /\ viewer' = [viewer EXCEPT ![v] = "dropped"]
    /\ UNCHANGED <<opener, sessionRow, shell, finisher, output, transcript,
                   clients, past, screen, typed, trail, commands, troubles>>
Stall(v) ==
    /\ up /\ viewer[v] = "streaming"
    /\ viewer' = [viewer EXCEPT ![v] = "stalled"]
    /\ UNCHANGED <<opener, sessionRow, shell, finisher, output, transcript,
                   clients, past, screen, typed, trail, commands, troubles>>
removeClient(v) ==
    /\ up /\ viewer[v] = "dropped"
    /\ viewer' = [viewer EXCEPT ![v] = "gone"] /\ clients' = clients \ {v}
    /\ UNCHANGED <<opener, sessionRow, shell, finisher, output, transcript, past,
                   screen, typed, trail, commands, troubles>>

-----------------------------------------------------------------------------
(* ExecuteCommand: resolve the target, save the row as running, run, save    *)
(* the end with the context of the request.                                  *)
ExecuteCommand ==
    /\ up /\ command = "no" /\ opening = "no"
    /\ IF ~resolveTarget
       THEN /\ command' = "done" /\ reply' = "error"
            /\ UNCHANGED <<commandRow, trail>> /\ Fine
       ELSE \/ /\ commandRow' = "running" /\ command' = "run"
               /\ record("started") /\ UNCHANGED reply /\ Fine
            \/ /\ command' = "done" /\ reply' = "error"
               /\ UNCHANGED <<commandRow, trail>> /\ Trouble("save")
    /\ UNCHANGED <<opener, sessionRow, shell, finisher, output, transcript, audience>>

(* RunConsoleCommand over ssh or locally; it fails on a timeout, when the    *)
(* client leaves, and for connections it does not support.                   *)
RunConsoleCommand ==
    /\ up /\ command = "run"
    /\ \E status \in {"completed", "failed"} :
         /\ status = "completed" => ~abandoned /\ target \in {"scheduler", "direct"}
         /\ command' = IF status = "completed" THEN "save completed" ELSE "save failed"
         /\ IF abandoned THEN UNCHANGED trail ELSE record(status)
    /\ UNCHANGED <<opener, sessionRow, shell, finisher, output, transcript,
                   audience, commandRow, reply, troubles>>

SaveCommandEnd ==
    /\ up /\ command \in {"save completed", "save failed"} /\ command' = "done"
    /\ LET status == IF command = "save completed" THEN "completed" ELSE "failed"
       IN  \/ ~abandoned /\ commandRow' = status /\ reply' = status /\ Fine
           \/ /\ UNCHANGED commandRow /\ reply' = "error"
              /\ \/ abandoned /\ Fine
                 \/ Trouble("save")
    /\ UNCHANGED <<opener, sessionRow, shell, finisher, output, transcript,
                   audience, trail>>

(* The server stops: what it kept in memory is gone, the terminal hangs up,  *)
(* and no code looks at the rows again.                                      *)
ConsoleCrash ==
    /\ up /\ Trouble("crash")
    /\ opening # "no" \/ command # "no"
    /\ live' = FALSE /\ reader' = "off" /\ clients' = {} /\ receivers' = {}
    /\ shell' = IF shell = "none" THEN "none" ELSE "closed"
    /\ viewer' = [v \in Viewers |-> IF viewer[v] = "away" THEN "away" ELSE "gone"]
    /\ UNCHANGED <<opener, sessionRow, once, verdict, said, log, transcript, past,
                   screen, typed, trail, commands>>

ConsoleInit ==
    /\ target \in Targets
    /\ opening = "no" /\ abandoned = FALSE /\ sessionRow = "none"
    /\ held = FALSE /\ shell = "none"
    /\ live = FALSE /\ once = "free" /\ verdict = "closed"
    /\ reader = "off" /\ said = 0 /\ log = <<>> /\ transcript = <<>>
    /\ clients = {} /\ receivers = {} /\ typed = 0
    /\ viewer = [v \in Viewers |-> "away"]
    /\ past = [v \in Viewers |-> <<>>] /\ screen = [v \in Viewers |-> <<>>]
    /\ trail = <<>> /\ troubles = {}
    /\ command = "no" /\ commandRow = "none" /\ reply = "none"

(* What the server does of its own once it is asked.                         *)
ServerStep ==
    \/ CreatePod \/ waitForPod \/ StartShell \/ Unsupported \/ OpenFailed
    \/ Connect \/ Undo \/ Register \/ RecordConnected
    \/ FinishClose \/ FinishSave \/ FinishDrop
    \/ ReadTerminal \/ AppendOutput \/ Share \/ Sent
    \/ \E v \in Viewers : Send(v) \/ Join(v) \/ WriteHistory(v) \/ removeClient(v)
    \/ RunConsoleCommand \/ SaveCommandEnd

ConsoleNext ==
    \/ OpenSession
    \/ ExecuteCommand
    \/ ServerStep
    \/ Abandon \/ CloseSession \/ ShellEnds \/ ConsoleCrash
    \/ \E v \in Viewers : Lookup(v) \/ Type(v) \/ Drop(v) \/ Stall(v)

ConsoleSpec == ConsoleInit /\ [][ConsoleNext]_consoleVars

(* The goroutines of the server run on, and every call they make returns.    *)
FairConsoleSpec == ConsoleSpec /\ WF_consoleVars(ServerStep)

-----------------------------------------------------------------------------
(* A viewer whose connection works receives every chunk exactly once: the    *)
(* history and the chunks published after it joined cover, without gap or    *)
(* repetition, at least what the session still remembers, although           *)
(* StreamSession and publish write to it under different locks.  (They may   *)
(* come in the wrong order: a chunk can overtake the history.)  And what     *)
(* somebody has seen is in the exported transcript, also after a crash,      *)
(* unless appending to console_session_logs failed.                          *)
ViewersMissNothing ==
    /\ \A v \in Viewers : viewer[v] = "streaming" =>
         LET due == IF v \in receivers THEN {said} ELSE {}
             told == IF reader \in {"append", "share"} THEN said - 1 ELSE said
         IN  /\ IsInjective(screen[v]) /\ Range(screen[v]) \cap due = {}
             /\ \E k \in 1..(told + 1) :
                  /\ Range(screen[v]) \cup due = k..told
                  /\ k <= 1 \/ k <= told - MaxLog + 1
    /\ "append" \notin troubles =>
         \A v \in Viewers : Range(screen[v]) \cup Range(past[v]) \subseteq Range(transcript)

\* The end that the audit trail has is in the row, unless saving that failed.
EndIsRecorded ==
    /\ \A i, j \in 1..Len(trail) : trail[i] \in Ended /\ trail[j] \in Ended => i = j
    /\ \A i \in 1..Len(trail) :
         trail[i] \in Ended /\ command = "no" /\ "save" \notin troubles
           => sessionRow = trail[i]

\* A pod or an allocation is that of a session that opens, lives or is closing,
\* unless a call that creates or releases it was lost or the server crashed.
HeldIsUsed ==
    held => \/ opening \in {"wait", "exec", "connect", "undo", "register"}
            \/ live /\ once \in {"free", "close"}
            \/ troubles \cap {"create", "release", "crash"} # {}

(* A session ends once and leaves nothing behind, although its shell's end,  *)
(* a client's close and a failing start may come together (finishSession,    *)
(* OpenSession): the trail has one end at most, which the row agrees with;   *)
(* the row says connected only of a session that is registered or about to   *)
(* be; and every way out releases the pod or the allocation.                 *)
SessionsEndOnce ==
    /\ EndIsRecorded /\ HeldIsUsed
    /\ (sessionRow = "connected" /\ troubles \cap {"save", "crash"} = {})
         => live \/ opening = "register"

(* A session whose shell has ended leaves the map of sessions, unless a      *)
(* viewer's connection stalls the reader; one that is being closed leaves it *)
(* even then; and a command ends (terminal.go:134-150, 242-269,              *)
(* service.go:30-78).                                                        *)
ConsoleIsQuiet ==
    /\ live /\ shell \in {"ended", "broken"} => \E v \in Viewers : viewer[v] = "stalled"
    /\ once = "close" => ~live
    /\ command = "run" => ~up
ConsoleSettles == []<>ConsoleIsQuiet
==============================================================================
