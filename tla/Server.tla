------------------------------- MODULE Server -------------------------------
(***************************************************************************)
(* The front of the process: MuxServer of mux.go, which hands connections   *)
(* to SSH and to one shared http.Server, the sessions of ssh.go, the places *)
(* for pack transfers of http.go, and main.go, which shuts all of it down   *)
(* on SIGTERM while another goroutine reloads the settings (module          *)
(* Settings).  Each connection is served by a goroutine of its own.         *)
(***************************************************************************)
EXTENDS Settings, FiniteSets

CONSTANTS
    Conns,      \* connections
    Packs,      \* capacity of packSem, fixed when the handler is made
    Buffer,     \* capacity of connChanListener
    Hosts       \* what surrounds Serve: "main", which ends the process when
                \* Serve returns, or "test", which does not (mux_test.go)

ASSUME ServerAssumption ==
    /\ IsFiniteSet(Conns)
    /\ Packs \in Nat \ {0} /\ Buffer \in Nat \ {0}
    /\ Hosts \subseteq {"main", "test"}

VARIABLES
    host,
    conn,       \* conn[c]: where the goroutine of connection c stands
    session,    \* SSH connections with a handleSession goroutine that works
    counted,    \* connections in m.wg
    tracked,    \* m.conns
    packSem,    \* places taken
    listening,  \* the listener is open
    delivering, \* httpLn is open
    accepting,  \* http.Server still calls httpLn.Accept
    shut,       \* where Shutdown and the goroutine that calls it stand
    expired,    \* shutdownGrace is over
    exited,     \* the process has ended
    late        \* history: connections not yet handed over when the listener
                \* closed, or whose client left a working session behind

serverVars == <<host, conn, session, counted, tracked, packSem, listening,
                delivering, accepting, shut, expired, exited, late>>
shutVars == <<host, listening, delivering, accepting, shut, expired, exited>>
vars == <<settingVars, serverVars>>

Is(places) == {c \in Conns : conn[c] \in places}
Goto(c, s) == conn' = [conn EXCEPT ![c] = s]

Init ==
    /\ SettingsInit
    /\ host \in Hosts
    /\ conn = [c \in Conns |-> "none"]
    /\ session = {} /\ counted = {} /\ tracked = {}
    /\ packSem = 0
    /\ listening = TRUE /\ delivering = TRUE /\ accepting = TRUE
    /\ shut = "no" /\ expired = FALSE /\ exited = FALSE
    /\ late = {}

-----------------------------------------------------------------------------
(* Serve accepts; handleConn peeks at the first four bytes, which may not   *)
(* come within muxPeekTimeout.                                              *)
Accept(c) ==
    /\ conn[c] = "none" /\ listening
    /\ Goto(c, "peek")
    /\ UNCHANGED <<session, counted, tracked, packSem, shutVars, late>>

PeekFails(c) ==
    /\ conn[c] = "peek"
    /\ Goto(c, "closed")
    /\ UNCHANGED <<session, counted, tracked, packSem, shutVars, late>>

(* Mutant: the wait group does not count the connection.                    *)
PeekSSHUncounted(c) ==
    /\ conn[c] = "peek"
    /\ counted' = counted
    /\ Goto(c, "counted")
    /\ UNCHANGED <<session, tracked, packSem, shutVars, late>>

PeekSSH(c) ==
    /\ conn[c] = "peek"
    /\ counted' = counted \cup {c}
    /\ Goto(c, "counted")
    /\ UNCHANGED <<session, tracked, packSem, shutVars, late>>

(* Mutant: the connection is not entered in m.conns.                        *)
TrackConnNot(c) ==
    /\ conn[c] = "counted"
    /\ tracked' = tracked
    /\ Goto(c, "ssh")
    /\ UNCHANGED <<session, counted, packSem, shutVars, late>>

TrackConn(c) ==
    /\ conn[c] = "counted"
    /\ tracked' = tracked \cup {c}
    /\ Goto(c, "ssh")
    /\ UNCHANGED <<session, counted, packSem, shutVars, late>>

(* handleSession runs in a goroutine that nobody counts; it works on the    *)
(* repository until the command is done.                                    *)
SessionStarts(c) ==
    /\ conn[c] = "ssh" /\ c \notin session
    /\ session' = session \cup {c}
    /\ UNCHANGED <<conn, counted, tracked, packSem, shutVars, late>>

SessionEnds(c) ==
    /\ c \in session
    /\ session' = session \ {c}
    /\ UNCHANGED <<conn, counted, tracked, packSem, shutVars, late>>

(* HandleConn returns when the client is gone, or Shutdown has closed the   *)
(* connection; a session that has all its input goes on.                    *)
SshReturns(c) ==
    /\ conn[c] \in {"ssh", "cut"}
    /\ tracked' = tracked \ {c}
    /\ counted' = counted \ {c}
    /\ Goto(c, "closed")
    /\ late' = IF conn[c] = "ssh" /\ c \in session THEN late \cup {c} ELSE late
    /\ UNCHANGED <<session, packSem, shutVars>>

-----------------------------------------------------------------------------
PeekHTTP(c) ==
    /\ conn[c] = "peek"
    /\ Goto(c, "push")
    /\ UNCHANGED <<session, counted, tracked, packSem, shutVars, late>>

(* Push waits for room in the channel or for the listener to close; when    *)
(* both are there select takes either.                                      *)
Push(c) ==
    /\ conn[c] = "push"
    /\ \/ Cardinality(Is({"buffer"})) < Buffer /\ Goto(c, "buffer")
       \/ ~delivering /\ Goto(c, "closed")
    /\ UNCHANGED <<session, counted, tracked, packSem, shutVars, late>>

(* http.Server: Accept, until it answers net.ErrClosed.                     *)
HttpAccept(c) ==
    /\ accepting /\ conn[c] = "buffer"
    /\ Goto(c, "idle")
    /\ UNCHANGED <<session, counted, tracked, packSem, shutVars, late>>

HttpAcceptEnds ==
    /\ accepting /\ ~delivering
    /\ accepting' = FALSE
    /\ UNCHANGED <<host, conn, session, counted, tracked, packSem, listening,
                   delivering, shut, expired, exited, late>>

(* A git command waits for a place; a client that leaves gives up.          *)
Request(c) ==
    /\ conn[c] = "idle"
    /\ Goto(c, "request")
    /\ UNCHANGED <<session, counted, tracked, packSem, shutVars, late>>

AcquirePack(c) ==
    /\ conn[c] = "request" /\ packSem < Packs
    /\ packSem' = packSem + 1
    /\ Goto(c, "pack")
    /\ UNCHANGED <<session, counted, tracked, shutVars, late>>

(* Mutant: a request that gives up gives a place back.                      *)
GiveUpReleases(c) ==
    /\ conn[c] = "request"
    /\ Goto(c, "closed")
    /\ packSem' = IF packSem = 0 THEN 0 ELSE packSem - 1
    /\ UNCHANGED <<session, counted, tracked, shutVars, late>>

GiveUp(c) ==
    /\ conn[c] = "request"
    /\ Goto(c, "closed")
    /\ UNCHANGED <<session, counted, tracked, packSem, shutVars, late>>

(* releasePack, deferred: after an answer the connection is kept, after a   *)
(* failure it is not.  A server shutting down keeps none.                   *)
PackEnds(c) ==
    /\ conn[c] = "pack"
    /\ packSem' = packSem - 1
    /\ \E s \in {"closed"} \cup (IF delivering THEN {"idle"} ELSE {}) : Goto(c, s)
    /\ UNCHANGED <<session, counted, tracked, shutVars, late>>

IdleEnds(c) ==
    /\ conn[c] = "idle"
    /\ Goto(c, "closed")
    /\ UNCHANGED <<session, counted, tracked, packSem, shutVars, late>>

-----------------------------------------------------------------------------
(* SIGTERM: Shutdown marks itself closing and closes the listener.          *)
Terminate ==
    /\ shut = "no"
    /\ shut' = "closing"
    /\ UNCHANGED <<host, conn, session, counted, tracked, packSem, listening,
                   delivering, accepting, expired, exited, late>>

CloseListener ==
    /\ shut = "closing"
    /\ listening' = FALSE
    /\ shut' = "http"
    /\ late' = late \cup Is({"peek", "counted", "push", "buffer"})
    /\ UNCHANGED <<host, conn, session, counted, tracked, packSem, delivering,
                   accepting, expired, exited>>

(* http.Server.Shutdown: closes httpLn, then idle connections until no      *)
(* request is left, or the context ends.                                    *)
HttpCloses ==
    /\ shut = "http" /\ delivering
    /\ delivering' = FALSE
    /\ UNCHANGED <<host, conn, session, counted, tracked, packSem, listening,
                   accepting, shut, expired, exited, late>>

HttpDrained ==
    /\ shut = "http" /\ ~delivering
    /\ expired \/ Is({"request", "pack"}) = {}
    /\ conn' = [c \in Conns |-> IF conn[c] = "idle" THEN "closed" ELSE conn[c]]
    /\ shut' = "ssh"
    /\ UNCHANGED <<host, session, counted, tracked, packSem, listening, delivering,
                   accepting, expired, exited, late>>

(* m.wg.Wait, until the context ends; then the tracked connections are      *)
(* closed and Wait goes on without a limit.                                 *)
WaitEnds ==
    /\ shut \in {"ssh", "forced"} /\ counted = {}
    /\ shut' = "done"
    /\ UNCHANGED <<host, conn, session, counted, tracked, packSem, listening,
                   delivering, accepting, expired, exited, late>>

ForceClose ==
    /\ shut = "ssh" /\ expired
    /\ shut' = "forced"
    /\ conn' = [c \in Conns |-> IF c \in tracked /\ conn[c] = "ssh" THEN "cut" ELSE conn[c]]
    /\ UNCHANGED <<host, session, counted, tracked, packSem, listening, delivering,
                   accepting, expired, exited, late>>

(* muxPeekTimeout is shorter than shutdownGrace: when it is over no         *)
(* connection is being handed over any more.                                *)
GraceEnds ==
    /\ shut # "no" /\ ~listening /\ ~expired
    /\ Is({"peek", "counted"}) = {}
    /\ expired' = TRUE
    /\ UNCHANGED <<host, conn, session, counted, tracked, packSem, listening,
                   delivering, accepting, shut, exited, late>>

(* The signal goroutine stops the managers (modules SyncManager and         *)
(* TaskQueue) and exits.                                                    *)
SignalExits ==
    /\ shut = "done" /\ host = "main"
    /\ exited' = TRUE
    /\ UNCHANGED <<host, conn, session, counted, tracked, packSem, listening,
                   delivering, accepting, shut, expired, late>>

(* Serve returns as soon as Accept fails, and main with it.                 *)
MainReturns ==
    /\ ~listening /\ host = "main"
    /\ exited' = TRUE
    /\ UNCHANGED <<host, conn, session, counted, tracked, packSem, listening,
                   delivering, accepting, shut, expired, late>>

ConnStep(c) ==
    \/ Accept(c) \/ PeekFails(c) \/ PeekSSH(c) \/ TrackConn(c)
    \/ SessionStarts(c) \/ SessionEnds(c) \/ SshReturns(c)
    \/ PeekHTTP(c) \/ Push(c) \/ HttpAccept(c)
    \/ Request(c) \/ AcquirePack(c) \/ GiveUp(c) \/ PackEnds(c) \/ IdleEnds(c)

ShutStep ==
    \/ Terminate \/ CloseListener \/ HttpCloses \/ HttpAcceptEnds \/ HttpDrained
    \/ WaitEnds \/ ForceClose \/ GraceEnds \/ SignalExits \/ MainReturns

Loads == (edits + Cardinality(Conns \ Is({"none"})))' <= MaxEvents

(* Nothing happens in a process that has ended.                             *)
Next ==
    \/ \E c \in Conns : ConnStep(c) /\ ~exited /\ UNCHANGED settingVars /\ Loads
    \/ ShutStep /\ ~exited /\ UNCHANGED settingVars
    \/ SettingsNext /\ ~exited /\ UNCHANGED serverVars /\ Loads

Spec == Init /\ [][Next]_vars

Runs(A) == ~exited /\ A /\ UNCHANGED settingVars

(* Code that is started runs on, the connection Shutdown closes makes       *)
(* HandleConn return, and peeking and the grace period end.  Clients and    *)
(* commands may take for ever.                                              *)
Fairness ==
    /\ WF_vars(Runs(CloseListener)) /\ WF_vars(Runs(HttpCloses))
    /\ WF_vars(Runs(HttpDrained)) /\ WF_vars(Runs(WaitEnds)) /\ WF_vars(Runs(ForceClose))
    /\ WF_vars(Runs(GraceEnds))
    /\ \A c \in Conns :
          /\ WF_vars(Runs(PeekFails(c) \/ PeekSSH(c) \/ PeekHTTP(c)))
          /\ WF_vars(Runs(TrackConn(c)))
          /\ WF_vars(Runs(conn[c] = "cut" /\ SshReturns(c)))
    /\ WF_vars(~exited /\ HupStep /\ UNCHANGED serverVars)

FairSpec == Spec /\ Fairness

-----------------------------------------------------------------------------
(* A place for a pack transfer belongs to exactly one running transfer: a   *)
(* client that leaves while it waits, a failure and a shutdown neither keep *)
(* a place nor give one back twice (http.go 50).                            *)
PlacesExact == packSem = Cardinality(Is({"pack"})) /\ packSem <= Packs

Working(c) == conn[c] \in {"request", "pack"} \/ c \in session

(* When Shutdown has returned within the grace period, no request and no    *)
(* SSH command is still at work (mux.go 206), except on connections that    *)
(* were being handed over when the listener closed, or whose client had     *)
(* left its command behind.                                                 *)
DrainedWhenDone ==
    shut = "done" => \A c \in Conns : Working(c) => expired \/ c \in late

(* Shutdown returns, whatever the clients do: what does not end within the  *)
(* grace period is cut off.                                                 *)
ShutdownReturns == shut = "closing" ~> shut = "done" \/ exited

(* What the operator has signalled takes effect: a valid file that stays as *)
(* it is after a SIGHUP is in force in the end, however many signals the    *)
(* channel has dropped and whatever was rejected before.                    *)
Settles == <>[](exited \/ signalled = None \/ ~Valid(signalled) \/ InForce(signalled))

(* main.go 144: the process waits for requests and sessions, for no longer  *)
(* than the grace period, so that no push or clone is cut off.              *)
NoHardCut ==
    [][exited' # exited => expired \/ \A c \in Conns : ~Working(c)]_vars
=============================================================================
