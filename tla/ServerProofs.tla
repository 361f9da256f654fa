---------------------------- MODULE ServerProofs ----------------------------
(***************************************************************************)
(* Proofs about the front of the process and its configuration, for any    *)
(* connections, files, places for transfers and capacity of the listener.  *)
(***************************************************************************)
EXTENDS Server, FiniteSetTheorems, TLAPS

-----------------------------------------------------------------------------
Fields(v) == v.push \in Nat /\ v.syncs \in Nat

(* Whatever is loaded, the push limit is never 0 and the queue never has   *)
(* no worker.                                                              *)
SettingsTypeOK ==
    /\ file \in Files
    /\ Fields(live)
    /\ pushLimit \in Nat \ {0} /\ workers \in Nat \ {0}
    /\ pendingHup \in BOOLEAN /\ halfApplied \in BOOLEAN
    /\ hup \in [at : {"wait", "read", "limit", "check", "apply", "resize"},
                fresh : Files \cup {None}]
    /\ hup.at \in {"limit", "check", "apply"} => hup.fresh \in Files /\ hup.fresh.sound
    /\ edits \in Nat
    /\ signalled \in Files \cup {None}

Places == {"none", "peek", "counted", "ssh", "cut", "push", "buffer", "idle",
           "request", "pack", "closed"}

ServerTypeOK ==
    /\ host \in {"main", "test"}
    /\ conn \in [Conns -> Places]
    /\ session \subseteq Conns /\ counted \subseteq Conns
    /\ tracked \subseteq Conns /\ late \subseteq Conns
    /\ packSem \in 0..Packs
    /\ listening \in BOOLEAN /\ delivering \in BOOLEAN /\ accepting \in BOOLEAN
    /\ shut \in {"no", "closing", "http", "ssh", "forced", "done"}
    /\ expired \in BOOLEAN /\ exited \in BOOLEAN

TypeOK == SettingsTypeOK /\ ServerTypeOK

-----------------------------------------------------------------------------
(* The limit of the pack decoder during a reload: it is that of the fresh  *)
(* file as soon as it is set, and of the live settings again once those    *)
(* are replaced.                                                           *)
LimitExact ==
    /\ hup.at \in {"wait", "read", "limit"} /\ ~halfApplied =>
          pushLimit = LimitPushBytes(live.push)
    /\ hup.at \in {"check", "apply"} => pushLimit = LimitPushBytes(hup.fresh.push)
    /\ hup.at = "resize" => pushLimit = LimitPushBytes(live.push)

PackExact == packSem = Cardinality(Is({"pack"}))

-----------------------------------------------------------------------------
Open == shut \in {"no", "closing"}
Drained == shut \in {"ssh", "forced", "done"}

(* How far Shutdown has got bounds where a connection can be that was not  *)
(* being handed over when the listener closed.                             *)
ShutExact ==
    /\ listening <=> Open
    /\ Drained => ~delivering
    /\ \A c \in Conns : ~listening /\ conn[c] \in {"peek", "counted", "push", "buffer"} =>
          c \in late
    /\ \A c \in Conns : Drained /\ conn[c] \in {"idle", "request", "pack"} =>
          expired \/ c \in late
    /\ \A c \in Conns : conn[c] \in {"counted", "ssh", "cut"} => c \in counted
    /\ \A c \in Conns : conn[c] = "cut" => expired
    /\ \A c \in Conns : shut = "done" /\ conn[c] \in {"ssh", "cut"} => c \in late

(* A session whose connection is closed belongs to a client that left, or  *)
(* to a connection that was cut.                                           *)
SessionExact ==
    \A c \in session :
       /\ conn[c] \in {"ssh", "cut", "closed"}
       /\ conn[c] = "closed" => expired \/ c \in late

IInv == TypeOK /\ LimitExact /\ PackExact /\ ShutExact /\ SessionExact

-----------------------------------------------------------------------------
LEMMA Limits ==
    ASSUME NEW v \in Nat
    PROVE  LimitPushBytes(v) \in Nat \ {0} /\ LimitConcurrentSyncs(v) \in Nat \ {0}
  BY SettingsAssumption DEF LimitPushBytes, LimitConcurrentSyncs

LEMMA SettingsInitInv == SettingsInit => SettingsTypeOK /\ LimitExact
<1> SUFFICES ASSUME SettingsInit PROVE SettingsTypeOK /\ LimitExact  OBVIOUS
<1>1. file \in Files /\ file.push \in Nat /\ file.syncs \in Nat
  BY SettingsAssumption DEF SettingsInit, Valid
<1>2. live.push = file.push /\ live.syncs = file.syncs  BY DEF SettingsInit, Boot
<1>3. pushLimit \in Nat \ {0} /\ workers \in Nat \ {0}
  BY <1>1, Limits DEF SettingsInit
<1>4. SettingsTypeOK
  BY <1>1, <1>2, <1>3 DEF SettingsInit, SettingsTypeOK, Fields
<1>5. LimitExact  BY <1>2 DEF SettingsInit, LimitExact
<1> QED  BY <1>4, <1>5

LEMMA SettingsStep ==
    ASSUME SettingsTypeOK, LimitExact, SettingsNext
    PROVE  SettingsTypeOK' /\ LimitExact'
<1>1. CASE Edit  BY <1>1 DEF Edit, SettingsTypeOK, LimitExact, Fields
<1>2. CASE Hangup  BY <1>2 DEF Hangup, SettingsTypeOK, LimitExact, Fields
<1>3. CASE TakeHangup
  BY <1>3 DEF TakeHangup, HupGoto, SettingsTypeOK, LimitExact, Fields
<1>4. CASE ReadFile
  BY <1>4 DEF ReadFile, HupEnds, SettingsTypeOK, LimitExact, Fields
<1>5. CASE SetPushLimit
  <2>1. hup.fresh.push \in Nat  BY <1>5, SettingsAssumption DEF SetPushLimit, SettingsTypeOK
  <2>2. LimitPushBytes(hup.fresh.push) \in Nat \ {0}  BY <2>1, Limits
  <2> QED  BY <1>5, <2>2 DEF SetPushLimit, HupGoto, SettingsTypeOK, LimitExact, Fields
<1>6. CASE CheckRest
  <2>1. /\ hup.at = "check" /\ hup.fresh \in Files /\ hup.fresh.sound
        /\ UNCHANGED <<file, live, pushLimit, workers, pendingHup, edits, signalled>>
    BY <1>6 DEF CheckRest, SettingsTypeOK
  <2>2. CASE HupGoto("apply") /\ UNCHANGED halfApplied
    BY <2>1, <2>2 DEF HupGoto, SettingsTypeOK, LimitExact, Fields
  <2>3. CASE HupEnds /\ halfApplied' = TRUE
    BY <2>1, <2>3 DEF HupEnds, SettingsTypeOK, LimitExact, Fields
  <2> QED  BY <1>6, <2>2, <2>3 DEF CheckRest
<1>7. CASE Apply
  <2>1. hup.fresh.push \in Nat /\ hup.fresh.syncs \in Nat
    BY <1>7, SettingsAssumption DEF Apply, SettingsTypeOK
  <2> QED  BY <1>7, <2>1 DEF Apply, HupGoto, SettingsTypeOK, LimitExact, Fields
<1>8. CASE Resize
  <2>1. LimitConcurrentSyncs(live.syncs) \in Nat \ {0}  BY Limits DEF SettingsTypeOK, Fields
  <2> QED  BY <1>8, <2>1 DEF Resize, HupEnds, SettingsTypeOK, LimitExact, Fields
<1> QED  BY <1>1, <1>2, <1>3, <1>4, <1>5, <1>6, <1>7, <1>8 DEF SettingsNext, HupStep

LEMMA SettingsKept ==
    SettingsTypeOK /\ LimitExact /\ UNCHANGED settingVars => SettingsTypeOK' /\ LimitExact'
  BY DEF SettingsTypeOK, LimitExact, Fields, settingVars, LimitPushBytes

-----------------------------------------------------------------------------
LEMMA ServerInitInv == Init => ServerTypeOK /\ PackExact /\ ShutExact /\ SessionExact
<1> SUFFICES ASSUME Init PROVE ServerTypeOK /\ PackExact /\ ShutExact /\ SessionExact
  OBVIOUS
<1>1. ServerTypeOK
  <2>1. 0 \in 0..Packs /\ host \in {"main", "test"}  BY ServerAssumption DEF Init
  <2> QED  BY <2>1 DEF Init, ServerTypeOK, Places
<1>2. Is({"pack"}) = {}  BY DEF Init, Is
<1>3. PackExact  BY <1>2, FS_EmptySet DEF Init, PackExact
<1>4. ShutExact /\ SessionExact  BY DEF Init, ShutExact, SessionExact, Open, Drained
<1> QED  BY <1>1, <1>3, <1>4

(* Connections come and go while the transfers keep their places.          *)
LEMMA PackKept ==
    ASSUME PackExact, packSem' = packSem,
           \A c \in Conns : conn'[c] = "pack" <=> conn[c] = "pack"
    PROVE  PackExact'
<1>1. Is({"pack"})' = Is({"pack"})  BY DEF Is
<1> QED  BY <1>1 DEF PackExact

LEMMA FinitePacks == IsFiniteSet(Is({"pack"})) /\ Cardinality(Is({"pack"})) \in Nat
  BY ServerAssumption, FS_Subset, FS_CardinalityType DEF Is

LEMMA PackTaken ==
    ASSUME ServerTypeOK, PackExact, NEW c \in Conns, AcquirePack(c)
    PROVE  packSem' \in 0..Packs /\ PackExact'
<1>1. Is({"pack"})' = Is({"pack"}) \cup {c} /\ c \notin Is({"pack"})
  BY DEF AcquirePack, Goto, Is, ServerTypeOK
<1>2. Cardinality(Is({"pack"}) \cup {c}) = Cardinality(Is({"pack"})) + 1
  BY <1>1, FinitePacks, FS_AddElement
<1> QED  BY <1>1, <1>2, ServerAssumption DEF AcquirePack, PackExact, ServerTypeOK

LEMMA PackGivenBack ==
    ASSUME ServerTypeOK, PackExact, NEW c \in Conns, PackEnds(c)
    PROVE  packSem' \in 0..Packs /\ PackExact'
<1>1. Is({"pack"})' = Is({"pack"}) \ {c} /\ c \in Is({"pack"})
  BY DEF PackEnds, Goto, Is, ServerTypeOK
<1>2. Cardinality(Is({"pack"}) \ {c}) = Cardinality(Is({"pack"})) - 1
  BY <1>1, FinitePacks, FS_RemoveElement
<1>3. Is({"pack"})' \subseteq Conns  BY DEF Is
<1>4. Cardinality(Is({"pack"})') \in Nat
  BY <1>3, ServerAssumption, FS_Subset, FS_CardinalityType
<1>5. packSem' = packSem - 1 /\ packSem \in 0..Packs /\ packSem = Cardinality(Is({"pack"}))
  BY DEF PackEnds, PackExact, ServerTypeOK
<1>6. packSem' = Cardinality(Is({"pack"})')  BY <1>1, <1>2, <1>5
<1>7. packSem' \in 0..Packs  BY <1>4, <1>5, <1>6, ServerAssumption
<1> QED  BY <1>6, <1>7 DEF PackExact

LEMMA ConnTypeStep ==
    ASSUME ServerTypeOK, PackExact, NEW c \in Conns, ConnStep(c)
    PROVE  ServerTypeOK' /\ PackExact'
<1> DEFINE Goal == ServerTypeOK' /\ PackExact'
<1>1. ASSUME NEW s \in Places \ {"pack"}, conn[c] # "pack", Goto(c, s)
      PROVE  /\ conn' \in [Conns -> Places]
             /\ packSem' = packSem /\ PackExact => PackExact'
  <2>1. \A d \in Conns : conn'[d] = "pack" <=> conn[d] = "pack"
    BY <1>1 DEF Goto, ServerTypeOK
  <2> QED  BY <1>1, <2>1, PackKept DEF Goto, ServerTypeOK
<1>2. \A s \in Places : Goto(c, s) => conn' \in [Conns -> Places]
  BY DEF Goto, ServerTypeOK
<1>3. CASE Accept(c)
  BY <1>1, <1>3 DEF Accept, ServerTypeOK, Places, shutVars
<1>4. CASE PeekFails(c)
  BY <1>1, <1>4 DEF PeekFails, ServerTypeOK, Places, shutVars
<1>5. CASE PeekSSH(c)
  BY <1>1, <1>5 DEF PeekSSH, ServerTypeOK, Places, shutVars
<1>6. CASE TrackConn(c)
  BY <1>1, <1>6 DEF TrackConn, ServerTypeOK, Places, shutVars
<1>7. CASE SessionStarts(c)
  BY <1>7, PackKept DEF SessionStarts, ServerTypeOK, shutVars
<1>8. CASE SessionEnds(c)
  BY <1>8, PackKept DEF SessionEnds, ServerTypeOK, shutVars
<1>9. CASE SshReturns(c)
  BY <1>1, <1>9 DEF SshReturns, ServerTypeOK, Places, shutVars
<1>10. CASE PeekHTTP(c)
  BY <1>1, <1>10 DEF PeekHTTP, ServerTypeOK, Places, shutVars
<1>11. CASE Push(c)
  BY <1>1, <1>11 DEF Push, ServerTypeOK, Places, shutVars
<1>12. CASE HttpAccept(c)
  BY <1>1, <1>12 DEF HttpAccept, ServerTypeOK, Places, shutVars
<1>13. CASE Request(c)
  BY <1>1, <1>13 DEF Request, ServerTypeOK, Places, shutVars
<1>14. CASE AcquirePack(c)
  BY <1>2, <1>14, PackTaken DEF AcquirePack, ServerTypeOK, Places, shutVars
<1>15. CASE GiveUp(c)
  BY <1>1, <1>15 DEF GiveUp, ServerTypeOK, Places, shutVars
<1>16. CASE PackEnds(c)
  BY <1>2, <1>16, PackGivenBack DEF PackEnds, ServerTypeOK, Places, shutVars
<1>17. CASE IdleEnds(c)
  BY <1>1, <1>17 DEF IdleEnds, ServerTypeOK, Places, shutVars
<1> QED  BY <1>3, <1>4, <1>5, <1>6, <1>7, <1>8, <1>9, <1>10, <1>11, <1>12, <1>13, <1>14, <1>15, <1>16, <1>17 DEF ConnStep

LEMMA ShutTypeStep ==
    ASSUME ServerTypeOK, PackExact, ShutStep
    PROVE  ServerTypeOK' /\ PackExact'
<1>1. CASE HttpDrained
  <2>1. conn' \in [Conns -> Places]  BY <1>1 DEF HttpDrained, ServerTypeOK, Places
  <2>2. \A c \in Conns : conn'[c] = "pack" <=> conn[c] = "pack"  BY <1>1 DEF HttpDrained
  <2> QED  BY <1>1, <2>1, <2>2, PackKept DEF HttpDrained, ServerTypeOK
<1>2. CASE ForceClose
  <2>1. conn' \in [Conns -> Places]  BY <1>2 DEF ForceClose, ServerTypeOK, Places
  <2>2. \A c \in Conns : conn'[c] = "pack" <=> conn[c] = "pack"  BY <1>2 DEF ForceClose
  <2> QED  BY <1>2, <2>1, <2>2, PackKept DEF ForceClose, ServerTypeOK
<1>3. CASE CloseListener
  BY <1>3, PackKept DEF CloseListener, ServerTypeOK, Is
<1>4. CASE Terminate \/ HttpCloses \/ HttpAcceptEnds \/ WaitEnds
  BY <1>4, PackKept DEF Terminate, HttpCloses, HttpAcceptEnds, WaitEnds, ServerTypeOK
<1>5. CASE GraceEnds \/ SignalExits \/ MainReturns
  BY <1>5, PackKept DEF GraceEnds, SignalExits, MainReturns, ServerTypeOK
<1> QED  BY <1>1, <1>2, <1>3, <1>4, <1>5 DEF ShutStep

-----------------------------------------------------------------------------
LEMMA ConnShutStep ==
    ASSUME ServerTypeOK, ShutExact, SessionExact, NEW c \in Conns, ConnStep(c)
    PROVE  ShutExact' /\ SessionExact'
<1>1. CASE Accept(c)
  BY <1>1 DEF Accept, Goto, ServerTypeOK, ShutExact, SessionExact, Open, Drained, shutVars
<1>2. CASE PeekFails(c)
  BY <1>2 DEF PeekFails, Goto, ServerTypeOK, ShutExact, SessionExact, Open, Drained, shutVars
<1>3. CASE PeekSSH(c)
  BY <1>3 DEF PeekSSH, Goto, ServerTypeOK, ShutExact, SessionExact, Open, Drained, shutVars
<1>4. CASE TrackConn(c)
  BY <1>4 DEF TrackConn, Goto, ServerTypeOK, ShutExact, SessionExact, Open, Drained, shutVars
<1>5. CASE SessionStarts(c)
  BY <1>5 DEF SessionStarts, Goto, ServerTypeOK, ShutExact, SessionExact, Open, Drained, shutVars
<1>6. CASE SessionEnds(c)
  BY <1>6 DEF SessionEnds, Goto, ServerTypeOK, ShutExact, SessionExact, Open, Drained, shutVars
<1>7. CASE SshReturns(c)
  BY <1>7 DEF SshReturns, Goto, ServerTypeOK, ShutExact, SessionExact, Open, Drained, shutVars
<1>8. CASE PeekHTTP(c)
  BY <1>8 DEF PeekHTTP, Goto, ServerTypeOK, ShutExact, SessionExact, Open, Drained, shutVars
<1>9. CASE Push(c)
  BY <1>9 DEF Push, Goto, ServerTypeOK, ShutExact, SessionExact, Open, Drained, shutVars
<1>10. CASE HttpAccept(c)
  BY <1>10 DEF HttpAccept, Goto, ServerTypeOK, ShutExact, SessionExact, Open, Drained, shutVars
<1>11. CASE Request(c)
  BY <1>11 DEF Request, Goto, ServerTypeOK, ShutExact, SessionExact, Open, Drained, shutVars
<1>12. CASE AcquirePack(c)
  BY <1>12 DEF AcquirePack, Goto, ServerTypeOK, ShutExact, SessionExact, Open, Drained, shutVars
<1>13. CASE GiveUp(c)
  BY <1>13 DEF GiveUp, Goto, ServerTypeOK, ShutExact, SessionExact, Open, Drained, shutVars
<1>14. CASE PackEnds(c)
  BY <1>14 DEF PackEnds, Goto, ServerTypeOK, ShutExact, SessionExact, Open, Drained, shutVars
<1>15. CASE IdleEnds(c)
  BY <1>15 DEF IdleEnds, Goto, ServerTypeOK, ShutExact, SessionExact, Open, Drained, shutVars
<1> QED  BY <1>1, <1>2, <1>3, <1>4, <1>5, <1>6, <1>7, <1>8, <1>9, <1>10, <1>11, <1>12, <1>13, <1>14, <1>15 DEF ConnStep

LEMMA ShutShutStep ==
    ASSUME ServerTypeOK, ShutExact, SessionExact, ShutStep
    PROVE  ShutExact' /\ SessionExact'
<1>1. CASE Terminate
  BY <1>1 DEF Terminate, ServerTypeOK, ShutExact, SessionExact, Open, Drained
<1>2. CASE CloseListener
  BY <1>2 DEF CloseListener, Is, ServerTypeOK, ShutExact, SessionExact, Open, Drained
<1>3. CASE HttpCloses
  BY <1>3 DEF HttpCloses, ServerTypeOK, ShutExact, SessionExact, Open, Drained
<1>4. CASE HttpAcceptEnds
  BY <1>4 DEF HttpAcceptEnds, ServerTypeOK, ShutExact, SessionExact, Open, Drained
<1>5. CASE HttpDrained
  BY <1>5 DEF HttpDrained, Is, ServerTypeOK, ShutExact, SessionExact, Open, Drained
<1>6. CASE WaitEnds
  BY <1>6 DEF WaitEnds, ServerTypeOK, ShutExact, SessionExact, Open, Drained
<1>7. CASE ForceClose
  BY <1>7 DEF ForceClose, ServerTypeOK, ShutExact, SessionExact, Open, Drained
<1>8. CASE GraceEnds
  BY <1>8 DEF GraceEnds, ServerTypeOK, ShutExact, SessionExact, Open, Drained
<1>9. CASE SignalExits
  BY <1>9 DEF SignalExits, ServerTypeOK, ShutExact, SessionExact, Open, Drained
<1>10. CASE MainReturns
  BY <1>10 DEF MainReturns, ServerTypeOK, ShutExact, SessionExact, Open, Drained
<1> QED  BY <1>1, <1>2, <1>3, <1>4, <1>5, <1>6, <1>7, <1>8, <1>9, <1>10 DEF ShutStep

LEMMA NextInv == IInv /\ [Next]_vars => IInv'
<1> SUFFICES ASSUME IInv, [Next]_vars PROVE IInv'  OBVIOUS
<1> USE DEF IInv, TypeOK
<1>1. ASSUME NEW c \in Conns, ConnStep(c), UNCHANGED settingVars PROVE IInv'
  BY <1>1, ConnTypeStep, ConnShutStep, SettingsKept
<1>2. CASE ShutStep /\ UNCHANGED settingVars
  BY <1>2, ShutTypeStep, ShutShutStep, SettingsKept
<1>3. ASSUME UNCHANGED serverVars
      PROVE  ServerTypeOK' /\ PackExact' /\ ShutExact' /\ SessionExact'
  BY <1>3, PackKept DEF serverVars, ServerTypeOK, ShutExact, SessionExact, Open, Drained
<1>4. CASE SettingsNext /\ UNCHANGED serverVars
  BY <1>3, <1>4, SettingsStep
<1>5. CASE UNCHANGED vars
  BY <1>3, <1>5, SettingsKept DEF vars
<1> QED  BY <1>1, <1>2, <1>4, <1>5 DEF Next

(* The inductive invariant of the server and its configuration.            *)
THEOREM Invariance == Spec => []IInv
<1>1. Init => IInv
  BY SettingsInitInv, ServerInitInv DEF Init, IInv, TypeOK
<1> QED  BY <1>1, NextInv, PTL DEF Spec

-----------------------------------------------------------------------------
(* Every variable keeps its type; whatever files are loaded, the push      *)
(* limit is never 0 and the sync queue never without a worker.             *)
THEOREM TypeCorrect == Spec => []TypeOK
  BY Invariance, PTL DEF IInv

(* The places taken for pack transfers are those of the running ones, for  *)
(* any number of connections that give up, fail, end or are shut down.     *)
THEOREM PlacesKept == Spec => []PlacesExact
<1>1. IInv => PlacesExact
  BY ServerAssumption DEF IInv, TypeOK, ServerTypeOK, PackExact, PlacesExact
<1> QED  BY <1>1, Invariance, PTL

(* While no reload is under way both limits on a push agree, whatever      *)
(* files were loaded, unless the last reload was rejected late.            *)
THEOREM LimitsKept == Spec => []LimitsAgree
<1>1. IInv => LimitsAgree  BY DEF IInv, LimitExact, LimitsAgree
<1> QED  BY <1>1, Invariance, PTL

(* A Shutdown that returns within the grace period leaves no request and   *)
(* no SSH command at work, except those that were being handed over when   *)
(* the listener closed or whose client had left.                           *)
THEOREM Drains == Spec => []DrainedWhenDone
<1>1. ASSUME IInv, shut = "done", NEW c \in Conns, Working(c) PROVE expired \/ c \in late
  BY <1>1 DEF IInv, ShutExact, SessionExact, Drained, Working
<1>2. IInv => DrainedWhenDone  BY <1>1 DEF DrainedWhenDone
<1> QED  BY <1>2, Invariance, PTL
=============================================================================
