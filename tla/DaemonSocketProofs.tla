------------------------- MODULE DaemonSocketProofs -------------------------
(***************************************************************************)
(* What holds of DaemonSocket for any number of daemon processes, spawned  *)
(* any number of times and disturbed at any point.                         *)
(***************************************************************************)
EXTENDS DaemonSocket, TLAPS

(* As long as no daemon was spawned next to another there is one that is   *)
(* present; from RemoveStale to Listen nothing is at the path, and from    *)
(* then on, until it closes its listener, its own socket is.  Stopping     *)
(* daemons no longer matter: their listener is closed, and its file gone.  *)
Calm ==
    /\ \A p, q \in Procs : Present(p) /\ Present(q) => p = q
    /\ \A p \in Procs : st[p] \in {"plugins", "listen"} => path = NoFile
    /\ \A p \in Procs : st[p] \in Listening => path = p

IInv == TypeOK /\ (~contested => Calm)

LEMMA InitInv == Init => IInv
<1> SUFFICES ASSUME Init
             PROVE  TypeOK /\ Calm
  BY DEF IInv
<1> USE SocketAssumption DEF Init
<1>1. path \in {NoFile, Stale}
  OBVIOUS
<1>2. st \in [Procs -> Starting \cup {"none", "close", "serve", "stopping"}]
  OBVIOUS
<1>3. starts \in 0 .. MaxStarts /\ faults \in 0 .. MaxFaults
  OBVIOUS
<1>4. contested \in BOOLEAN
  OBVIOUS
<1>5. TypeOK
  BY <1>1, <1>2, <1>3, <1>4 DEF TypeOK
<1>6. Calm
  BY DEF Calm, Present, Starting, Listening
<1>7. QED
  BY <1>5, <1>6

-----------------------------------------------------------------------------
LEMMA SpawnStep ==
    ASSUME IInv, NEW p \in Procs, Spawn(p)
    PROVE  IInv'
<1> USE SocketAssumption DEF IInv, Spawn, Move
<1>1. TypeOK'
  BY DEF TypeOK, Starting, Listening
<1>2. ASSUME ~contested' PROVE Calm'
  <2>1. \A q \in Procs : ~Present(q)
    BY <1>2 DEF TypeOK
  <2>2. \A q \in Procs \ {p} : st'[q] = st[q] /\ ~Present(q)'
    BY <2>1 DEF TypeOK, Present
  <2>3. st'[p] = "remove"
    BY DEF TypeOK
  <2>4. QED
    BY <2>1, <2>2, <2>3 DEF Calm, Present, Starting, Listening
<1>3. QED
  BY <1>1, <1>2

(* RemoveStale up to ChmodFails: a daemon that starts.                     *)
LEMMA StartStep ==
    ASSUME IInv, NEW p \in Procs, DaemonStep(p)
    PROVE  IInv'
<1> USE SocketAssumption DEF IInv, Move
<1>1. CASE RemoveStale(p)
  BY <1>1 DEF RemoveStale, TypeOK, Calm, Present, Starting, Listening
<1>2. CASE LoadPlugins(p)
  BY <1>2 DEF LoadPlugins, TypeOK, Calm, Present, Starting, Listening
<1>3. CASE StartFails(p)
  BY <1>3 DEF StartFails, Fault, TypeOK, Calm, Present, Starting, Listening
<1>4. CASE Listen(p)
  BY <1>4 DEF Listen, TypeOK, Calm, Present, Starting, Listening
<1>5. CASE ListenFails(p)
  BY <1>5 DEF ListenFails, Fault, TypeOK, Calm, Present, Starting, Listening
<1>6. CASE Chmod(p)
  BY <1>6 DEF Chmod, TypeOK, Calm, Present, Starting, Listening
<1>7. CASE ChmodFails(p)
  BY <1>7 DEF ChmodFails, Fault, TypeOK, Calm, Present, Starting, Listening
<1>8. CASE CloseListener(p)
  BY <1>8 DEF CloseListener, TypeOK, Calm, Present, Starting, Listening
<1>9. QED
  BY <1>1, <1>2, <1>3, <1>4, <1>5, <1>6, <1>7, <1>8 DEF DaemonStep

LEMMA NextInv == IInv /\ [Next]_vars => IInv'
<1> SUFFICES ASSUME IInv, [Next]_vars
             PROVE  IInv'
  OBVIOUS
<1> USE SocketAssumption
<1>1. ASSUME NEW p \in Procs, Autostart(p) \/ Serve(p)
      PROVE  IInv'
  BY <1>1, SpawnStep DEF Autostart, Serve
<1>2. ASSUME NEW p \in Procs, DaemonStep(p)
      PROVE  IInv'
  BY <1>2, StartStep
<1>3. ASSUME NEW p \in Procs, Stop(p)
      PROVE  IInv'
  BY <1>3 DEF Stop, Fault, Move, IInv, TypeOK, Calm, Present, Starting, Listening
<1>4. ASSUME NEW p \in Procs, Stopped(p)
      PROVE  IInv'
  BY <1>4 DEF Stopped, Move, IInv, TypeOK, Calm, Present, Starting, Listening
<1>5. ASSUME NEW p \in Procs, Crash(p)
      PROVE  IInv'
  <2>1. TypeOK'
    BY <1>5 DEF Crash, Fault, IInv, TypeOK, Starting, Listening
  <2>2. ASSUME ~contested PROVE Calm'
    BY <1>5, <2>2 DEF Crash, IInv, TypeOK, Calm, Present, Starting, Listening
  <2>3. QED
    BY <1>5, <2>1, <2>2 DEF Crash, IInv
<1>6. CASE UNCHANGED vars
  BY <1>6 DEF vars, IInv, TypeOK, Calm, Present
<1>7. QED
  BY <1>1, <1>2, <1>3, <1>4, <1>5, <1>6 DEF Next

LEMMA Invariance == Spec => []IInv
  BY InitInv, NextInv, PTL DEF Spec

-----------------------------------------------------------------------------
(* The path leads to a daemon that listens, to a dead socket or to         *)
(* nothing.                                                                *)
THEOREM TypeCorrect == Spec => []TypeOK
<1>1. IInv => TypeOK
  BY DEF IInv
<1>2. QED
  BY <1>1, Invariance, PTL

(* However many daemons are spawned, crash, fail and stop one after the    *)
(* other, one that serves is reachable: no earlier one takes its path.     *)
THEOREM AlwaysReachable == Spec => []ServingReachable
<1>1. IInv => ServingReachable
  BY DEF IInv, Calm, Listening, ServingReachable
<1>2. QED
  BY <1>1, Invariance, PTL

(* A socket left behind makes no later daemon find its address in use, nor *)
(* does the path vanish between Listen and Chmod.                          *)
THEOREM NoLaterFailure == Spec => NeverInUse
<1>1. IInv /\ [Next]_vars =>
          [\A p \in Procs :
               (path # NoFile /\ ListenFails(p)) \/ (path = NoFile /\ ChmodFails(p))
                   => contested]_vars
  BY SocketAssumption DEF IInv, Calm, Listening, ListenFails, ChmodFails, Move
<1>2. QED
  BY <1>1, Invariance, PTL DEF Spec, NeverInUse
=============================================================================
