-------------------------- MODULE UnixServer_proofs --------------------------
(***************************************************************************)
(* UnixServer for any number of processes.                                 *)
(***************************************************************************)
EXTENDS UnixServer, Integers, TLAPS

LEMMA SequentialInit == Init => SequentialInv
  BY NameIsNoProcess DEF Init, SequentialInv, InStep, TypeOK, Running, Stages

(* A step of the one process that runs, or the start that makes two.         *)
LEMMA SequentialStep ==
    ASSUME SequentialInv, [Next]_vars
    PROVE  SequentialInv'
<1>1. ASSUME NEW p \in Process, Start(p) PROVE SequentialInv'
  BY <1>1 DEF Start, Goto, SequentialInv, InStep, TypeOK, Running, Stages
<1>2. ASSUME NEW p \in Process, Stat(p), UNCHANGED overlapped PROVE SequentialInv'
  BY <1>2, NameIsNoProcess DEF Stat, Goto, SequentialInv, InStep, TypeOK, Running, Stages
<1>3. ASSUME NEW p \in Process, RemoveStale(p), UNCHANGED overlapped PROVE SequentialInv'
  BY <1>3, NameIsNoProcess DEF RemoveStale, Goto, SequentialInv, InStep, TypeOK, Running, Stages
<1>4. ASSUME NEW p \in Process, Listen(p), UNCHANGED overlapped PROVE SequentialInv'
  BY <1>4, NameIsNoProcess DEF Listen, Goto, SequentialInv, InStep, TypeOK, Running, Stages
<1>5. ASSUME NEW p \in Process, Chmod(p), UNCHANGED overlapped PROVE SequentialInv'
  BY <1>5, NameIsNoProcess DEF Chmod, Goto, SequentialInv, InStep, TypeOK, Running, Stages
<1>6. ASSUME NEW p \in Process, SelectError(p) \/ SelectDone(p), UNCHANGED overlapped PROVE SequentialInv'
  BY <1>6 DEF SelectError, SelectDone, Goto, SequentialInv, InStep, TypeOK, Running, Stages
<1>7. ASSUME NEW p \in Process, Drained(p) \/ Remove(p), UNCHANGED overlapped PROVE SequentialInv'
  BY <1>7 DEF Drained, Remove, Goto, SequentialInv, InStep, TypeOK, Running, Stages
<1>8. ASSUME NEW p \in Process, ServeFails(p), UNCHANGED overlapped PROVE SequentialInv'
  BY <1>8 DEF ServeFails, SequentialInv, InStep, TypeOK, Running, Stages
<1>9. ASSUME NEW p \in Process, Signal(p), UNCHANGED overlapped PROVE SequentialInv'
  BY <1>9 DEF Signal, SequentialInv, InStep, TypeOK, Running, Stages
<1>10. ASSUME NEW p \in Process, Crash(p), UNCHANGED overlapped PROVE SequentialInv'
  BY <1>10 DEF Crash, Goto, SequentialInv, InStep, TypeOK, Running, Stages
<1>11. CASE PlaceFile
  BY <1>11, NameIsNoProcess DEF PlaceFile, SequentialInv, InStep, TypeOK, Running, Stages
<1>12. CASE UNCHANGED vars
  BY <1>12 DEF vars, SequentialInv, InStep, TypeOK, Running, Stages
<1> QED
  BY <1>1, <1>2, <1>3, <1>4, <1>5, <1>6, <1>7, <1>8, <1>9, <1>10, <1>11, <1>12
     DEF Next, Main, Befalls

(* While servers run one after the other, whatever crashes, failures and     *)
(* signals end them, the socket file and its listener stay in step.          *)
THEOREM SequentialInvariance == Spec => []SequentialInv
<1>1. SequentialInv /\ [Next]_vars => SequentialInv'
  BY SequentialStep
<1> QED BY <1>1, SequentialInit, PTL DEF Spec

(* Servers started one after the other are reachable while they accept.      *)
THEOREM Sequential == Spec => []Reachable
<1>1. SequentialInv => Reachable
  BY DEF SequentialInv, InStep, Reachable
<1> QED BY <1>1, SequentialInvariance, PTL

(* No crash of a predecessor stands in the way of a start.                   *)
THEOREM Afresh == Spec => []StartsAfresh
<1>1. SequentialInv => StartsAfresh
  BY DEF SequentialInv, InStep, StartsAfresh
<1> QED BY <1>1, SequentialInvariance, PTL

(* What is at the path belongs to a listener or to a crashed process, even   *)
(* when servers overlap.                                                     *)
THEOREM Tidy == Spec => []NoLitter
<1> DEFINE I == NoLitter /\ main \in [Process -> Stages]
<1>1. Init => I
  BY NameIsNoProcess DEF Init, NoLitter, Stages
<1>2. I /\ [Next]_vars => I'
  <2> SUFFICES ASSUME I, [Next]_vars PROVE I'
    OBVIOUS
  <2>1. ASSUME NEW p \in Process, Main(p) PROVE I'
    <3>1. CASE Stat(p) \/ RemoveStale(p) \/ Listen(p)
      BY <3>1, NameIsNoProcess DEF Stat, RemoveStale, Listen, Goto, NoLitter, Stages
    <3>2. CASE Chmod(p)
      BY <3>2, NameIsNoProcess DEF Chmod, Goto, NoLitter, Stages
    <3>3. CASE SelectError(p) \/ SelectDone(p) \/ Drained(p) \/ Remove(p)
      BY <3>3, NameIsNoProcess DEF SelectError, SelectDone, Drained, Remove, Goto, NoLitter, Stages
    <3> QED BY <2>1, <3>1, <3>2, <3>3 DEF Main
  <2>2. ASSUME NEW p \in Process, Start(p) \/ Befalls(p) PROVE I'
    BY <2>2, NameIsNoProcess DEF Start, Befalls, ServeFails, Signal, Crash, Goto, Running, NoLitter, Stages
  <2>3. CASE PlaceFile
    BY <2>3, NameIsNoProcess DEF PlaceFile, NoLitter
  <2>4. CASE UNCHANGED vars
    BY <2>4 DEF vars, NoLitter
  <2> QED BY <2>1, <2>2, <2>3, <2>4 DEF Next
<1> QED BY <1>1, <1>2, PTL DEF Spec

(* No server ever replaces or removes a file that is not a socket and that   *)
(* was there before it started.                                              *)
THEOREM ForeignFile == Spec => ForeignFileKept
<1> DEFINE I == /\ main \in [Process -> Stages]
                /\ serve \in [Process -> {"none", "accepting", "failed"}]
                /\ \A p \in Process :
                      /\ main[p] \in {"off", "stat", "unlink", "listen", "chmod"} => serve[p] = "none"
                      /\ path = Other /\ Running(p) => main[p] = "stat"
<1>1. Init => I
  BY DEF Init, Running, Stages
<1>2. I /\ [Next]_vars => I' /\ (path = Other => path' = Other)
  <2> SUFFICES ASSUME I, [Next]_vars PROVE I' /\ (path = Other => path' = Other)
    OBVIOUS
  <2>1. ASSUME NEW p \in Process, Main(p) PROVE I' /\ (path = Other => path' = Other)
    <3>1. CASE Stat(p)
      BY <3>1, NameIsNoProcess DEF Stat, Goto, Running, Stages
    <3>2. CASE RemoveStale(p) \/ Listen(p)
      BY <3>2, NameIsNoProcess DEF RemoveStale, Listen, Goto, Running, Stages
    <3>3. CASE Chmod(p)
      BY <3>3, NameIsNoProcess DEF Chmod, Goto, Running, Stages
    <3>4. CASE SelectError(p) \/ SelectDone(p) \/ Drained(p) \/ Remove(p)
      BY <3>4, NameIsNoProcess DEF SelectError, SelectDone, Drained, Remove, Goto, Running, Stages
    <3> QED BY <2>1, <3>1, <3>2, <3>3, <3>4 DEF Main
  <2>2. ASSUME NEW p \in Process, Start(p) \/ Signal(p) \/ Crash(p)
        PROVE  I' /\ (path = Other => path' = Other)
    BY <2>2 DEF Start, Signal, Crash, Goto, Running, Stages
  <2>3. ASSUME NEW p \in Process, ServeFails(p) PROVE I' /\ (path = Other => path' = Other)
    BY <2>3, NameIsNoProcess DEF ServeFails, Running, Stages
  <2>4. CASE PlaceFile
    BY <2>4 DEF PlaceFile, Running
  <2>5. CASE UNCHANGED vars
    BY <2>5 DEF vars, Running
  <2> QED BY <2>1, <2>2, <2>3, <2>4, <2>5 DEF Next, Befalls
<1>3. I /\ [Next]_vars => [path = Other => path' = Other]_vars
  BY <1>2
<1>4. I /\ [Next]_vars => I'
  BY <1>2
<1> QED BY <1>1, <1>3, <1>4, PTL DEF Spec, ForeignFileKept

-----------------------------------------------------------------------------
(* Why a signal ends a process: each step of its main goroutine lowers a     *)
(* number that nothing raises, and nothing takes the signal back.            *)

StagesLeft(stage) ==
    CASE stage = "off" -> 8 [] stage = "stat" -> 7 [] stage = "unlink" -> 6
      [] stage = "listen" -> 5 [] stage = "chmod" -> 4 [] stage = "select" -> 3
      [] stage = "drain" -> 2 [] stage = "remove" -> 1
      [] stage \in {"stopped", "dead"} -> 0

MainGoesOn ==
    /\ \A p \in Process : main'[p] = main[p] \/ StagesLeft(main'[p]) < StagesLeft(main[p])
    /\ sig \subseteq sig'

LEMMA StageLowers ==
    ASSUME main \in [Process -> Stages], NEW p \in Process, NEW stage, Goto(p, stage),
           StagesLeft(stage) < StagesLeft(main[p]), sig \subseteq sig'
    PROVE  MainGoesOn
<1>1. \A q \in Process : main'[q] = IF q = p THEN stage ELSE main[q]
  BY DEF Goto
<1> QED BY <1>1 DEF MainGoesOn

(* No server ever goes back to an earlier stage: once started it is at most  *)
(* seven steps of its own from its end, whatever other servers, signals and  *)
(* serve errors do meanwhile. What TLC finds on a small instance, that a     *)
(* signal ends the process, rests on this.                                   *)
THEOREM NoStageTwice == Spec => [][MainGoesOn]_vars
<1> DEFINE Staged == main \in [Process -> Stages]
<1>1. Init => Staged
  BY DEF Init, Stages
<1>2. Staged /\ [Next]_vars => Staged' /\ [MainGoesOn]_vars
  <2> SUFFICES ASSUME Staged, [Next]_vars PROVE Staged' /\ [MainGoesOn]_vars
    OBVIOUS
  <2>1. ASSUME NEW p \in Process, NEW stage \in Stages, Goto(p, stage),
               StagesLeft(stage) < StagesLeft(main[p]), UNCHANGED sig
        PROVE  Staged' /\ MainGoesOn
    <3>1. Staged'
      BY <2>1 DEF Goto
    <3> QED BY <2>1, <3>1, StageLowers
  <2>2. ASSUME UNCHANGED main, sig \subseteq sig' PROVE Staged' /\ MainGoesOn
    BY <2>2 DEF MainGoesOn
  <2>3. ASSUME NEW p \in Process, Start(p) \/ Stat(p) PROVE Staged' /\ MainGoesOn
    BY <2>1, <2>3 DEF Start, Stat, StagesLeft, Stages
  <2>4. ASSUME NEW p \in Process, RemoveStale(p) \/ Listen(p) PROVE Staged' /\ MainGoesOn
    BY <2>1, <2>4 DEF RemoveStale, Listen, StagesLeft, Stages
  <2>5. ASSUME NEW p \in Process, Chmod(p) PROVE Staged' /\ MainGoesOn
    BY <2>1, <2>5 DEF Chmod, StagesLeft, Stages
  <2>6. ASSUME NEW p \in Process, SelectError(p) \/ SelectDone(p) PROVE Staged' /\ MainGoesOn
    BY <2>1, <2>6 DEF SelectError, SelectDone, StagesLeft, Stages
  <2>7. ASSUME NEW p \in Process, Drained(p) \/ Remove(p) PROVE Staged' /\ MainGoesOn
    BY <2>1, <2>7 DEF Drained, Remove, StagesLeft, Stages
  <2>8. ASSUME NEW p \in Process, Crash(p) PROVE Staged' /\ MainGoesOn
    <3>1. main[p] \in Stages \ {"off", "stopped", "dead"} /\ Goto(p, "dead") /\ UNCHANGED sig
      BY <2>8 DEF Crash, Running
    <3>2. StagesLeft("dead") < StagesLeft(main[p])
      BY <3>1 DEF StagesLeft, Stages
    <3> QED BY <2>1, <3>1, <3>2 DEF Stages
  <2>9. ASSUME NEW p \in Process, ServeFails(p) \/ Signal(p) PROVE Staged' /\ MainGoesOn
    BY <2>2, <2>9 DEF ServeFails, Signal
  <2>10. CASE PlaceFile
    BY <2>2, <2>10 DEF PlaceFile
  <2>11. CASE UNCHANGED vars
    BY <2>11 DEF vars
  <2> QED
    BY <2>3, <2>4, <2>5, <2>6, <2>7, <2>8, <2>9, <2>10, <2>11 DEF Next, Main, Befalls
<1> QED BY <1>1, <1>2, PTL DEF Spec
=============================================================================
