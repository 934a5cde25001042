----------------------------- MODULE UnixServer -----------------------------
(***************************************************************************)
(* The life of servers on one Unix socket path: runUnix, serveHTTP and     *)
(* listenUnixSocket of server.go, and bindUnixSocket of socket_unix.go. In *)
(* each process the main goroutine and the serve goroutine of serveHTTP    *)
(* run side by side. The name at the path is all the processes share:      *)
(* Close of a net.UnixListener and the deferred os.Remove both unlink      *)
(* whatever has that name.                                                 *)
(***************************************************************************)
CONSTANTS
    Process,    \* server processes, each run once; no process is called:
    None,       \* nothing has the name
    Other       \* a file that is not a socket has the name

ASSUME NameIsNoProcess == None \notin Process /\ Other \notin Process /\ None # Other

VARIABLES
    path,   \* None, Other, or the process whose socket has the name
    main,   \* the main goroutine of each process
    serve,  \* its serve goroutine: "none", "accepting", "failed"
    lis,    \* processes whose listening socket is open
    sig,    \* processes that got SIGINT or SIGTERM
    overlapped  \* whether a process was started while another still ran

vars == <<path, main, serve, lis, sig, overlapped>>

Stages == {"off", "stat", "unlink", "listen", "chmod", "select", "drain", "remove",
           "stopped", "dead"}

Running(p) == main[p] \notin {"off", "stopped", "dead"}

TypeOK ==
    /\ path \in Process \cup {None, Other}
    /\ main \in [Process -> Stages]
    /\ serve \in [Process -> {"none", "accepting", "failed"}]
    /\ lis \subseteq Process
    /\ sig \subseteq Process
    /\ overlapped \in BOOLEAN

Init ==
    /\ path \in {None, Other}
    /\ main = [p \in Process |-> "off"]
    /\ serve = [p \in Process |-> "none"]
    /\ lis = {}
    /\ sig = {}
    /\ overlapped = FALSE

Goto(p, stage) == main' = [main EXCEPT ![p] = stage]

-----------------------------------------------------------------------------
(* listenUnixSocket *)

Start(p) ==
    /\ main[p] = "off"
    /\ Goto(p, "stat")
    /\ overlapped' = (overlapped \/ \E q \in Process : Running(q))
    /\ UNCHANGED <<path, serve, lis, sig>>

(* Mutant: the socket a crashed process left behind is not removed. *)
KeepStale(p) ==
    /\ main[p] = "stat"
    /\ Goto(p, IF path = Other THEN "stopped" ELSE "listen")
    /\ UNCHANGED <<path, serve, lis, sig>>

(* Mutant: whatever has the name is taken for a stale socket. *)
NoModeCheck(p) ==
    /\ main[p] = "stat"
    /\ Goto(p, IF path = None THEN "listen" ELSE "unlink")
    /\ UNCHANGED <<path, serve, lis, sig>>

(* Whatever is there: a file that is not a socket makes it give up.          *)
Stat(p) ==
    /\ main[p] = "stat"
    /\ \/ path = None /\ Goto(p, "listen")
       \/ path = Other /\ Goto(p, "stopped")
       \/ path \in Process /\ Goto(p, "unlink")
    /\ UNCHANGED <<path, serve, lis, sig>>

(* Any socket found is taken for a stale one. Removing it may fail, and does *)
(* if it is gone.                                                            *)
RemoveStale(p) ==
    /\ main[p] = "unlink"
    /\ \/ path # None /\ path' = None /\ Goto(p, "listen")
       \/ Goto(p, "stopped") /\ UNCHANGED path
    /\ UNCHANGED <<serve, lis, sig>>

(* bindUnixSocket: bind and listen may fail, and do if anything has the name. *)
Listen(p) ==
    /\ main[p] = "listen"
    /\ \/ /\ path = None
          /\ path' = p
          /\ lis' = lis \cup {p}
          /\ Goto(p, "chmod")
       \/ /\ Goto(p, "stopped")
          /\ UNCHANGED <<path, lis>>
    /\ UNCHANGED <<serve, sig>>

(* Mutant: the error path leaves the file of the closed socket behind. *)
LeaveSocket(p) ==
    /\ main[p] = "chmod"
    /\ \/ /\ path # None
          /\ Goto(p, "select")
          /\ serve' = [serve EXCEPT ![p] = "accepting"]
          /\ UNCHANGED <<path, lis>>
       \/ /\ Goto(p, "stopped")
          /\ lis' = lis \ {p}
          /\ UNCHANGED <<path, serve>>
    /\ UNCHANGED sig

(* Mutant: the error path is taken on success too. *)
CleanUpAnyway(p) ==
    /\ main[p] = "chmod"
    /\ Goto(p, "select")
    /\ serve' = [serve EXCEPT ![p] = "accepting"]
    /\ path' = None
    /\ UNCHANGED <<lis, sig>>

(* Setting the mode may fail, and does if the name is gone; otherwise        *)
(* serveHTTP starts the serve goroutine.                                     *)
Chmod(p) ==
    /\ main[p] = "chmod"
    /\ \/ /\ path # None
          /\ Goto(p, "select")
          /\ serve' = [serve EXCEPT ![p] = "accepting"]
          /\ UNCHANGED <<path, lis>>
       \/ /\ Goto(p, "stopped")
          /\ lis' = lis \ {p}
          /\ path' = None
          /\ UNCHANGED serve
    /\ UNCHANGED sig

-----------------------------------------------------------------------------
(* serveHTTP and the deferred removal of runUnix *)

(* Serve returns an error: it closes the listener and errCh gets the error.  *)
ServeFails(p) ==
    /\ serve[p] = "accepting" /\ p \in lis /\ Running(p)
    /\ serve' = [serve EXCEPT ![p] = "failed"]
    /\ lis' = lis \ {p}
    /\ path' = None
    /\ UNCHANGED <<main, sig>>

(* The select takes either case that is ready.                               *)
SelectError(p) ==
    /\ main[p] = "select" /\ serve[p] = "failed"
    /\ Goto(p, "remove")
    /\ UNCHANGED <<path, serve, lis, sig>>

(* Mutant: a signal is looked at after a serve error only. *)
WaitForError(p) ==
    /\ main[p] = "select" /\ p \in sig /\ serve[p] = "failed"
    /\ Goto(p, "drain")
    /\ UNCHANGED <<path, serve, lis, sig>>

(* Shutdown closes the listener first, once, then lets connections finish.   *)
SelectDone(p) ==
    /\ main[p] = "select" /\ p \in sig
    /\ Goto(p, "drain")
    /\ path' = IF p \in lis THEN None ELSE path
    /\ lis' = lis \ {p}
    /\ UNCHANGED <<serve, sig>>

(* No connection is active any more, or shutdownTimeout is over.             *)
Drained(p) ==
    /\ main[p] = "drain"
    /\ Goto(p, "remove")
    /\ UNCHANGED <<path, serve, lis, sig>>

Remove(p) ==
    /\ main[p] = "remove"
    /\ path' = None
    /\ Goto(p, "stopped")
    /\ UNCHANGED <<serve, lis, sig>>

-----------------------------------------------------------------------------

Signal(p) ==
    /\ Running(p) /\ p \notin sig
    /\ sig' = sig \cup {p}
    /\ UNCHANGED <<path, main, serve, lis>>

(* The process is killed: the kernel closes its socket, the name stays.      *)
Crash(p) ==
    /\ Running(p)
    /\ Goto(p, "dead")
    /\ lis' = lis \ {p}
    /\ UNCHANGED <<path, serve, sig>>

(* While no server runs, somebody may put another file at the path.          *)
PlaceFile ==
    /\ path = None /\ \A p \in Process : ~Running(p)
    /\ path' = Other
    /\ UNCHANGED <<main, serve, lis, sig, overlapped>>

Main(p) ==
    /\ \/ Stat(p) \/ RemoveStale(p) \/ Listen(p) \/ Chmod(p)
       \/ SelectError(p) \/ SelectDone(p) \/ Drained(p) \/ Remove(p)
    /\ UNCHANGED overlapped

Befalls(p) ==
    /\ ServeFails(p) \/ Signal(p) \/ Crash(p)
    /\ UNCHANGED overlapped

Next ==
    \/ \E p \in Process : Start(p) \/ Main(p) \/ Befalls(p)
    \/ PlaceFile

(* The main goroutine goes on when it can; Drained because Shutdown waits    *)
(* shutdownTimeout at most.                                                  *)
Spec == Init /\ [][Next]_vars /\ \A p \in Process : WF_vars(Main(p))

-----------------------------------------------------------------------------
(* Properties. *)

(* As long as servers run one after the other, clients find the one that     *)
(* accepts connections at the path, whatever its predecessors left there or  *)
(* take away.                                                                *)
Reachable == \A p \in Process :
    (~overlapped /\ main[p] = "select" /\ serve[p] = "accepting") => path = p /\ p \in lis

(* A crash never stands in the way of the next start: at bind the name is    *)
(* free, and a socket found stale can be removed.                            *)
StartsAfresh == \A p \in Process : ~overlapped =>
    /\ main[p] = "listen" => path = None
    /\ main[p] = "unlink" => path # None

(* The inductive invariant behind both.                                      *)
InStep ==
    /\ \A p, q \in Process : Running(p) /\ Running(q) => p = q
    /\ \A p \in Process :
          /\ main[p] = "listen" => path = None
          /\ main[p] = "unlink" => path # None
          /\ p \in lis => main[p] \in {"chmod", "select"} /\ path = p
          /\ main[p] = "chmod" => p \in lis
          /\ main[p] \in {"off", "stat", "unlink", "listen", "chmod"} => serve[p] = "none"
          /\ main[p] = "select" => (p \in lis <=> serve[p] = "accepting")

SequentialInv == TypeOK /\ (~overlapped => InStep)

(* A socket file that nobody listens on is left by a crash only, not by a    *)
(* shutdown, a failed start or a serve error, even when servers overlap.     *)
NoLitter == path \in Process => path \in lis \/ main[path] = "dead"

(* A file that is not a socket, and is there before the server starts, is    *)
(* never replaced or removed. (One put there between Stat and Remove, or     *)
(* before the removal at the end of a server, is out of PlaceFile's reach.)  *)
ForeignFileKept == [][path = Other => path' = Other]_vars

(* A signal ends the process, also one that arrives during the start or      *)
(* together with a serve error.                                              *)
SignalStops == \A p \in Process : p \in sig ~> ~Running(p)

(* The comment on listenUnixSocket: it "removes a stale socket left by a     *)
(* previous run". What it unlinks then has no listener.                      *)
OnlyStaleRemoved ==
    [][\A p, q \in Process :
          (main[p] = "unlink" /\ main'[p] = "listen" /\ path = q) => q \notin lis]_vars
=============================================================================
