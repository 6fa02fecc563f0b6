-------------------------------- MODULE RepoHost --------------------------------
(***************************************************************************)
(* The Node's pgBackRest repo host: the authorizations of the Project      *)
(* lifetimes placed here, the configuration files generated from them, and *)
(* the server container that reads those files.  Every operation holds one *)
(* lock, so they do not overlap; but an operation is many writes and       *)
(* Docker calls, each of which may fail, the Agent may die between any     *)
(* two, and Docker restarts the server by itself (unless-stopped).         *)
(***************************************************************************)
EXTENDS Integers, FiniteSets

CONSTANTS Lifetime,        \* Project lifetimes (UIDs)
          NetworkOf,       \* the network of each lifetime's Project, shared by its lifetimes
          HostLimits       \* bounds: calls, failures, server exits and Agent deaths of a behaviour

ASSUME HostConstants ==
  /\ DOMAIN NetworkOf = Lifetime
  /\ HostLimits \subseteq [calls: Nat, failures: Nat, exits: Nat, deaths: Nat]

VARIABLES
  authorized, \* repo-host.json: the lifetimes authorized
  conf,       \* pgbackrest.conf, which the server reads when it starts or reloads
  written,    \* written.conf: the Agent's copy of conf as last written
  applied,    \* applied.conf: what the server is confirmed to serve
  server,     \* the container, the lifetimes its loaded configuration authorizes, and
              \* whether it was made from another image than the one on record
  attached,   \* the Project networks the container is on
  call,       \* the operation holding the lock
  released,   \* history: lifetimes for which Remaining answered "nothing", until authorized again
  torn,       \* history: a failure or a death left conf ahead of written.conf
  hostLeft    \* what is left of the bounds

hostVars == <<authorized, conf, written, applied, server, attached, call, released, torn, hostLeft>>

(* A configuration is the set of lifetimes it authorizes; a file holds at most one. *)
NoFile == {}
File(c) == {c}
Networks(us) == {NetworkOf[u] : u \in us}
NoCall == [pc |-> "idle", kind |-> "none", uid |-> {}, data |-> {}, previous |-> NoFile,
           changed |-> FALSE, next |-> "idle"]

Missing == [state |-> "missing", loaded |-> {}, other |-> FALSE]
Created == [Missing EXCEPT !.state = "created"]

HostInit ==
  /\ authorized = {} /\ conf = NoFile /\ written = NoFile /\ applied = NoFile
  /\ server = Missing
  /\ attached = {} /\ call = NoCall /\ released = {} /\ torn = FALSE
  /\ hostLeft \in HostLimits

CallAt(pc) == call.pc = pc
CallTo(pc) == call' = [call EXCEPT !.pc = pc]
Fails == hostLeft.failures > 0 /\ hostLeft' = [hostLeft EXCEPT !.failures = @ - 1]
Running == server.state = "running"
Started(c) == [c EXCEPT !.state = "running", !.loaded = UNION conf]
Serving == Started(server)
files == <<conf, written, applied>>

------------------------------------------------------------------------------
(* Authorize saves the state, with the image to run, before it applies it. *)
Authorize(u) ==
  /\ CallAt("idle") /\ hostLeft.calls > 0
  /\ hostLeft' = [hostLeft EXCEPT !.calls = @ - 1]
  /\ authorized' = authorized \cup {u}
  /\ released' = released \ {u}
  /\ call' = [NoCall EXCEPT !.pc = "apply", !.kind = "authorize", !.uid = {u}]
  /\ \E other \in BOOLEAN :
       /\ other => server.state # "missing"
       /\ server' = [server EXCEPT !.other = other]
  /\ UNCHANGED <<files, attached, torn>>

(* Revoke deletes the record, then acts whether or not it was the one to delete it. *)
Revoke(u) ==
  /\ CallAt("idle") /\ hostLeft.calls > 0
  /\ hostLeft' = [hostLeft EXCEPT !.calls = @ - 1]
  /\ authorized' = authorized \ {u}
  /\ call' = [NoCall EXCEPT !.pc = "served", !.kind = "revoke", !.uid = {u}]
  /\ UNCHANGED <<files, server, attached, released, torn>>

(* The supervisor's Reconcile: nothing to do while nothing is authorized. *)
ReconcileHost ==
  /\ CallAt("idle") /\ authorized # {}
  /\ call' = [NoCall EXCEPT !.pc = "apply", !.kind = "reconcile"]
  /\ UNCHANGED <<authorized, files, server, attached, released, torn, hostLeft>>

(* Seeded fault: what is written but not confirmed is not looked at. *)
ServesUIDApplied(u) == \E c \in applied : u \in c

(* servesUID reads applied.conf and written.conf, never conf itself. *)
ServesUID(u) == \E c \in applied \cup written : u \in c

(* applyWithout: a lifetime not served needs nothing; a running server is   *)
(* reloaded, a stopped one only has its file rewritten and confirmed.       *)
ApplyWithout ==
  /\ CallAt("served")
  /\ call' = [call EXCEPT
       !.pc = CASE ~\E u \in call.uid : ServesUID(u) -> "detach"
                [] OTHER -> IF Running THEN "apply" ELSE "write",
       !.data = authorized, !.changed = TRUE, !.next = "confirm"]
  /\ UNCHANGED <<authorized, files, server, attached, released, torn, hostLeft>>

(* apply, up to the write: what is confirmed, or what is on disk, differs.  *)
Apply ==
  /\ CallAt("apply")
  /\ LET differs == applied # File(authorized) \/ written # File(authorized)
     IN call' = [call EXCEPT !.pc = IF differs THEN "write" ELSE "ensure",
                   !.data = authorized, !.previous = applied, !.changed = differs,
                   !.next = "ensure"]
  /\ UNCHANGED <<authorized, files, server, attached, released, torn, hostLeft>>

(* writeConfig replaces the mounted file, gives it to the image's user ...  *)
WriteConf ==
  /\ CallAt("write")
  /\ conf' = File(call.data)
  /\ CallTo("copy")
  /\ UNCHANGED <<authorized, written, applied, server, attached, released, torn, hostLeft>>

(* ... and only then keeps the Agent's copy.                                *)
WriteCopy ==
  /\ CallAt("copy")
  /\ written' = File(call.data)
  /\ CallTo(call.next)
  /\ UNCHANGED <<authorized, conf, applied, server, attached, released, torn, hostLeft>>

(* EnsureNodeContainer creates a missing container, and replaces one made   *)
(* from another image; it does not start what it creates.                   *)
EnsureContainer ==
  /\ CallAt("ensure")
  /\ IF server.state = "missing" \/ server.other
     THEN server' = Created /\ attached' = {} /\ CallTo("start")
     ELSE /\ CallTo(CASE ~Running -> "start" [] call.changed -> "signal" [] OTHER -> "ready")
          /\ UNCHANGED <<server, attached>>
  /\ UNCHANGED <<authorized, files, released, torn, hostLeft>>

(* startOrRecreate: starting one Docker has started meanwhile does nothing; *)
(* one that does not start is replaced.                                     *)
StartOrRecreate ==
  /\ CallAt("start")
  /\ \/ server' = (IF Running THEN server ELSE Serving) /\ UNCHANGED <<attached, hostLeft>>
     \/ Fails /\ server' = Started(Created) /\ attached' = {}
  /\ CallTo("ready")
  /\ UNCHANGED <<authorized, files, released, torn>>

(* The HUP makes a running server load the file.                            *)
Signal ==
  /\ CallAt("signal") /\ Running
  /\ server' = Serving
  /\ CallTo("ready")
  /\ UNCHANGED <<authorized, files, attached, released, torn, hostLeft>>

(* waitReady answers only for a server that runs; without one, or when it   *)
(* does not answer in time, the previous configuration is put back.         *)
WaitReady ==
  /\ CallAt("ready")
  /\ \/ Running /\ CallTo(IF call.changed THEN "confirm" ELSE "connect") /\ UNCHANGED hostLeft
     \/ /\ Running => hostLeft.failures > 0
        /\ hostLeft' = IF Running THEN [hostLeft EXCEPT !.failures = @ - 1] ELSE hostLeft
        /\ call' = [call EXCEPT !.pc = IF call.previous = NoFile THEN "revive" ELSE "write",
                      !.data = UNION call.previous, !.next = "revive"]
  /\ UNCHANGED <<authorized, files, server, attached, released, torn>>

(* recover's second half: reload or start, else replace; apply fails anyway. *)
Revive ==
  /\ CallAt("revive")
  /\ \/ server' = Serving /\ UNCHANGED <<attached, hostLeft>>
     \/ Fails /\ server' = Started(Created) /\ attached' = {}
  /\ call' = NoCall
  /\ UNCHANGED <<authorized, files, released, torn>>

ConfirmApplied ==
  /\ CallAt("confirm")
  /\ applied' = File(call.data)
  /\ CallTo(IF call.kind = "revoke" /\ call.next = "confirm" THEN "detach" ELSE "connect")
  /\ UNCHANGED <<authorized, conf, written, server, attached, released, torn, hostLeft>>

(* apply ends by attaching the container to every authorized network.       *)
ConnectNetworks ==
  /\ CallAt("connect")
  /\ attached' = IF server.state = "missing" THEN attached ELSE attached \cup Networks(authorized)
  /\ call' = IF call.kind = "revoke" THEN [call EXCEPT !.pc = "detach"] ELSE NoCall
  /\ UNCHANGED <<authorized, files, server, released, torn, hostLeft>>

(* Revoke ends by leaving the network, unless another lifetime uses it.     *)
Detach ==
  /\ CallAt("detach")
  /\ attached' = attached \ (Networks(call.uid) \ Networks(authorized))
  /\ call' = NoCall
  /\ UNCHANGED <<authorized, files, server, released, torn, hostLeft>>

(* Remaining found nothing of u: the cleanup task may report evidence.      *)
RemainingNothing(u) ==
  /\ CallAt("idle") /\ u \notin released
  /\ u \notin authorized /\ ~ServesUID(u)
  /\ NetworkOf[u] \in Networks(authorized) \/ NetworkOf[u] \notin attached
  /\ released' = released \cup {u}
  /\ UNCHANGED <<authorized, files, server, attached, call, torn, hostLeft>>

------------------------------------------------------------------------------
(* Any step may fail and end the call with an error, or the Agent may die   *)
(* in it.  A reload may have been delivered; a replacement may have got no  *)
(* further than the removal, or the creation, of the container.  Between    *)
(* the mounted file and its copy conf is left ahead of written.conf.        *)
Replacing == CallAt("start") \/ CallAt("revive") \/ (CallAt("ensure") /\ server.other)
LeftMidway ==
  /\ call' = NoCall
  /\ torn' = (torn \/ (CallAt("copy") /\ conf # written))
  /\ \/ UNCHANGED <<server, attached>>
     \/ CallAt("signal") /\ Running /\ server' = Serving /\ UNCHANGED attached
     \/ Replacing /\ server' \in {Missing, Created} /\ attached' = {}
  /\ UNCHANGED <<authorized, files, released>>

(* What waitReady finds is not an error of the call but handled in it.      *)
CallFails == call.pc \notin {"idle", "ready"} /\ Fails /\ LeftMidway

HostAgentDies ==
  /\ call.pc # "idle" /\ hostLeft.deaths > 0
  /\ hostLeft' = [hostLeft EXCEPT !.deaths = @ - 1]
  /\ LeftMidway

(* A signal to a server that has exited is an error.                        *)
SignalFails ==
  /\ CallAt("signal") /\ ~Running
  /\ call' = NoCall
  /\ UNCHANGED <<authorized, files, server, attached, released, torn, hostLeft>>

(* The server exits, or its Node reboots; Docker starts it again, when it   *)
(* loads whatever the mounted file holds then.                              *)
ServerExits ==
  /\ Running /\ hostLeft.exits > 0
  /\ hostLeft' = [hostLeft EXCEPT !.exits = @ - 1]
  /\ server' = [server EXCEPT !.state = "stopped", !.loaded = {}]
  /\ UNCHANGED <<authorized, files, attached, call, released, torn>>

DockerRestarts ==
  /\ server.state = "stopped"
  /\ server' = Serving
  /\ UNCHANGED <<authorized, files, attached, call, released, torn, hostLeft>>

CallSteps ==
  \/ ApplyWithout \/ Apply \/ WriteConf \/ WriteCopy \/ EnsureContainer \/ StartOrRecreate
  \/ Signal \/ SignalFails \/ WaitReady \/ Revive \/ ConfirmApplied \/ ConnectNetworks \/ Detach

HostNext ==
  \/ \E u \in Lifetime : Authorize(u) \/ Revoke(u) \/ RemainingNothing(u)
  \/ ReconcileHost \/ CallSteps
  \/ CallFails \/ HostAgentDies \/ ServerExits \/ DockerRestarts

(* A call is a straight line of bounded steps, the supervisor calls         *)
(* Reconcile at every interval, and Docker keeps an unless-stopped          *)
(* container running.                                                       *)
HostFairness == WF_hostVars(CallSteps) /\ WF_hostVars(ReconcileHost) /\ WF_hostVars(DockerRestarts)

HostSpec == HostInit /\ [][HostNext]_hostVars /\ HostFairness

------------------------------------------------------------------------------
Serves(u) == Running /\ u \in server.loaded /\ NetworkOf[u] \in attached

(* Remaining's empty answer lets the server take the lifetime's assignment  *)
(* off this Node: whatever starts the repo host next does not serve it,     *)
(* through failed reloads, rollbacks and deaths, as long as conf never ran  *)
(* ahead of the copy Remaining reads.                                       *)
ReleasedIsGone == ~torn => \A u \in released : \A c \in conf : u \notin c

(* superviseRepoHost and Reconcile: a lifetime that stays authorized is     *)
(* served in the end, and stays so, whatever failed before; "a              *)
(* configuration written but not confirmed leaves this copy behind, and the *)
(* next apply reloads again" (appliedPath).  It does not hold: applied.conf *)
(* left behind by one interrupted change may equal the next one's.          *)
AuthorizedIsServed ==
  \A u \in Lifetime : <>[](torn \/ (u \in authorized => Serves(u)))

================================================================================
