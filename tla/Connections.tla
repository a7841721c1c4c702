------------------------------ MODULE Connections ------------------------------
(***************************************************************************)
(* The WebSocket connections of ONE user on the gateway nodes and the      *)
(* user's entry in the shared routing table.  Every node keeps a map from  *)
(* user to connection (connection.DefaultManager); Redis holds the one     *)
(* node messages for the user are sent to (routing.Table).  Each           *)
(* connection is served by a goroutine (WSHandler.Handle); a node also     *)
(* runs a subscriber for kick-off notices of other nodes and a route       *)
(* heartbeat.  Users share nothing here, so one of them is enough.         *)
(***************************************************************************)
EXTENDS Naturals, FiniteSets

CONSTANTS
    Node,        \* gateway nodes
    Conn,        \* connections the user opens over a behaviour, one each
    None,        \* no connection, no node
    MaxFaults,   \* bound on failed registrations and routes lost by Redis
    MaxStops     \* bound on crashes and graceful stops of nodes

ASSUME ConnectionsAssumption ==
    /\ None \notin Node /\ None \notin Conn
    /\ MaxFaults \in Nat /\ MaxStops \in Nat

VARIABLES
    mode,     \* mode[n]: "up", "draining" (GatewayServer.Stop ran) or "down"
    local,    \* local[n]: the connection in n's map, or None
    route,    \* the node in ws:route:{user}, or None
    notices,  \* notices[n]: a kick-off notice is on its way to n
    kicker,   \* kicker[n]: n's subscriber has found the route elsewhere
    beat,     \* beat[n]: what n's route heartbeat is about to do
    conn,     \* conn[c]: the goroutine that serves connection c
    faults, stops

vars == <<mode, local, route, notices, kicker, beat, conn, faults, stops>>

(* Where Handle stands: after LoadAndDelete ("storing"), after Store       *)
(* ("registering"), in ReadPump ("serving"), then through its deferred     *)
(* clean-up: RemoveConnection, the look into the map, UnregisterUser.      *)
PCs == {"idle", "storing", "registering", "serving", "removing", "looking",
        "unregistering", "gone"}

(* raced: another AddConnection of the node overlapped this one's.         *)
(* late: the connections that had already found the map empty, and were    *)
(* about to unregister the route, when this one was stored.                *)
Goroutine == [pc : PCs, node : Node \cup {None}, open : BOOLEAN,
              kicked : BOOLEAN, raced : BOOLEAN, late : SUBSET Conn]

TypeOK ==
    /\ mode \in [Node -> {"up", "draining", "down"}]
    /\ local \in [Node -> Conn \cup {None}]
    /\ route \in Node \cup {None}
    /\ notices \in [Node -> BOOLEAN]
    /\ kicker \in [Node -> BOOLEAN]
    /\ beat \in [Node -> {"idle", "listed", "conflict"}]
    /\ conn \in [Conn -> Goroutine]
    /\ faults \in 0..MaxFaults /\ stops \in 0..MaxStops

Unborn == [pc |-> "idle", node |-> None, open |-> FALSE, kicked |-> FALSE,
           raced |-> FALSE, late |-> {}]

Init ==
    /\ mode = [n \in Node |-> "up"]
    /\ local = [n \in Node |-> None]
    /\ route = None
    /\ notices = [n \in Node |-> FALSE]
    /\ kicker = [n \in Node |-> FALSE]
    /\ beat = [n \in Node |-> "idle"]
    /\ conn = [c \in Conn |-> Unborn]
    /\ faults = 0 /\ stops = 0

At(n, step) == {c \in Conn : conn[c].node = n /\ conn[c].pc = step}

(* c is served, its socket is open, and it is the one its node would send to *)
Seated(c) == /\ conn[c].pc = "serving"
             /\ conn[c].open
             /\ local[conn[c].node] = c

(* Kick: a notice for the client now, Close one second later; closing a    *)
(* connection twice does nothing                                           *)
Kick(f, c) == IF c # None /\ f[c].open THEN [f EXCEPT ![c].kicked = TRUE] ELSE f

(* Close: what is remembered of an open connection is forgotten with it *)
Close(f, c) == [f EXCEPT ![c] = [Unborn EXCEPT !.pc = f[c].pc, !.node = f[c].node]]

(* Handle returns *)
Gone == [Unborn EXCEPT !.pc = "gone"]

Goto(c, step) == [conn EXCEPT ![c].pc = step]

--------------------------------------------------------------------------------
(* Handle: a connection arrives, is put into the map and registered        *)

\* Mutant: the connection found is not kicked.
EvictSilently(c, n) ==
    /\ conn[c].pc = "idle" /\ mode[n] # "down"
    /\ conn' = [conn EXCEPT ![c] = [Unborn EXCEPT !.pc = "storing", !.node = n, !.open = TRUE,
                                                 !.raced = At(n, "storing") # {}]]
    /\ local' = [local EXCEPT ![n] = None]
    /\ UNCHANGED <<mode, route, notices, kicker, beat, faults, stops>>

(* AddConnection, first half: LoadAndDelete, and Kick what was there.  The *)
(* HTTP listener of a draining node may still accept.                      *)
Evict(c, n) ==
    /\ conn[c].pc = "idle"
    /\ mode[n] # "down"
    /\ LET rivals == {d \in At(n, "storing") : conn[d].open}
           mine   == [Unborn EXCEPT !.pc = "storing", !.node = n, !.open = TRUE,
                                    !.raced = At(n, "storing") # {}]
           told   == Kick(conn, local[n])
       IN conn' = [d \in Conn |-> IF d = c THEN mine
                                  ELSE IF d \in rivals THEN [told[d] EXCEPT !.raced = TRUE]
                                  ELSE told[d]]
    /\ local' = [local EXCEPT ![n] = None]
    /\ UNCHANGED <<mode, route, notices, kicker, beat, faults, stops>>

(* AddConnection, second half: Store *)
Store(c) ==
    /\ conn[c].pc = "storing"
    /\ local' = [local EXCEPT ![conn[c].node] = c]
    /\ conn' = [conn EXCEPT ![c].pc = "registering",
                            ![c].late = IF conn[c].open THEN At(conn[c].node, "unregistering")
                                        ELSE {}]
    /\ UNCHANGED <<mode, route, notices, kicker, beat, faults, stops>>

(* registerUserScript takes the route; another node that held it is told *)
RegisterUser(c) ==
    LET n == conn[c].node IN
    /\ conn[c].pc = "registering"
    /\ route' = n
    /\ notices' = IF route \in {None, n} THEN notices ELSE [notices EXCEPT ![route] = TRUE]
    /\ conn' = Goto(c, "serving")
    /\ UNCHANGED <<mode, local, kicker, beat, faults, stops>>

(* Redis fails the registration: RemoveConnection, Close, return *)
RegisterFails(c) ==
    LET n == conn[c].node IN
    /\ conn[c].pc = "registering"
    /\ faults < MaxFaults /\ faults' = faults + 1
    /\ local' = IF local[n] = c THEN [local EXCEPT ![n] = None] ELSE local
    /\ conn' = [conn EXCEPT ![c] = Gone]
    /\ UNCHANGED <<mode, route, notices, kicker, beat, stops>>

--------------------------------------------------------------------------------
(* The end of a connection                                                 *)

(* the client goes away, or misses its pongs *)
ClientLeaves(c) ==
    /\ conn[c].open
    /\ conn' = Close(conn, c)
    /\ UNCHANGED <<mode, local, route, notices, kicker, beat, faults, stops>>

(* the timer Kick has set: Close *)
KickFires(c) ==
    /\ conn[c].kicked /\ conn[c].open
    /\ conn' = Close(conn, c)
    /\ UNCHANGED <<mode, local, route, notices, kicker, beat, faults, stops>>

(* ReadPump returns once the socket is closed *)
ReadPumpEnds(c) ==
    /\ conn[c].pc = "serving" /\ ~conn[c].open
    /\ conn' = Goto(c, "removing")
    /\ UNCHANGED <<mode, local, route, notices, kicker, beat, faults, stops>>

(* RemoveConnection: CompareAndDelete *)
RemoveConnection(c) ==
    LET n == conn[c].node IN
    /\ conn[c].pc = "removing"
    /\ local' = IF local[n] = c THEN [local EXCEPT ![n] = None] ELSE local
    /\ conn' = Goto(c, "looking")
    /\ UNCHANGED <<mode, route, notices, kicker, beat, faults, stops>>

\* Mutant: the route is deleted whatever the map holds.
LookPast(c) ==
    /\ conn[c].pc = "looking"
    /\ conn' = Goto(c, "unregistering")
    /\ UNCHANGED <<mode, local, route, notices, kicker, beat, faults, stops>>

(* GetLocalConnection: is there a newer connection of the user? *)
LookForNewer(c) ==
    /\ conn[c].pc = "looking"
    /\ conn' = IF local[conn[c].node] = None THEN Goto(c, "unregistering")
               ELSE [conn EXCEPT ![c] = Gone]
    /\ UNCHANGED <<mode, local, route, notices, kicker, beat, faults, stops>>

(* unregisterUserScript: delete the route if it still names this node *)
UnregisterUser(c) ==
    /\ conn[c].pc = "unregistering"
    /\ route' = IF route = conn[c].node THEN None ELSE route
    /\ conn' = [conn EXCEPT ![c] = Gone]
    /\ UNCHANGED <<mode, local, notices, kicker, beat, faults, stops>>

--------------------------------------------------------------------------------
(* Kick-off notices of other nodes: core NATS, so a notice may be lost     *)

LoseNotice(n) ==
    /\ notices[n]
    /\ notices' = [notices EXCEPT ![n] = FALSE]
    /\ UNCHANGED <<mode, local, route, kicker, beat, conn, faults, stops>>

(* handleSubscribeMessage asks where the route points now ...              *)
CheckNotice(n) ==
    /\ notices[n] /\ mode[n] = "up" /\ ~kicker[n]
    /\ notices' = [notices EXCEPT ![n] = FALSE]
    /\ kicker' = [kicker EXCEPT ![n] = route # n]
    /\ UNCHANGED <<mode, local, route, beat, conn, faults, stops>>

(* ... and kicks what the map holds by then *)
KickNoticed(n) ==
    /\ kicker[n]
    /\ kicker' = [kicker EXCEPT ![n] = FALSE]
    /\ conn' = Kick(conn, local[n])
    /\ UNCHANGED <<mode, local, route, notices, beat, faults, stops>>

--------------------------------------------------------------------------------
(* The route heartbeat: list the local users, renew each route, kick on    *)
(* conflict.  It runs on while the node drains (its context is cancelled   *)
(* only when Stop returns).                                                *)

ListUsers(n) ==
    /\ beat[n] = "idle" /\ mode[n] # "down" /\ local[n] # None
    /\ beat' = [beat EXCEPT ![n] = "listed"]
    /\ UNCHANGED <<mode, local, route, notices, kicker, conn, faults, stops>>

\* Mutant: a missing route is left missing.
RenewOnly(n) ==
    /\ beat[n] = "listed"
    /\ beat' = [beat EXCEPT ![n] = IF route \in {None, n} THEN "idle" ELSE "conflict"]
    /\ UNCHANGED <<mode, local, route, notices, kicker, conn, faults, stops>>

(* renewUserScript: a missing route is taken, another node's is left alone *)
RenewUserRoute(n) ==
    /\ beat[n] = "listed"
    /\ route' = IF route = None THEN n ELSE route
    /\ beat' = [beat EXCEPT ![n] = IF route' = n THEN "idle" ELSE "conflict"]
    /\ UNCHANGED <<mode, local, notices, kicker, conn, faults, stops>>

(* onRouteConflict *)
KickSuperseded(n) ==
    /\ beat[n] = "conflict"
    /\ beat' = [beat EXCEPT ![n] = "idle"]
    /\ conn' = Kick(conn, local[n])
    /\ UNCHANGED <<mode, local, route, notices, kicker, faults, stops>>

--------------------------------------------------------------------------------
(* Faults and stops                                                        *)

(* the key is evicted, deleted by hand, or lost with a Redis restart *)
LoseRoute ==
    /\ route # None
    /\ faults < MaxFaults /\ faults' = faults + 1
    /\ route' = None
    /\ UNCHANGED <<mode, local, notices, kicker, beat, conn, stops>>

(* GatewayServer.Stop: unsubscribe, then close and forget every connection; *)
(* the goroutines still run their clean-up until the process ends           *)
Drain(n) ==
    /\ mode[n] = "up"
    /\ stops < MaxStops /\ stops' = stops + 1
    /\ mode' = [mode EXCEPT ![n] = "draining"]
    /\ notices' = [notices EXCEPT ![n] = FALSE]
    /\ conn' = IF local[n] = None THEN conn ELSE Close(conn, local[n])
    /\ local' = [local EXCEPT ![n] = None]
    /\ UNCHANGED <<route, kicker, beat, faults>>

(* the process ends, after Stop or by a crash: what it held is gone, the    *)
(* routes that name it stay                                                 *)
ProcessEnds(n) ==
    /\ mode[n] # "down"
    /\ IF mode[n] = "up" THEN stops < MaxStops /\ stops' = stops + 1 ELSE UNCHANGED stops
    /\ mode' = [mode EXCEPT ![n] = "down"]
    /\ local' = [local EXCEPT ![n] = None]
    /\ notices' = [notices EXCEPT ![n] = FALSE]
    /\ kicker' = [kicker EXCEPT ![n] = FALSE]
    /\ beat' = [beat EXCEPT ![n] = "idle"]
    /\ conn' = [c \in Conn |-> IF conn[c].node = n THEN Gone ELSE conn[c]]
    /\ UNCHANGED <<route, faults>>

(* RegisterNode succeeds once the old heartbeat key has expired *)
Restart(n) ==
    /\ mode[n] = "down"
    /\ mode' = [mode EXCEPT ![n] = "up"]
    /\ UNCHANGED <<local, route, notices, kicker, beat, conn, faults, stops>>

--------------------------------------------------------------------------------
Handle(c) == \/ Store(c) \/ RegisterUser(c) \/ KickFires(c) \/ ReadPumpEnds(c)
             \/ RemoveConnection(c) \/ LookForNewer(c) \/ UnregisterUser(c)
Listener(n) == CheckNotice(n) \/ KickNoticed(n)
Heartbeat(n) == ListUsers(n) \/ RenewUserRoute(n) \/ KickSuperseded(n)

Next ==
    \/ \E c \in Conn : Handle(c) \/ RegisterFails(c) \/ ClientLeaves(c)
                       \/ \E n \in Node : Evict(c, n)
    \/ \E n \in Node : \/ Listener(n) \/ Heartbeat(n) \/ LoseNotice(n)
                       \/ Drain(n) \/ ProcessEnds(n) \/ Restart(n)
    \/ LoseRoute

Spec == Init /\ [][Next]_vars

(* Goroutines and timers run, and the heartbeat ticks for ever.  Clients,  *)
(* faults, crashes, stops and notices owe nothing: a notice that is        *)
(* delivered, or a drained node's end, must not be what convergence needs. *)
Fairness ==
    /\ \A c \in Conn : WF_vars(Handle(c))
    /\ \A n \in Node : WF_vars(Heartbeat(n))

FairSpec == Spec /\ Fairness

--------------------------------------------------------------------------------
(* "The node the route names and the node that really holds the connection *)
(* converge" (router.go:44): once clients and faults have quietened down,  *)
(* every connection a node would send to sits on the node the route names, *)
(* whatever notices were lost, routes dropped and nodes restarted on the   *)
(* way.  The heartbeat is what gets it there.                              *)
RoutesConverge == <>[](\A c \in Conn : Seated(c) => route = conn[c].node)

(* AddConnection is a LoadAndDelete followed by a Store.  An open          *)
(* connection that its node no longer knows and that nobody has kicked is  *)
(* one the user hears nothing on, for ever: that happens only to a         *)
(* connection whose AddConnection overlapped another one of its node.      *)
OrphansOnlyByOverlap ==
    \A c \in Conn :
        /\ conn[c].pc \in {"registering", "serving"}
        /\ conn[c].open /\ ~conn[c].kicked
        /\ mode[conn[c].node] = "up"
        /\ local[conn[c].node] # c
        => conn[c].raced

(* A step that leaves the user unrouted although a connection is seated    *)
(* and registered.                                                         *)
Unroutes(c) == /\ Seated(c) /\ route = conn[c].node
               /\ Seated(c)' /\ route' = None

(* Handle's clean-up looks into the map before it unregisters, so that it  *)
(* spares the route a newer connection has registered (websocket.go:86).   *)
(* The look and the unregistering are two steps: the route of a seated     *)
(* connection is deleted only by Redis itself or by a predecessor that had *)
(* already looked when the connection was stored.                          *)
UnroutedOnlyByLateCleanup ==
    [][\A c \in Conn : Unroutes(c) =>
          \/ faults' # faults
          \/ \E d \in conn[c].late : conn[d].pc = "unregistering" /\ conn[d].pc' = "gone"]_vars
================================================================================
