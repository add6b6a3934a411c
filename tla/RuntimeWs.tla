------------------------------ MODULE RuntimeWs ------------------------------
(***************************************************************************)
(* The live view of the runtime: the browser's client                      *)
(* (web/src/services/runtime-ws.ts, driven by hooks/useRuntimeWs.ts) and   *)
(* the gateway it subscribes to (api/src/modules/runtime-ws).              *)
(*                                                                         *)
(* One browser tab opens sockets one after another; an old one may still   *)
(* report while a new one connects, since the handlers set on a socket     *)
(* never ask whether it is the current one.  Each socket carries frames in *)
(* order, both ways, until it is closed or the network drops it.           *)
(* The id the gateway gives a subscription stands for the id of the        *)
(* subscribe frame that made it; 0 stands for "no id".                     *)
(***************************************************************************)
EXTENDS Integers, Sequences, FiniteSets

CONSTANTS
    Listeners, Channels, Types,
    ChannelOf,      \* the channel a hook listens to
    TypesOf,        \* the event types it asks for (all, when it names none)
    Authorized,     \* the channels canSubscribeToChannel grants
    MaxSockets,     \* bound: sockets opened in one behaviour
    MaxFrames,      \* bound: subscribe frames sent in one behaviour
    MaxAttempts,    \* ReconnectConfig.maxAttempts
    MaxConnections, \* maxConnectionsPerTenant
    MaxSubs,        \* maxSubscriptionsPerConnection
    MaxMissed       \* maxMissedHeartbeats

ASSUME RuntimeWsAssumption ==
    /\ IsFiniteSet(Listeners) /\ IsFiniteSet(Channels)
    /\ ChannelOf \in [Listeners -> Channels]
    /\ TypesOf \in [Listeners -> SUBSET Types]
    /\ Authorized \subseteq Channels
    /\ {MaxSockets, MaxFrames, MaxAttempts, MaxConnections, MaxSubs,
        MaxMissed} \subseteq Nat \ {0}

VARIABLES
    \* the browser
    state, sock,   \* WsConnectionState; this.socket (0: null)
    sub,           \* channel -> the Subscription its listeners share
    mounted,       \* the listeners subscribed now
    attempts,      \* reconnectAttempts
    timers,        \* reconnect timeouts not fired yet
    beats,         \* heartbeat intervals alive; has the client one's handle?
    ponged,        \* lastPongAt > 0
    cs,            \* each socket as the browser sees it
    retried,       \* the connecting sockets a reconnect timeout opened
    heard,         \* times each listener was called with the event
    \* the wire
    c2s, s2c, up,  \* frames under way; the sockets that still carry frames
    \* the gateway
    registered, missed, held,
    subscriptions, \* SubscriptionManager.subscriptions
    refused,       \* subscribe frames answered with an error
    nextId, event  \* next subscribe frame; the event broadcast, its receivers

client == <<state, sock, sub, mounted, attempts, timers, beats, ponged, cs, retried>>
wire == <<c2s, s2c, up>>
gateway == <<registered, missed, held, subscriptions, refused>>
vars == <<client, heard, wire, gateway, nextId, event>>

Sockets == 1..MaxSockets
Blank == [types |-> {}, pending |-> 0, serverId |-> 0]
NoEvent == [channel |-> "none", type |-> "none", copies |-> 0]

Close(code) == [type |-> "close", code |-> code]
Ping == [type |-> "ping"]
Pong == [type |-> "pong"]
Opened == [type |-> "open"]

Live(M) == {ChannelOf[l] : l \in M}   \* channels with a subscription

Init ==
    /\ state = "disconnected" /\ sock = 0
    /\ sub = [c \in Channels |-> Blank] /\ mounted = {}
    /\ attempts = 0 /\ timers = 0 /\ ponged = FALSE
    /\ beats = [live |-> 0, handle |-> FALSE]
    /\ cs = [s \in Sockets |-> "unused"] /\ retried = {}
    /\ heard = [l \in Listeners |-> 0]
    /\ c2s = [s \in Sockets |-> <<>>] /\ s2c = [s \in Sockets |-> <<>>] /\ up = {}
    /\ registered = {} /\ missed = [s \in Sockets |-> 0]
    /\ held = [s \in Sockets |-> {}]
    /\ subscriptions = {} /\ refused = {}
    /\ nextId = 1 /\ event = NoEvent

-----------------------------------------------------------------------------
(* The browser's client *)

\* send(): dropped, with a warning, when this.socket is not open.
Sent(frames) ==
    IF sock \in up /\ cs[sock] = "open"
    THEN [c2s EXCEPT ![sock] = @ \o frames] ELSE c2s

SubscribeFrame(id, c, types) ==
    [type |-> "subscribe", id |-> id, channel |-> c, types |-> types]

\* connect(): `new WebSocket`, and it becomes this.socket.
OpenSocket(byTimer) ==
    \E s \in Sockets :
        /\ cs[s] = "unused" /\ \A r \in 1..(s - 1) : cs[r] # "unused"
        /\ cs' = [cs EXCEPT ![s] = "connecting"]
        /\ sock' = s /\ state' = "connecting"
        /\ retried' = IF byTimer THEN retried \cup {s} ELSE retried

\* The effect of useRuntimeWs: whenever the state is "disconnected", connect.
AutoConnect ==
    /\ state = "disconnected"
    /\ OpenSocket(FALSE)
    /\ UNCHANGED <<sub, mounted, attempts, timers, beats, ponged, heard, wire,
                   gateway, nextId, event>>

\* A reconnect timeout; connect() returns at once if connected or connecting.
TimerFires ==
    /\ timers > 0
    /\ timers' = timers - 1
    /\ attempts' = IF attempts < MaxAttempts THEN attempts + 1 ELSE attempts
    /\ IF state \in {"connected", "connecting"}
       THEN UNCHANGED <<state, sock, cs, retried>>
       ELSE OpenSocket(TRUE)
    /\ UNCHANGED <<sub, mounted, beats, ponged, heard, wire, gateway, nextId, event>>

\* mutant: resubscribeAll keeps the ids of the last connection
OnOpenKeepingIds(s) ==
    LET live == Live(mounted)
        n == Cardinality(live)
    IN
    /\ cs[s] = "connecting" /\ s2c[s] # <<>> /\ Head(s2c[s]) = Opened
    /\ nextId + n <= MaxFrames + 1
    /\ s2c' = [s2c EXCEPT ![s] = Tail(@)]
    /\ cs' = [cs EXCEPT ![s] = "open"] /\ retried' = retried \ {s}
    /\ state' = "connected" /\ attempts' = 0
    /\ beats' = [live |-> beats.live + 1, handle |-> TRUE]
    /\ \E order \in [1..n -> live] :
        /\ \A c \in live : \E i \in 1..n : order[i] = c
        /\ sub' = [c \in Channels |->
                     IF c \in live
                     THEN [sub[c] EXCEPT !.pending = nextId - 1 + CHOOSE i \in 1..n : order[i] = c]
                     ELSE Blank]
        /\ LET frames == [i \in 1..n |->
                            SubscribeFrame(nextId + i - 1, order[i], sub[order[i]].types)]
           IN c2s' = IF sock \in up /\ (sock = s \/ cs[sock] = "open")
                     THEN [c2s EXCEPT ![sock] = @ \o frames] ELSE c2s
    /\ nextId' = nextId + n
    /\ UNCHANGED <<sock, mounted, timers, ponged, heard, up, gateway, event>>

\* mutant: the client does not subscribe again when a socket opens
OnOpenWithoutResubscribe(s) ==
    /\ cs[s] = "connecting" /\ s2c[s] # <<>> /\ Head(s2c[s]) = Opened
    /\ s2c' = [s2c EXCEPT ![s] = Tail(@)]
    /\ cs' = [cs EXCEPT ![s] = "open"] /\ retried' = retried \ {s}
    /\ state' = "connected" /\ attempts' = 0
    /\ beats' = [live |-> beats.live + 1, handle |-> TRUE]
    /\ UNCHANGED <<sock, sub, mounted, timers, ponged, heard, c2s, up, gateway,
                   nextId, event>>

\* onopen: startHeartbeat forgets the handle it had; resubscribeAll clears the
\* ids of the last connection and subscribes again, in the order of the map.
OnOpen(s) ==
    LET live == Live(mounted)
        n == Cardinality(live)
    IN
    /\ cs[s] = "connecting" /\ s2c[s] # <<>> /\ Head(s2c[s]) = Opened
    /\ nextId + n <= MaxFrames + 1
    /\ s2c' = [s2c EXCEPT ![s] = Tail(@)]
    /\ cs' = [cs EXCEPT ![s] = "open"] /\ retried' = retried \ {s}
    /\ state' = "connected" /\ attempts' = 0
    /\ beats' = [live |-> beats.live + 1, handle |-> TRUE]
    /\ \E order \in [1..n -> live] :
        /\ \A c \in live : \E i \in 1..n : order[i] = c
        /\ sub' = [c \in Channels |->
                     IF c \in live
                     THEN [sub[c] EXCEPT !.serverId = 0,
                             !.pending = nextId - 1 + CHOOSE i \in 1..n : order[i] = c]
                     ELSE Blank]
        /\ LET frames == [i \in 1..n |->
                            SubscribeFrame(nextId + i - 1, order[i], sub[order[i]].types)]
           IN c2s' = IF sock \in up /\ (sock = s \/ cs[sock] = "open")
                     THEN [c2s EXCEPT ![sock] = @ \o frames] ELSE c2s
    /\ nextId' = nextId + n
    /\ UNCHANGED <<sock, mounted, timers, ponged, heard, up, gateway, event>>

\* mutant: a close is handled only while the client is connected or connecting
OnCloseUnlessDegraded(s) ==
    LET left == state # "degraded" IN
    /\ cs[s] \in {"connecting", "open", "closing"}
    /\ s2c[s] # <<>> /\ Head(s2c[s]).type = "close"
    /\ s2c' = [s2c EXCEPT ![s] = <<>>]
    /\ cs' = [cs EXCEPT ![s] = "closed"] /\ retried' = retried \ {s}
    /\ beats' = [live |-> beats.live - (IF beats.handle THEN 1 ELSE 0), handle |-> FALSE]
    /\ state' = IF left THEN "reconnecting" ELSE state
    /\ timers' = IF left THEN timers + 1 ELSE timers
    /\ UNCHANGED <<sock, sub, mounted, attempts, ponged, heard, c2s, up,
                   gateway, nextId, event>>

\* onclose, after onerror if the socket never opened: onerror rejects the
\* connect() of a timeout, whose catch is one more attemptReconnect.
OnClose(s) ==
    LET failed == cs[s] = "connecting" /\ state = "connecting" /\ s \in retried
    IN
    /\ cs[s] \in {"connecting", "open", "closing"}
    /\ s2c[s] # <<>> /\ Head(s2c[s]).type = "close"
    /\ s2c' = [s2c EXCEPT ![s] = <<>>]
    /\ cs' = [cs EXCEPT ![s] = "closed"] /\ retried' = retried \ {s}
    /\ beats' = [live |-> beats.live - (IF beats.handle THEN 1 ELSE 0), handle |-> FALSE]
    /\ IF Head(s2c[s]).code = "normal"
       THEN state' = "disconnected" /\ timers' = timers
       ELSE IF attempts >= MaxAttempts
       THEN state' = "disconnected" /\ timers' = timers
       ELSE state' = "reconnecting" /\ timers' = timers + IF failed THEN 2 ELSE 1
    /\ UNCHANGED <<sock, sub, mounted, attempts, ponged, heard, c2s, up,
                   gateway, nextId, event>>

\* disconnect(): clears the last timeout; a socket closed before it opened
\* reports an abnormal close.
Disconnect ==
    /\ sock # 0 /\ cs[sock] \in {"connecting", "open"}
    /\ beats' = [live |-> beats.live - (IF beats.handle THEN 1 ELSE 0), handle |-> FALSE]
    /\ timers' = IF timers = 0 THEN 0 ELSE timers - 1
    /\ cs' = [cs EXCEPT ![sock] = "closing"]
    /\ c2s' = [c2s EXCEPT ![sock] =
                 IF sock \in up THEN Append(@, Close("normal")) ELSE @]
    /\ s2c' = [s2c EXCEPT ![sock] =
                 <<Close(IF cs[sock] = "open" THEN "normal" ELSE "abnormal")>>]
    /\ up' = up \ {sock}
    /\ sock' = 0 /\ state' = "disconnected"
    /\ UNCHANGED <<sub, mounted, attempts, ponged, retried, heard, gateway, nextId, event>>

\* A hook's effect, once connected: subscribe() makes a subscription for the
\* first listener of a channel; a later one shares it, its types with it.
Mount(l) ==
    LET c == ChannelOf[l] IN
    /\ state = "connected" /\ l \notin mounted
    /\ mounted' = mounted \cup {l}
    /\ IF c \in Live(mounted)
       THEN UNCHANGED <<sub, c2s, nextId>>
       ELSE /\ nextId <= MaxFrames
            /\ sub' = [sub EXCEPT ![c] =
                         [types |-> TypesOf[l], pending |-> nextId, serverId |-> 0]]
            /\ c2s' = Sent(<<SubscribeFrame(nextId, c, TypesOf[l])>>)
            /\ nextId' = nextId + 1
    /\ UNCHANGED <<state, sock, attempts, timers, beats, ponged, cs, retried, heard,
                   s2c, up, gateway, event>>

\* The effect's cleanup: unsubscribe(), by the server's id if it is known.
Unmount(l) ==
    LET c == ChannelOf[l] IN
    /\ l \in mounted
    /\ mounted' = mounted \ {l}
    /\ IF c \in Live(mounted')
       THEN UNCHANGED <<sub, c2s>>
       ELSE /\ sub' = [sub EXCEPT ![c] = Blank]
            /\ c2s' = Sent(<<[type |-> "unsubscribe", id |-> sub[c].serverId]>>)
    /\ UNCHANGED <<state, sock, attempts, timers, beats, ponged, cs, retried, heard,
                   s2c, up, gateway, nextId, event>>

\* The heartbeat interval: degraded if the last pong is too old, then a ping.
Tick ==
    /\ beats.live > 0 /\ state = "connected"
    /\ sock # 0 /\ Ping \notin {c2s[sock][i] : i \in DOMAIN c2s[sock]}
    /\ Pong \notin {s2c[sock][i] : i \in DOMAIN s2c[sock]}  \* bound: one ping
    /\ state' \in {"connected"} \cup (IF ponged THEN {"degraded"} ELSE {})
    /\ c2s' = Sent(<<Ping>>)
    /\ UNCHANGED <<sock, sub, mounted, attempts, timers, beats, ponged, cs, retried,
                   heard, s2c, up, gateway, nextId, event>>

\* handleMessage: an ack names the frame it answers; an error changes nothing;
\* an event has no channel, so every subscription that wants its type gets it.
Receive(s) ==
    LET f == Head(s2c[s]) IN
    /\ cs[s] = "open" /\ s2c[s] # <<>> /\ f.type \in {"ack", "error", "pong", "event"}
    /\ s2c' = [s2c EXCEPT ![s] = Tail(@)]
    /\ \/ /\ f.type = "ack"
          /\ sub' = [c \in Channels |->
                       IF c \in Live(mounted) /\ sub[c].pending = f.id
                       THEN [sub[c] EXCEPT !.serverId = f.id, !.pending = 0] ELSE sub[c]]
          /\ UNCHANGED <<state, ponged, heard>>
       \/ f.type = "error" /\ UNCHANGED <<sub, state, ponged, heard>>
       \/ /\ f.type = "pong" /\ ponged' = TRUE
          /\ state' = IF state = "degraded" THEN "connected" ELSE state
          /\ UNCHANGED <<sub, heard>>
       \/ /\ f.type = "event"
          /\ heard' = [l \in Listeners |->
                         IF l \in mounted /\ event.type \in sub[ChannelOf[l]].types
                         THEN heard[l] + 1 ELSE heard[l]]
          /\ UNCHANGED <<sub, state, ponged>>
    /\ UNCHANGED <<sock, mounted, attempts, timers, beats, cs, retried, c2s, up, gateway,
                   nextId, event>>

-----------------------------------------------------------------------------
(* The gateway *)

Reply(s, frame) == IF s \in up THEN [s2c EXCEPT ![s] = Append(@, frame)] ELSE s2c

\* handleConnection: a bad token or a tenant at its limit is let in and closed.
Accept(s) ==
    /\ cs[s] = "connecting" /\ s2c[s] = <<>> /\ s \notin up
    /\ \/ /\ Cardinality(registered) < MaxConnections
          /\ registered' = registered \cup {s} /\ up' = up \cup {s}
          /\ s2c' = [s2c EXCEPT ![s] = <<Opened>>]
       \/ /\ s2c' = [s2c EXCEPT ![s] = <<Opened, Close("abnormal")>>]
          /\ UNCHANGED <<registered, up>>
    /\ UNCHANGED <<client, heard, c2s, missed, held, subscriptions, refused, nextId,
                   event>>

\* mutant: the manager forgets the client but keeps its subscriptions
UnregisterKeepingSubscriptions(s) ==
    /\ registered' = registered \ {s}
    /\ held' = [held EXCEPT ![s] = {}]
    /\ missed' = [missed EXCEPT ![s] = 0]
    /\ UNCHANGED subscriptions

\* unregisterClient: every subscription of the client goes with it.
Unregister(s) ==
    /\ registered' = registered \ {s}
    /\ subscriptions' = {b \in subscriptions : b.id \notin held[s]}
    /\ held' = [held EXCEPT ![s] = {}]
    /\ missed' = [missed EXCEPT ![s] = 0]

\* addSubscription: refused for its channel, at the connection's limit, or by
\* the rate limit, which any connection may have spent (30 in a minute).
Subscribe(s, f) ==
    /\ \/ /\ s \notin registered
          /\ UNCHANGED <<subscriptions, held, refused, s2c>>
       \/ /\ s \in registered
          /\ f.channel \in Authorized /\ Cardinality(held[s]) < MaxSubs
          /\ subscriptions' = subscriptions \cup
                {[id |-> f.id, channel |-> f.channel, types |-> f.types]}
          /\ held' = [held EXCEPT ![s] = @ \cup {f.id}]
          /\ s2c' = Reply(s, [type |-> "ack", id |-> f.id])
          /\ UNCHANGED refused
       \/ /\ s \in registered
          /\ refused' = refused \cup {f.id}
          /\ s2c' = Reply(s, [type |-> "error", id |-> f.id])
          /\ UNCHANGED <<subscriptions, held>>
    /\ UNCHANGED <<registered, missed>>

\* removeSubscription: the first client found holding the id loses it.
Unsubscribe(f) ==
    /\ subscriptions' = {b \in subscriptions : b.id # f.id}
    /\ held' = [s \in Sockets |-> held[s] \ {f.id}]
    /\ UNCHANGED <<registered, missed, refused, s2c>>

\* handleMessage, and the socket's close event
Serve(s) ==
    LET f == Head(c2s[s]) IN
    /\ c2s[s] # <<>>
    /\ c2s' = [c2s EXCEPT ![s] = Tail(@)]
    /\ \/ f.type = "subscribe" /\ Subscribe(s, f)
       \/ f.type = "unsubscribe" /\ Unsubscribe(f)
       \/ /\ f.type = "ping"
          /\ missed' = [missed EXCEPT ![s] = 0]
          /\ s2c' = Reply(s, Pong)
          /\ UNCHANGED <<registered, held, subscriptions, refused>>
       \/ /\ f.type = "close" /\ Unregister(s)
          /\ UNCHANGED <<refused, s2c>>
    /\ UNCHANGED <<client, heard, up, nextId, event>>

\* mutant: the checker counts the silence of a client and never closes it
HeartbeatCheckCounting(s) ==
    /\ s \in registered
    /\ missed' = [missed EXCEPT ![s] = @ + 1]
    /\ UNCHANGED <<client, heard, wire, registered, subscriptions, held, refused,
                   nextId, event>>

\* The interval of startHeartbeatChecker finds the client silent.
HeartbeatCheck(s) ==
    /\ s \in registered
    /\ IF missed[s] + 1 < MaxMissed
       THEN /\ missed' = [missed EXCEPT ![s] = @ + 1]
            /\ UNCHANGED <<registered, subscriptions, held, s2c, up>>
       ELSE /\ Unregister(s)
            /\ s2c' = Reply(s, Close("abnormal")) /\ up' = up \ {s}
    /\ UNCHANGED <<client, heard, c2s, refused, nextId, event>>

\* mutant: one frame for each subscription, not for each client
BroadcastPerSubscription(c, t) ==
    LET wanted(s) == {b.id : b \in {x \in subscriptions : x.channel = c /\ t \in x.types}}
                       \cap held[s]
        targets == {s \in registered \cap up : wanted(s) # {}}
    IN
    /\ event = NoEvent
    /\ event' = [channel |-> c, type |-> t, copies |-> Cardinality(targets)]
    /\ s2c' = [s \in Sockets |->
                 IF s \in targets
                 THEN s2c[s] \o [i \in 1..Cardinality(wanted(s)) |-> [type |-> "event"]]
                 ELSE s2c[s]]
    /\ UNCHANGED <<client, heard, c2s, up, gateway, nextId>>

\* getTargetClients, and send(): the clients with a subscription that wants the
\* event, once each, whose socket is open.
Targets(c, t) ==
    {s \in registered \cap up :
        \E b \in subscriptions : b.channel = c /\ t \in b.types /\ b.id \in held[s]}

Broadcast(c, t) ==
    /\ event = NoEvent   \* bound: one event
    /\ event' = [channel |-> c, type |-> t, copies |-> Cardinality(Targets(c, t))]
    /\ s2c' = [s \in Sockets |->
                 IF s \in Targets(c, t) THEN Append(s2c[s], [type |-> "event"])
                 ELSE s2c[s]]
    /\ UNCHANGED <<client, heard, c2s, up, gateway, nextId>>

-----------------------------------------------------------------------------
(* The network *)

ConnectFails(s) ==
    /\ cs[s] = "connecting" /\ s2c[s] = <<>> /\ s \notin up
    /\ s2c' = [s2c EXCEPT ![s] = <<Close("abnormal")>>]
    /\ UNCHANGED <<client, heard, c2s, up, gateway, nextId, event>>

\* The frames under way are lost; each end learns of it in its own time.
Drop(s) ==
    /\ s \in up
    /\ up' = up \ {s}
    /\ c2s' = [c2s EXCEPT ![s] = <<Close("abnormal")>>]
    /\ s2c' = [s2c EXCEPT ![s] = <<Close("abnormal")>>]
    /\ UNCHANGED <<client, heard, gateway, nextId, event>>

-----------------------------------------------------------------------------
Browser ==
    \/ AutoConnect \/ TimerFires \/ Disconnect \/ Tick
    \/ \E s \in Sockets : OnOpen(s) \/ OnClose(s) \/ Receive(s)
    \/ \E l \in Listeners : Mount(l) \/ Unmount(l)

Gateway ==
    \/ \E s \in Sockets : Accept(s) \/ Serve(s) \/ HeartbeatCheck(s)
    \/ \E c \in Channels, t \in Types : Broadcast(c, t)

Next == Browser \/ Gateway \/ \E s \in Sockets : ConnectFails(s) \/ Drop(s)

Spec == Init /\ [][Next]_vars

\* The event loops, the timers and the socket close handshake go on, and the
\* checker finds a client silent that sends no more; nothing is promised of
\* the user, of the network or of the gateway's events.
Fairness ==
    /\ WF_vars(AutoConnect) /\ WF_vars(TimerFires) /\ WF_vars(Tick)
    /\ \A s \in Sockets :
        /\ WF_vars(OnOpen(s)) /\ WF_vars(OnClose(s)) /\ WF_vars(Receive(s))
        /\ WF_vars(Accept(s)) /\ WF_vars(Serve(s)) /\ WF_vars(c2s[s] = <<>> /\ HeartbeatCheck(s))

FairSpec == Spec /\ Fairness

-----------------------------------------------------------------------------
(* Properties *)

\* Every variable has its type.
TypeOK ==
    /\ state \in {"connecting", "connected", "reconnecting", "disconnected", "degraded"}
    /\ sock \in {0} \cup Sockets /\ mounted \subseteq Listeners
    /\ sub \in [Channels -> [types : SUBSET Types, pending : Nat, serverId : Nat]]
    /\ attempts \in Nat /\ timers \in Nat /\ ponged \in BOOLEAN
    /\ beats \in [live : Nat, handle : BOOLEAN]
    /\ cs \in [Sockets -> {"unused", "connecting", "open", "closing", "closed"}]
    /\ retried \subseteq Sockets /\ up \subseteq Sockets /\ registered \subseteq Sockets
    /\ heard \in [Listeners -> Nat] /\ nextId \in Nat
    /\ missed \in [Sockets -> 0..MaxMissed]
    /\ held \in [Sockets -> SUBSET (1..MaxFrames)] /\ refused \subseteq 1..MaxFrames
    /\ subscriptions \subseteq [id : 1..MaxFrames, channel : Channels, types : SUBSET Types]

\* The gateway's two records of its subscriptions agree whatever the order of
\* closes, timeouts and late frames: nothing outlives the client that held it
\* (unregisterClient, removeSubscription), and no id belongs to two clients.
NoOrphanSubscription ==
    /\ {b.id : b \in subscriptions} = UNION {held[s] : s \in registered}
    /\ \A s \in Sockets \ registered : held[s] = {}
    /\ \A s, r \in Sockets : s # r => held[s] \cap held[r] = {}

\* Connected, the id the browser keeps of a subscription is one the gateway
\* holds for this.socket and this channel, not the id of an earlier connection
\* or a late ack of one: unsubscribe() then names the right one (P5.3).
ServerIdIsCurrent ==
    \A c \in Live(mounted) :
        state \in {"connected", "degraded"} /\ sub[c].serverId # 0 /\ sock \in registered =>
            \E b \in subscriptions :
                b.id = sub[c].serverId /\ b.channel = c /\ b.id \in held[sock]

\* However many subscriptions a client has left behind at the gateway, a
\* listener is called at most once for each socket the event was sent on.
HeardOncePerSocket == \A l \in Listeners : heard[l] <= event.copies

Answered(l) ==
    \/ \E b \in subscriptions : b.channel = ChannelOf[l] /\ b.id \in held[sock]
    \/ sub[ChannelOf[l]].pending \in refused

\* A hook that stays mounted on a client that stays connected is subscribed at
\* the gateway, or was refused there: no reconnect, stale close or lost frame
\* leaves it connected and unheard for good.
MountedIsAnswered ==
    \A l \in Listeners :
        <>[](state = "connected" /\ l \in mounted) =>
            <>[](sock # 0 /\ Answered(l))

\* A degraded client sends no more pings, yet does not stay degraded: a late
\* pong or the gateway's timeout ends it.
DegradedEnds == (state = "degraded") ~> (state # "degraded")

==============================================================================
