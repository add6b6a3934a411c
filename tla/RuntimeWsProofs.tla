---------------------------- MODULE RuntimeWsProofs ----------------------------
(***************************************************************************)
(* Safety of the live view for any hooks, channels, types and bounds.  The *)
(* argument is about the ids of subscribe frames: where one may be while   *)
(* it waits for its answer (the wire to the gateway, the gateway, the wire *)
(* back) and what the browser takes it for when the answer comes.          *)
(***************************************************************************)
EXTENDS RuntimeWs, FiniteSetTheorems, SequenceTheorems, TLAPS

\* The frames of each direction.
SubscribeFrames ==
    [type : {"subscribe"}, id : 1..MaxFrames, channel : Channels, types : SUBSET Types]
UnsubscribeFrames == [type : {"unsubscribe"}, id : 0..MaxFrames]
Closes == {Close("normal"), Close("abnormal")}
Answers == [type : {"ack", "error"}, id : 1..MaxFrames]
EventFrame == [type |-> "event"]

FromBrowser == SubscribeFrames \cup UnsubscribeFrames \cup {Ping} \cup Closes
ToBrowser == Answers \cup {Opened, Pong, EventFrame} \cup Closes

\* What TypeOK does not say: the frames, the bounds of ids, and that the handle
\* is that of an interval alive.
WireType ==
    /\ c2s \in [Sockets -> Seq(FromBrowser)]
    /\ s2c \in [Sockets -> Seq(ToBrowser)]
    /\ nextId \in 1..(MaxFrames + 1)
    /\ beats.handle => beats.live >= 1
    /\ event.copies \in Nat

Ids(c) == {sub[c].pending, sub[c].serverId} \ {0}

\* The positions of frames of a type.
Requests(s, t) == {i \in DOMAIN c2s[s] : c2s[s][i].type = t}
Replies(s, t) == {i \in DOMAIN s2c[s] : s2c[s][i].type = t}

\* Ids are given out in order, and belong to one channel.
IdInv ==
    /\ \A c \in Channels : \A k \in Ids(c) : k < nextId
    /\ \A c, d \in Channels : c # d => Ids(c) \cap Ids(d) = {}
    /\ \A s \in Sockets : \A k \in held[s] : k < nextId
    /\ \A s \in Sockets : \A i \in Requests(s, "subscribe") \cup Requests(s, "unsubscribe") :
        c2s[s][i].id < nextId
    /\ \A s \in Sockets : \A i \in Replies(s, "ack") : s2c[s][i].id < nextId

\* An id is sent once, is not held before it arrives, and is that of the channel
\* that waits for it; no unsubscribe frame names an id still in use.
RequestInv ==
    /\ \A s, r \in Sockets : \A i \in Requests(s, "subscribe"), k \in Requests(r, "subscribe") :
        c2s[s][i].id = c2s[r][k].id => s = r /\ i = k
    /\ \A s, r \in Sockets : \A i \in Requests(s, "subscribe") : c2s[s][i].id \notin held[r]
    /\ \A s \in Sockets, c \in Channels : \A i \in Requests(s, "subscribe") :
        c2s[s][i].id = sub[c].pending => c2s[s][i].channel = c
    /\ \A s \in Sockets, c \in Channels : \A i \in Requests(s, "unsubscribe") :
        c2s[s][i].id \notin Ids(c)

\* The gateway has subscription k of channel c for socket s.
Has(s, k, c) == k \in held[s] /\ \E b \in subscriptions : b.id = k /\ b.channel = c

\* An ack that is waited for is true, while the gateway keeps the socket.
AckInv ==
    \A s \in registered, c \in Channels : \A i \in Replies(s, "ack") :
        s2c[s][i].id = sub[c].pending => Has(s, sub[c].pending, c)

Connected == state \in {"connected", "degraded"}

\* this.socket has been open, and while the gateway keeps it so does the id.
Confirmed(k, c) ==
    /\ sock \in Sockets /\ cs[sock] \notin {"unused", "connecting"}
    /\ sock \in registered => Has(sock, k, c)

\* Connected, what is waited for comes by this.socket, and an id that is known
\* came by it.
CurrentInv ==
    Connected =>
        /\ \A s \in Sockets, c \in Channels : \A i \in Requests(s, "subscribe") :
            c2s[s][i].id = sub[c].pending => s = sock
        /\ \A s \in Sockets, c \in Channels : \A i \in Replies(s, "ack") :
            s2c[s][i].id = sub[c].pending => s = sock
        /\ \A c \in Channels : sub[c].serverId # 0 => Confirmed(sub[c].serverId, c)

\* Every event frame under way is still to be heard, and sockets carry one each.
Carrying == {s \in Sockets : Replies(s, "event") # {}}

HeardInv ==
    /\ \A s \in Sockets : \A i, k \in Replies(s, "event") : i = k
    /\ Cardinality(Carrying) <= event.copies
    /\ \A l \in Listeners : heard[l] + Cardinality(Carrying) <= event.copies

IInv ==
    /\ TypeOK /\ WireType
    /\ IdInv /\ RequestInv
    /\ NoOrphanSubscription /\ AckInv
    /\ CurrentInv
    /\ HeardInv

-----------------------------------------------------------------------------
(* Frames under way *)

\* The frames of p with a type in T were in q, in the same order: those of q
\* after the first one, or all of them.
Shown(p, q, T) ==
    \E k \in {0, 1} : \A i \in DOMAIN p :
        p[i].type \in T => i + k \in DOMAIN q /\ q[i + k] = p[i]

LEMMA SeqFacts ==
    ASSUME NEW S, NEW q \in Seq(S)
    PROVE  Len(q) \in Nat /\ DOMAIN q = 1..Len(q) /\ \A i \in DOMAIN q : q[i] \in S
BY LenProperties, ElementOfSeq

LEMMA ShownItself == ASSUME NEW S, NEW q \in Seq(S), NEW T PROVE Shown(q, q, T)
BY SeqFacts DEF Shown

\* The first frame is taken.
LEMMA TailFacts ==
    ASSUME NEW S, NEW q \in Seq(S), q # <<>>
    PROVE  /\ 1 \in DOMAIN q /\ Head(q) = q[1] /\ q[1] \in S /\ Tail(q) \in Seq(S)
           /\ \A i \in DOMAIN Tail(q) :
                i \in Nat /\ i >= 1 /\ i + 1 \in DOMAIN q /\ Tail(q)[i] = q[i + 1]
<1>1. Len(q) \in Nat \ {0} /\ DOMAIN q = 1..Len(q)
  BY LenProperties, EmptySeq
<1>2. /\ Head(q) = q[1] /\ Tail(q) \in Seq(S) /\ DOMAIN Tail(q) = 1..(Len(q) - 1)
      /\ \A i \in 1..(Len(q) - 1) : Tail(q)[i] = q[i + 1]
  BY <1>1, HeadTailProperties, LenProperties
<1> QED
  BY <1>1, <1>2, ElementOfSeq

LEMMA ShownTail ==
    ASSUME NEW S, NEW q \in Seq(S), q # <<>>, NEW T
    PROVE  Shown(Tail(q), q, T)
BY TailFacts DEF Shown

\* Frames are added at the end.
LEMMA ConcatFacts ==
    ASSUME NEW S, NEW q \in Seq(S), NEW g \in Seq(S)
    PROVE  /\ q \o g \in Seq(S)
           /\ \A i \in DOMAIN q : (q \o g)[i] = q[i] /\ i \in DOMAIN (q \o g)
           /\ \A i \in DOMAIN (q \o g) :
                \/ i \in DOMAIN q /\ (q \o g)[i] = q[i]
                \/ /\ i \notin DOMAIN q /\ i - Len(q) \in DOMAIN g
                   /\ (q \o g)[i] = g[i - Len(q)]
<1>1. /\ q \o g \in Seq(S) /\ Len(q \o g) = Len(q) + Len(g)
      /\ \A i \in 1..(Len(q) + Len(g)) :
           (q \o g)[i] = IF i <= Len(q) THEN q[i] ELSE g[i - Len(q)]
  BY ConcatProperties
<1>2. /\ Len(q) \in Nat /\ Len(g) \in Nat /\ DOMAIN q = 1..Len(q) /\ DOMAIN g = 1..Len(g)
      /\ DOMAIN (q \o g) = 1..(Len(q) + Len(g))
  BY <1>1, LenProperties
<1> QED
  BY <1>1, <1>2

LEMMA AppendFacts ==
    ASSUME NEW S, NEW q \in Seq(S), NEW e \in S
    PROVE  /\ Append(q, e) \in Seq(S)
           /\ \A i \in DOMAIN q : i \in DOMAIN Append(q, e) /\ Append(q, e)[i] = q[i]
           /\ \A i \in DOMAIN Append(q, e) :
                (i \in DOMAIN q /\ Append(q, e)[i] = q[i])
                \/ (i = Len(q) + 1 /\ i \notin DOMAIN q /\ Append(q, e)[i] = e)
<1>1. /\ Append(q, e) \in Seq(S) /\ Len(Append(q, e)) = Len(q) + 1
      /\ \A i \in 1..Len(q) : Append(q, e)[i] = q[i]
      /\ Append(q, e)[Len(q) + 1] = e
  BY AppendProperties
<1>2. Len(q) \in Nat /\ DOMAIN q = 1..Len(q) /\ DOMAIN Append(q, e) = 1..(Len(q) + 1)
  BY <1>1, LenProperties
<1> QED
  BY <1>1, <1>2

LEMMA ShownAppend ==
    ASSUME NEW S, NEW q \in Seq(S), NEW e \in S, NEW T, e.type \notin T
    PROVE  Shown(Append(q, e), q, T)
<1>1. \A i \in DOMAIN Append(q, e) : Append(q, e)[i].type \in T =>
        i + 0 \in DOMAIN q /\ q[i + 0] = Append(q, e)[i]
  BY AppendFacts, SeqFacts
<1> QED
  BY <1>1 DEF Shown

LEMMA ShownAlone ==
    ASSUME NEW e, NEW q, NEW T, e.type \notin T
    PROVE  Shown(<<e>>, q, T) /\ Shown(<<>>, q, T)
BY DEF Shown

-----------------------------------------------------------------------------
(* Steps that put no request, answer or event on the wire *)

QuietUp == \A s \in Sockets : Shown(c2s'[s], c2s[s], {"subscribe", "unsubscribe"})
QuietDown == \A s \in Sockets : Shown(s2c'[s], s2c[s], {"ack"})
QuietEvents == \A s \in Sockets : Shown(s2c'[s], s2c[s], {"event"})

\* The browser forgets ids, or takes the one it waits for as that of the gateway.
NoNewIds ==
    /\ nextId' = nextId
    /\ \A c \in Channels : /\ sub'[c].pending \in {0, sub[c].pending}
                          /\ sub'[c].serverId \in {0, sub[c].pending, sub[c].serverId}

\* The gateway keeps its subscriptions for the ids in use.
KeepsHeld ==
    \A s \in registered', c \in Channels, k \in Nat :
        Has(s, k, c) /\ (\E d \in Channels : k \in Ids(d)) => Has(s, k, c)'

LEMMA FrameFacts ==
    ASSUME TypeOK, WireType, NEW s \in Sockets
    PROVE  /\ DOMAIN c2s[s] \subseteq Nat \ {0} /\ DOMAIN s2c[s] \subseteq Nat \ {0}
           /\ \A i \in DOMAIN c2s[s] : c2s[s][i] \in FromBrowser
           /\ \A i \in DOMAIN s2c[s] : s2c[s][i] \in ToBrowser
<1>1. c2s[s] \in Seq(FromBrowser) /\ s2c[s] \in Seq(ToBrowser)
  BY DEF WireType
<1> QED
  BY <1>1, SeqFacts

LEMMA FrameFactsNext ==
    ASSUME WireType', NEW s \in Sockets
    PROVE  /\ DOMAIN c2s'[s] \subseteq Nat \ {0} /\ DOMAIN s2c'[s] \subseteq Nat \ {0}
           /\ \A i \in DOMAIN c2s'[s] : c2s'[s][i] \in FromBrowser
           /\ \A i \in DOMAIN s2c'[s] : s2c'[s][i] \in ToBrowser
<1>1. c2s'[s] \in Seq(FromBrowser) /\ s2c'[s] \in Seq(ToBrowser)
  BY DEF WireType
<1> QED
  BY <1>1, SeqFacts

\* A frame is told by its type.
LEMMA SubscribeKind ==
    ASSUME NEW f \in FromBrowser, f.type = "subscribe"
    PROVE  f \in SubscribeFrames
BY DEF FromBrowser, SubscribeFrames, UnsubscribeFrames, Closes, Close, Ping

LEMMA UnsubscribeKind ==
    ASSUME NEW f \in FromBrowser, f.type = "unsubscribe"
    PROVE  f \in UnsubscribeFrames
BY DEF FromBrowser, SubscribeFrames, UnsubscribeFrames, Closes, Close, Ping

LEMMA AckKind ==
    ASSUME NEW f \in ToBrowser, f.type = "ack"
    PROVE  f \in Answers
BY DEF ToBrowser, Answers, Closes, Close, Pong, Opened, EventFrame

LEMMA UpStep ==
    ASSUME QuietUp, NEW s \in Sockets
    PROVE  \E k \in {0, 1} : \A t \in {"subscribe", "unsubscribe"} :
             \A i \in Requests(s, t)' : i + k \in Requests(s, t) /\ c2s[s][i + k] = c2s'[s][i]
<1>1. PICK k \in {0, 1} : \A i \in DOMAIN c2s'[s] :
        c2s'[s][i].type \in {"subscribe", "unsubscribe"} =>
            i + k \in DOMAIN c2s[s] /\ c2s[s][i + k] = c2s'[s][i]
  BY DEF QuietUp, Shown
<1> QED
  BY <1>1 DEF Requests

LEMMA DownStep ==
    ASSUME NEW t, NEW s \in Sockets, Shown(s2c'[s], s2c[s], {t})
    PROVE  \E k \in {0, 1} :
             \A i \in Replies(s, t)' : i + k \in Replies(s, t) /\ s2c[s][i + k] = s2c'[s][i]
BY DEF Shown, Replies

LEMMA QuietIds ==
    ASSUME IdInv, QuietUp, QuietDown, NoNewIds, \A s \in Sockets : held'[s] \subseteq held[s]
    PROVE  IdInv'
<1>1. \A c \in Channels : Ids(c)' \subseteq Ids(c)
  BY DEF NoNewIds, Ids
<1>2. ASSUME NEW s \in Sockets, NEW i \in Requests(s, "subscribe")' \cup Requests(s, "unsubscribe")'
      PROVE  c2s'[s][i].id < nextId
  <2>1. PICK k \in {0, 1} : \A t \in {"subscribe", "unsubscribe"} :
          \A j \in Requests(s, t)' : j + k \in Requests(s, t) /\ c2s[s][j + k] = c2s'[s][j]
    BY UpStep
  <2> QED
    BY <1>2, <2>1 DEF IdInv
<1>3. ASSUME NEW s \in Sockets, NEW i \in Replies(s, "ack")' PROVE s2c'[s][i].id < nextId
  <2>1. PICK k \in {0, 1} :
          \A j \in Replies(s, "ack")' : j + k \in Replies(s, "ack") /\ s2c[s][j + k] = s2c'[s][j]
    BY DownStep DEF QuietDown
  <2> QED
    BY <1>3, <2>1 DEF IdInv
<1> QED
  BY <1>1, <1>2, <1>3 DEF IdInv, NoNewIds

LEMMA TakenRequests ==
    ASSUME TypeOK, WireType, WireType', TypeOK', RequestInv, QuietUp, NoNewIds,
           \A s, r \in Sockets : \A i \in Requests(s, "subscribe")' :
             c2s'[s][i].id \notin held'[r]
    PROVE  RequestInv'
<1>1. \A c \in Channels : Ids(c)' \subseteq Ids(c)
  BY DEF NoNewIds, Ids
<1>2. ASSUME NEW s \in Sockets, NEW r \in Sockets, NEW i \in Requests(s, "subscribe")',
             NEW j \in Requests(r, "subscribe")', c2s'[s][i].id = c2s'[r][j].id
      PROVE  s = r /\ i = j
  <2>1. PICK a \in {0, 1} : \A m \in Requests(s, "subscribe")' :
          m + a \in Requests(s, "subscribe") /\ c2s[s][m + a] = c2s'[s][m]
    BY UpStep
  <2>2. PICK b \in {0, 1} : \A m \in Requests(r, "subscribe")' :
          m + b \in Requests(r, "subscribe") /\ c2s[r][m + b] = c2s'[r][m]
    BY UpStep
  <2>3. s = r
    BY <1>2, <2>1, <2>2 DEF RequestInv
  <2>4. i + b = j + b
    BY <1>2, <2>2, <2>3 DEF RequestInv
  <2>5. i \in Nat /\ j \in Nat
    BY FrameFacts DEF Requests, WireType
  <2> QED
    BY <2>3, <2>4, <2>5
<1>3. ASSUME NEW s \in Sockets, NEW i \in Requests(s, "subscribe")'
      PROVE  /\ \A r \in Sockets : c2s'[s][i].id \notin held'[r]
             /\ \A c \in Channels : c2s'[s][i].id = sub'[c].pending => c2s'[s][i].channel = c
  <2>1. PICK a \in {0, 1} : \A m \in Requests(s, "subscribe")' :
          m + a \in Requests(s, "subscribe") /\ c2s[s][m + a] = c2s'[s][m]
    BY UpStep
  <2>2. PICK m \in Requests(s, "subscribe") : c2s[s][m] = c2s'[s][i]
    BY <2>1
  <2>3. c2s'[s][i].id # 0
    <3>1. m \in DOMAIN c2s[s] /\ c2s[s][m].type = "subscribe"
      BY <2>2 DEF Requests
    <3>2. c2s[s][m] \in FromBrowser
      BY <3>1, FrameFacts
    <3>3. c2s[s][m] \in SubscribeFrames
      BY <3>1, <3>2, SubscribeKind
    <3> QED
      BY <2>2, <3>3, RuntimeWsAssumption DEF SubscribeFrames
  <2> QED
    BY <2>2, <2>3 DEF RequestInv, NoNewIds
<1>4. ASSUME NEW s \in Sockets, NEW c \in Channels, NEW i \in Requests(s, "unsubscribe")'
      PROVE  c2s'[s][i].id \notin Ids(c)'
  BY <1>1, <1>4, UpStep DEF RequestInv
<1> QED
  BY <1>2, <1>3, <1>4 DEF RequestInv

LEMMA QuietRequests ==
    ASSUME TypeOK, WireType, WireType', TypeOK', RequestInv, QuietUp, NoNewIds,
           \A s \in Sockets : held'[s] \subseteq held[s]
    PROVE  RequestInv'
<1>1. ASSUME NEW s \in Sockets, NEW r \in Sockets, NEW i \in Requests(s, "subscribe")'
      PROVE  c2s'[s][i].id \notin held'[r]
  <2>1. PICK a \in {0, 1} : \A m \in Requests(s, "subscribe")' :
          m + a \in Requests(s, "subscribe") /\ c2s[s][m + a] = c2s'[s][m]
    BY UpStep
  <2> QED
    BY <1>1, <2>1 DEF RequestInv
<1> QED
  BY <1>1, TakenRequests

LEMMA QuietAcks ==
    ASSUME TypeOK, WireType, AckInv, QuietDown, NoNewIds, KeepsHeld,
           \A s \in registered' : s \in Sockets /\ (s \in registered \/ Replies(s, "ack")' = {})
    PROVE  AckInv'
<1> SUFFICES ASSUME NEW s \in registered', NEW c \in Channels, NEW i \in Replies(s, "ack")',
                    s2c'[s][i].id = sub'[c].pending
             PROVE  Has(s, sub[c].pending, c)'
  BY DEF AckInv
<1>1. s \in registered /\ s \in Sockets
  OBVIOUS
<1>2. PICK m \in Replies(s, "ack") : s2c[s][m] = s2c'[s][i]
  BY <1>1, DownStep DEF QuietDown
<1> DEFINE f == s2c[s][m]
<1>3. f.id \in Nat \ {0}
  <2>1. m \in DOMAIN s2c[s] /\ f.type = "ack"
    BY <1>2 DEF Replies
  <2>2. f \in ToBrowser
    BY <1>1, <2>1, FrameFacts
  <2>3. f \in Answers
    BY <2>1, <2>2, AckKind
  <2> QED
    BY <2>3, RuntimeWsAssumption DEF Answers
<1>6. PICK k \in Nat : k = f.id
  BY <1>3
<1>4. sub'[c].pending = k /\ sub[c].pending = k
  BY <1>2, <1>3, <1>6 DEF NoNewIds
<1>5. Has(s, k, c) /\ k \in Ids(c)
  BY <1>1, <1>2, <1>3, <1>4, <1>6 DEF AckInv, Ids
<1>7. Has(s, k, c)'
  BY <1>5 DEF KeepsHeld
<1> QED
  BY <1>4, <1>7 DEF Has

\* What the browser may be told to be the gateway's id, it confirms.
LEMMA QuietCurrent ==
    ASSUME TypeOK, WireType, CurrentInv, QuietUp, QuietDown, NoNewIds, KeepsHeld,
           Connected' => /\ Connected /\ sock' = sock
                         /\ sock \in Sockets /\ cs[sock] \notin {"unused", "connecting"} =>
                             /\ cs'[sock] \notin {"unused", "connecting"}
                             /\ sock \in registered' => sock \in registered
                         /\ \A c \in Channels :
                             \/ sub'[c].serverId \in {0, sub[c].serverId}
                             \/ Confirmed(sub'[c].serverId, c)
    PROVE  CurrentInv'
<1> SUFFICES ASSUME Connected' PROVE CurrentInv'
  BY DEF CurrentInv
<1>1. Connected /\ sock' = sock
  OBVIOUS
<1>2. ASSUME NEW s \in Sockets, NEW c \in Channels, NEW i \in Requests(s, "subscribe")',
             c2s'[s][i].id = sub'[c].pending
      PROVE  s = sock
  <2>1. PICK m \in Requests(s, "subscribe") : c2s[s][m] = c2s'[s][i]
    BY <1>2, UpStep
  <2>2. c2s[s][m].id # 0
    <3>1. m \in DOMAIN c2s[s] /\ c2s[s][m].type = "subscribe"
      BY <2>1 DEF Requests
    <3>2. c2s[s][m] \in FromBrowser
      BY <3>1, FrameFacts
    <3>3. c2s[s][m] \in SubscribeFrames
      BY <3>1, <3>2, SubscribeKind
    <3> QED
      BY <3>3, RuntimeWsAssumption DEF SubscribeFrames
  <2> QED
    BY <1>1, <1>2, <2>1, <2>2 DEF CurrentInv, NoNewIds
<1>3. ASSUME NEW s \in Sockets, NEW c \in Channels, NEW i \in Replies(s, "ack")',
             s2c'[s][i].id = sub'[c].pending
      PROVE  s = sock
  <2>1. PICK m \in Replies(s, "ack") : s2c[s][m] = s2c'[s][i]
    BY <1>3, DownStep DEF QuietDown
  <2>2. s2c[s][m].id # 0
    <3>1. m \in DOMAIN s2c[s] /\ s2c[s][m].type = "ack"
      BY <2>1 DEF Replies
    <3>2. s2c[s][m] \in ToBrowser
      BY <3>1, FrameFacts
    <3>3. s2c[s][m] \in Answers
      BY <3>1, <3>2, AckKind
    <3> QED
      BY <3>3, RuntimeWsAssumption DEF Answers
  <2> QED
    BY <1>1, <1>3, <2>1, <2>2 DEF CurrentInv, NoNewIds
<1>4. ASSUME NEW c \in Channels, sub'[c].serverId # 0
      PROVE  Confirmed(sub[c].serverId, c)'
  <2>6. sub'[c].serverId \in Nat /\ sub'[c].serverId \in Ids(c)
    <3>1. sub[c].pending \in Nat /\ sub[c].serverId \in Nat
      BY DEF TypeOK
    <3> QED
      BY <1>4, <3>1 DEF NoNewIds, Ids
  <2>1. PICK k \in Nat : k = sub'[c].serverId /\ k \in Ids(c)
    BY <2>6
  <2>2. Confirmed(k, c)
    BY <1>1, <1>4, <2>1 DEF CurrentInv
  <2>3. /\ sock \in Sockets /\ cs'[sock] \notin {"unused", "connecting"}
        /\ sock \in registered' => sock \in registered
    BY <1>1, <2>2 DEF Confirmed
  <2>4. sock \in registered' => k \in held'[sock]
                                /\ \E b \in subscriptions' : b.id = k /\ b.channel = c
    BY <2>1, <2>2, <2>3 DEF Confirmed, KeepsHeld, Has
  <2> QED
    BY <1>1, <2>1, <2>3, <2>4 DEF Confirmed, Has
<1> QED
  BY <1>1, <1>2, <1>3, <1>4 DEF CurrentInv

LEMMA CarryingFinite ==
    /\ IsFiniteSet(Sockets)
    /\ \A S \in SUBSET Sockets : IsFiniteSet(S) /\ Cardinality(S) \in Nat
<1>1. IsFiniteSet(Sockets)
  BY RuntimeWsAssumption, FS_Interval DEF Sockets
<1> QED
  BY <1>1, FS_Subset, FS_CardinalityType

LEMMA QuietHeard ==
    ASSUME TypeOK, WireType, WireType', HeardInv, QuietEvents, event' = event, heard' = heard
    PROVE  HeardInv'
<1>1. ASSUME NEW s \in Sockets
      PROVE  /\ Replies(s, "event")' # {} => Replies(s, "event") # {}
             /\ \A i, k \in Replies(s, "event")' : i = k
  <2>1. PICK a \in {0, 1} : \A j \in Replies(s, "event")' :
          j + a \in Replies(s, "event") /\ s2c[s][j + a] = s2c'[s][j]
    BY DownStep DEF QuietEvents
  <2>2. ASSUME NEW i \in Replies(s, "event")', NEW k \in Replies(s, "event")' PROVE i = k
    <3>1. i + a = k + a
      BY <2>1 DEF HeardInv
    <3>2. i \in DOMAIN s2c'[s] /\ k \in DOMAIN s2c'[s]
      BY DEF Replies
    <3>3. i \in Nat /\ k \in Nat
      BY <3>2, FrameFactsNext
    <3> QED
      BY <3>1, <3>3
  <2> QED
    BY <2>1, <2>2
<1>2. Carrying' \in SUBSET Carrying /\ Carrying \in SUBSET Sockets
  BY <1>1 DEF Carrying
<1> DEFINE a == Cardinality(Carrying')
           b == Cardinality(Carrying)
<1>3. a <= b /\ a \in Nat /\ b \in Nat
  BY <1>2, CarryingFinite, FS_Subset
<1>4. event.copies \in Nat /\ heard \in [Listeners -> Nat]
  BY DEF TypeOK, WireType
<1>5. b <= event.copies /\ \A l \in Listeners : heard[l] + b <= event.copies
  BY DEF HeardInv
<1> HIDE DEF a, b
<1>6. a <= event.copies /\ \A l \in Listeners : heard[l] + a <= event.copies
  BY <1>3, <1>4, <1>5
<1> QED
  BY <1>1, <1>6 DEF HeardInv, a

-----------------------------------------------------------------------------
(* Types *)

LEMMA FrameTypes ==
    /\ Ping \in FromBrowser /\ Close("normal") \in FromBrowser /\ Close("abnormal") \in FromBrowser
    /\ Pong \in ToBrowser /\ Opened \in ToBrowser /\ EventFrame \in ToBrowser
    /\ Close("normal") \in ToBrowser /\ Close("abnormal") \in ToBrowser
    /\ \A k \in 1..MaxFrames, t \in {"ack", "error"} : [type |-> t, id |-> k] \in ToBrowser
    /\ \A k \in 0..MaxFrames : [type |-> "unsubscribe", id |-> k] \in FromBrowser
    /\ \A k \in 1..MaxFrames, c \in Channels, T \in SUBSET Types :
         SubscribeFrame(k, c, T) \in SubscribeFrames /\ SubscribeFrame(k, c, T) \in FromBrowser
BY DEF FromBrowser, ToBrowser, SubscribeFrames, UnsubscribeFrames, Answers, Closes,
       SubscribeFrame

LEMMA SentType ==
    ASSUME WireType, NEW g \in Seq(FromBrowser)
    PROVE  Sent(g) \in [Sockets -> Seq(FromBrowser)]
<1>1. \A s \in Sockets : c2s[s] \o g \in Seq(FromBrowser)
  BY ConcatProperties DEF WireType
<1> QED
  BY <1>1 DEF Sent, WireType

LEMMA ReplyType ==
    ASSUME WireType, NEW f \in ToBrowser, NEW s \in Sockets
    PROVE  Reply(s, f) \in [Sockets -> Seq(ToBrowser)]
<1>1. Append(s2c[s], f) \in Seq(ToBrowser)
  BY AppendProperties DEF WireType
<1> QED
  BY <1>1 DEF Reply, WireType

\* stopHeartbeat clears the interval whose handle the client has.
LEMMA BeatsStop ==
    ASSUME TypeOK, WireType,
           beats' = [live |-> beats.live - (IF beats.handle THEN 1 ELSE 0), handle |-> FALSE]
    PROVE  beats' \in [live : Nat, handle : BOOLEAN] /\ ~beats'.handle
<1>1. beats.live \in Nat
  BY DEF TypeOK
<1>2. PICK n \in Nat : n = beats.live - (IF beats.handle THEN 1 ELSE 0)
  <2>1. CASE beats.handle
    BY <1>1, <2>1 DEF WireType
  <2>2. CASE ~beats.handle
    BY <1>1, <2>2
  <2> QED
    BY <2>1, <2>2
<1>3. beats' = [live |-> n, handle |-> FALSE]
  BY <1>2
<1> QED
  BY <1>3

LEMMA BeatsStart ==
    ASSUME TypeOK, beats' = [live |-> beats.live + 1, handle |-> TRUE]
    PROVE  beats' \in [live : Nat, handle : BOOLEAN] /\ beats'.live >= 1
<1>1. PICK n \in Nat : n = beats.live + 1 /\ n >= 1
  BY DEF TypeOK
<1>2. beats' = [live |-> n, handle |-> TRUE]
  BY <1>1
<1> QED
  BY <1>1, <1>2

\* What the steps of the browser leave alone keeps its type.
LEMMA KeepsTypes ==
    ASSUME TypeOK, WireType,
           state' \in {"connecting", "connected", "reconnecting", "disconnected", "degraded"},
           sock' \in {0} \cup Sockets, mounted' \subseteq Listeners,
           sub' \in [Channels -> [types : SUBSET Types, pending : Nat, serverId : Nat]],
           attempts' \in Nat, timers' \in Nat, ponged' \in BOOLEAN,
           beats' \in [live : Nat, handle : BOOLEAN], beats'.handle => beats'.live >= 1,
           cs' \in [Sockets -> {"unused", "connecting", "open", "closing", "closed"}],
           retried' \subseteq Sockets, up' \subseteq Sockets,
           heard' \in [Listeners -> Nat], UNCHANGED <<gateway, event>>,
           c2s' \in [Sockets -> Seq(FromBrowser)], s2c' \in [Sockets -> Seq(ToBrowser)],
           nextId' \in 1..(MaxFrames + 1)
    PROVE  TypeOK' /\ WireType'
<1>1. nextId' \in Nat
  OBVIOUS
<1>2. UNCHANGED <<registered, missed, held, subscriptions, refused>>
  BY DEF gateway
<1>3. WireType'
  BY DEF WireType
<1>4. TypeOK'
  BY <1>1, <1>2 DEF TypeOK
<1> QED
  BY <1>3, <1>4

LEMMA TypesNow ==
    ASSUME TypeOK, WireType
    PROVE  /\ state \in {"connecting", "connected", "reconnecting", "disconnected", "degraded"}
           /\ sock \in {0} \cup Sockets /\ mounted \subseteq Listeners
           /\ sub \in [Channels -> [types : SUBSET Types, pending : Nat, serverId : Nat]]
           /\ attempts \in Nat /\ timers \in Nat /\ ponged \in BOOLEAN
           /\ beats \in [live : Nat, handle : BOOLEAN] /\ (beats.handle => beats.live >= 1)
           /\ cs \in [Sockets -> {"unused", "connecting", "open", "closing", "closed"}]
           /\ retried \subseteq Sockets /\ up \subseteq Sockets
           /\ heard \in [Listeners -> Nat]
           /\ c2s \in [Sockets -> Seq(FromBrowser)] /\ s2c \in [Sockets -> Seq(ToBrowser)]
           /\ nextId \in 1..(MaxFrames + 1)
BY DEF TypeOK, WireType

-----------------------------------------------------------------------------
(* Quiet steps keep the invariant *)

LEMMA SameUp == ASSUME WireType, c2s' = c2s PROVE QuietUp
BY ShownItself DEF QuietUp, WireType

LEMMA SameDown == ASSUME WireType, s2c' = s2c PROVE QuietDown /\ QuietEvents
BY ShownItself DEF QuietDown, QuietEvents, WireType

LEMMA OneUp ==
    ASSUME WireType, NEW s \in Sockets, NEW p, c2s' = [c2s EXCEPT ![s] = p],
           Shown(p, c2s[s], {"subscribe", "unsubscribe"})
    PROVE  QuietUp
<1>1. \A r \in Sockets : c2s'[r] = IF r = s THEN p ELSE c2s[r]
  BY DEF WireType
<1> QED
  BY <1>1, ShownItself DEF QuietUp, WireType

LEMMA OneDown ==
    ASSUME WireType, NEW s \in Sockets, NEW p, s2c' = [s2c EXCEPT ![s] = p]
    PROVE  /\ Shown(p, s2c[s], {"ack"}) => QuietDown
           /\ Shown(p, s2c[s], {"event"}) => QuietEvents
<1>1. \A r \in Sockets : s2c'[r] = IF r = s THEN p ELSE s2c[r]
  BY DEF WireType
<1> QED
  BY <1>1, ShownItself DEF QuietDown, QuietEvents, WireType

\* A frame sent that is no request, and an answer that is none.
LEMMA SentQuietly ==
    ASSUME TypeOK, WireType, NEW f \in FromBrowser, f.type \notin {"subscribe", "unsubscribe"},
           c2s' = Sent(<<f>>)
    PROVE  QuietUp
<1>1. CASE ~(sock \in up /\ cs[sock] = "open")
  BY <1>1, SameUp DEF Sent
<1>2. CASE sock \in up /\ cs[sock] = "open"
  <2>1. sock \in Sockets /\ c2s[sock] \in Seq(FromBrowser)
    BY <1>2 DEF TypeOK, WireType
  <2>2. c2s[sock] \o <<f>> = Append(c2s[sock], f)
    BY <2>1
  <2>3. Shown(Append(c2s[sock], f), c2s[sock], {"subscribe", "unsubscribe"})
    BY <2>1, ShownAppend
  <2>4. c2s' = [c2s EXCEPT ![sock] = Append(c2s[sock], f)]
    BY <1>2, <2>2 DEF Sent
  <2> QED
    BY <2>1, <2>3, <2>4, OneUp
<1> QED
  BY <1>1, <1>2

LEMMA RepliedQuietly ==
    ASSUME WireType, NEW f \in ToBrowser, NEW s \in Sockets, s2c' = Reply(s, f)
    PROVE  /\ f.type # "ack" => QuietDown
           /\ f.type # "event" => QuietEvents
<1>1. CASE s \notin up
  BY <1>1, SameDown DEF Reply
<1>2. CASE s \in up
  <2>1. s2c' = [s2c EXCEPT ![s] = Append(s2c[s], f)] /\ s2c[s] \in Seq(ToBrowser)
    BY <1>2 DEF Reply, WireType
  <2>2. \A T : f.type \notin T => Shown(Append(s2c[s], f), s2c[s], T)
    BY <2>1, ShownAppend
  <2>3. f.type # "ack" => Shown(Append(s2c[s], f), s2c[s], {"ack"})
    BY <2>2
  <2>4. f.type # "event" => Shown(Append(s2c[s], f), s2c[s], {"event"})
    BY <2>2
  <2> QED
    BY <2>1, <2>3, <2>4, OneDown
<1> QED
  BY <1>1, <1>2

\* The first frame of s is taken by the browser, or by the gateway.
LEMMA TakenDown ==
    ASSUME WireType, NEW s \in Sockets, s2c[s] # <<>>, s2c' = [s2c EXCEPT ![s] = Tail(@)]
    PROVE  /\ QuietDown /\ QuietEvents /\ s2c' \in [Sockets -> Seq(ToBrowser)]
           /\ Head(s2c[s]) = s2c[s][1] /\ Head(s2c[s]) \in ToBrowser /\ 1 \in DOMAIN s2c[s]
<1>1. s2c[s] \in Seq(ToBrowser) /\ s2c' = [s2c EXCEPT ![s] = Tail(s2c[s])]
  BY DEF WireType
<1>2. /\ Tail(s2c[s]) \in Seq(ToBrowser) /\ Head(s2c[s]) = s2c[s][1]
      /\ s2c[s][1] \in ToBrowser /\ 1 \in DOMAIN s2c[s]
  BY <1>1, TailFacts
<1>3. \A T : Shown(Tail(s2c[s]), s2c[s], T)
  BY <1>1, ShownTail
<1>4. QuietDown /\ QuietEvents
  BY <1>1, <1>3, OneDown
<1> QED
  BY <1>1, <1>2, <1>4 DEF WireType

LEMMA TakenUp ==
    ASSUME WireType, NEW s \in Sockets, c2s[s] # <<>>, c2s' = [c2s EXCEPT ![s] = Tail(@)]
    PROVE  /\ QuietUp /\ c2s' \in [Sockets -> Seq(FromBrowser)]
           /\ Head(c2s[s]) = c2s[s][1] /\ Head(c2s[s]) \in FromBrowser /\ 1 \in DOMAIN c2s[s]
<1>1. c2s[s] \in Seq(FromBrowser) /\ c2s' = [c2s EXCEPT ![s] = Tail(c2s[s])]
  BY DEF WireType
<1>2. /\ Tail(c2s[s]) \in Seq(FromBrowser) /\ Head(c2s[s]) = c2s[s][1]
      /\ c2s[s][1] \in FromBrowser /\ 1 \in DOMAIN c2s[s]
  BY <1>1, TailFacts
<1>3. Shown(Tail(c2s[s]), c2s[s], {"subscribe", "unsubscribe"})
  BY <1>1, ShownTail
<1>4. QuietUp
  BY <1>1, <1>3, OneUp
<1> QED
  BY <1>1, <1>2, <1>4 DEF WireType

\* A step of the browser or the network without a new request.
LEMMA QuietBrowser ==
    ASSUME IInv, TypeOK', WireType', UNCHANGED gateway, QuietUp, QuietDown, NoNewIds, HeardInv',
           Connected' => /\ Connected /\ sock' = sock
                         /\ sock \in Sockets /\ cs[sock] \notin {"unused", "connecting"} =>
                              cs'[sock] \notin {"unused", "connecting"}
                         /\ \A c \in Channels :
                             \/ sub'[c].serverId \in {0, sub[c].serverId}
                             \/ Confirmed(sub'[c].serverId, c)
    PROVE  IInv'
<1>1. UNCHANGED <<registered, missed, held, subscriptions, refused>>
  BY DEF gateway
<1>2. NoOrphanSubscription' /\ KeepsHeld
  BY <1>1 DEF IInv, NoOrphanSubscription, KeepsHeld, Has
<1>3. \A s \in registered' : s \in Sockets /\ s \in registered
  BY <1>1 DEF IInv, TypeOK
<1>4. IdInv'
  BY <1>1, QuietIds DEF IInv
<1>5. RequestInv'
  BY <1>1, QuietRequests DEF IInv
<1>6. AckInv'
  BY <1>2, <1>3, QuietAcks DEF IInv
<1>7. CurrentInv'
  BY <1>1, <1>2, QuietCurrent DEF IInv
<1> QED
  BY <1>2, <1>4, <1>5, <1>6, <1>7 DEF IInv

-----------------------------------------------------------------------------
(* The steps of the browser and of the network *)

LEMMA SameIds == ASSUME TypeOK, UNCHANGED <<sub, nextId>> PROVE NoNewIds
BY DEF NoNewIds

\* A socket is opened: the client is connecting, whatever it was.
LEMMA OpenStep ==
    ASSUME IInv, NEW byTimer \in BOOLEAN, OpenSocket(byTimer), attempts' \in Nat, timers' \in Nat,
           UNCHANGED <<sub, mounted, beats, ponged, heard, wire, gateway, nextId, event>>
    PROVE  IInv'
<1>1. TypeOK /\ WireType /\ HeardInv
  BY DEF IInv
<1>2. PICK s \in Sockets :
        /\ cs' = [cs EXCEPT ![s] = "connecting"]
        /\ sock' = s /\ state' = "connecting"
        /\ retried' = IF byTimer THEN retried \cup {s} ELSE retried
  BY DEF OpenSocket
<1>3. UNCHANGED <<c2s, s2c, up>>
  BY DEF wire
<1>4. TypeOK' /\ WireType'
  <2>1. /\ cs' \in [Sockets -> {"unused", "connecting", "open", "closing", "closed"}]
        /\ retried' \subseteq Sockets
    BY <1>1, <1>2, TypesNow
  <2> QED
    BY <1>1, <1>2, <1>3, <2>1, TypesNow, KeepsTypes
<1>5. QuietUp /\ QuietDown /\ QuietEvents /\ NoNewIds
  BY <1>1, <1>3, SameUp, SameDown, SameIds
<1>6. HeardInv'
  BY <1>1, <1>4, <1>5, QuietHeard
<1>7. ~Connected'
  BY <1>2 DEF Connected
<1> QED
  BY <1>4, <1>5, <1>6, <1>7, QuietBrowser

LEMMA AutoConnectStep == ASSUME IInv, AutoConnect PROVE IInv'
<1>1. attempts' \in Nat /\ timers' \in Nat
  BY TypesNow DEF IInv, AutoConnect
<1> QED
  BY <1>1, OpenStep DEF AutoConnect

LEMMA TimerStep == ASSUME IInv, TimerFires PROVE IInv'
<1>1. TypeOK /\ WireType /\ HeardInv
  BY DEF IInv
<1>2. attempts' \in Nat /\ timers' \in Nat
  <2>1. attempts \in Nat /\ timers \in Nat /\ timers > 0
    BY <1>1, TypesNow DEF TimerFires
  <2> QED
    BY <2>1 DEF TimerFires
<1>3. CASE OpenSocket(TRUE)
  BY <1>2, <1>3, OpenStep DEF TimerFires
<1>4. CASE UNCHANGED <<state, sock, cs, retried>>
  <2>1. UNCHANGED <<sub, mounted, beats, ponged, heard, c2s, s2c, up, gateway, nextId, event>>
    BY DEF TimerFires, wire
  <2>2. TypeOK' /\ WireType'
    BY <1>1, <1>2, <1>4, <2>1, TypesNow, KeepsTypes
  <2>3. QuietUp /\ QuietDown /\ QuietEvents /\ NoNewIds
    BY <1>1, <2>1, SameUp, SameDown, SameIds
  <2>4. HeardInv'
    BY <1>1, <2>1, <2>2, <2>3, QuietHeard
  <2>5. Connected' = Connected /\ sock' = sock /\ cs' = cs /\ sub' = sub
    BY <1>4, <2>1 DEF Connected
  <2> QED
    BY <2>1, <2>2, <2>3, <2>4, <2>5, QuietBrowser
<1> QED
  BY <1>3, <1>4 DEF TimerFires

LEMMA OnCloseStep == ASSUME IInv, NEW s \in Sockets, OnClose(s) PROVE IInv'
<1>1. TypeOK /\ WireType /\ HeardInv
  BY DEF IInv
<1>2. /\ s2c' = [s2c EXCEPT ![s] = <<>>]
      /\ cs' = [cs EXCEPT ![s] = "closed"] /\ retried' = retried \ {s}
      /\ beats' = [live |-> beats.live - (IF beats.handle THEN 1 ELSE 0), handle |-> FALSE]
      /\ state' \in {"disconnected", "reconnecting"}
      /\ timers' \in {timers, timers + 1, timers + 2}
      /\ UNCHANGED <<sock, sub, mounted, attempts, ponged, heard, c2s, up, gateway, nextId, event>>
  BY DEF OnClose
<1>3. beats' \in [live : Nat, handle : BOOLEAN] /\ ~beats'.handle
  BY <1>1, <1>2, BeatsStop
<1>4. TypeOK' /\ WireType'
  <2>1. /\ cs' \in [Sockets -> {"unused", "connecting", "open", "closing", "closed"}]
        /\ retried' \subseteq Sockets /\ timers' \in Nat
    BY <1>1, <1>2, TypesNow
  <2>2. s2c' \in [Sockets -> Seq(ToBrowser)]
    BY <1>1, <1>2, EmptySeq DEF WireType
  <2> QED
    BY <1>1, <1>2, <1>3, <2>1, <2>2, TypesNow, KeepsTypes
<1>5. QuietUp /\ QuietDown /\ QuietEvents /\ NoNewIds
  <2>1. \A T : Shown(<<>>, s2c[s], T)
    BY DEF Shown
  <2> QED
    BY <1>1, <1>2, <2>1, SameUp, OneDown, SameIds
<1>6. HeardInv'
  BY <1>1, <1>2, <1>4, <1>5, QuietHeard
<1>7. ~Connected'
  BY <1>2 DEF Connected
<1> QED
  BY <1>2, <1>4, <1>5, <1>6, <1>7, QuietBrowser

\* The frames of a socket that is cut off are replaced by its close.
LEMMA CutDown ==
    ASSUME WireType, NEW s \in Sockets, NEW e \in Closes, s2c' = [s2c EXCEPT ![s] = <<e>>]
    PROVE  QuietDown /\ QuietEvents /\ s2c' \in [Sockets -> Seq(ToBrowser)]
<1>1. e.type = "close" /\ e \in ToBrowser
  BY DEF Closes, Close, ToBrowser
<1>2. Shown(<<e>>, s2c[s], {"ack"}) /\ Shown(<<e>>, s2c[s], {"event"})
  BY <1>1, ShownAlone
<1>3. QuietDown /\ QuietEvents
  BY <1>2, OneDown
<1>4. <<e>> \in Seq(ToBrowser)
  BY <1>1
<1> QED
  BY <1>3, <1>4 DEF WireType

LEMMA DisconnectStep == ASSUME IInv, Disconnect PROVE IInv'
<1>1. TypeOK /\ WireType /\ HeardInv /\ sock \in Sockets
  BY DEF IInv, TypeOK, Disconnect
<1>2. /\ beats' = [live |-> beats.live - (IF beats.handle THEN 1 ELSE 0), handle |-> FALSE]
      /\ timers' = IF timers = 0 THEN 0 ELSE timers - 1
      /\ cs' = [cs EXCEPT ![sock] = "closing"] /\ up' = up \ {sock}
      /\ c2s' \in {c2s, [c2s EXCEPT ![sock] = Append(c2s[sock], Close("normal"))]}
      /\ sock' = 0 /\ state' = "disconnected"
      /\ UNCHANGED <<sub, mounted, attempts, ponged, retried, heard, gateway, nextId, event>>
  BY <1>1 DEF Disconnect, WireType
<1>3. beats' \in [live : Nat, handle : BOOLEAN] /\ ~beats'.handle
  BY <1>1, <1>2, BeatsStop
<1>4. QuietDown /\ QuietEvents /\ s2c' \in [Sockets -> Seq(ToBrowser)]
  <2>1. PICK e \in Closes : s2c' = [s2c EXCEPT ![sock] = <<e>>]
    BY DEF Disconnect, Closes
  <2> QED
    BY <1>1, <2>1, CutDown
<1>5. QuietUp /\ c2s' \in [Sockets -> Seq(FromBrowser)]
  <2>1. c2s[sock] \in Seq(FromBrowser) /\ Close("normal") \in FromBrowser
    BY <1>1, FrameTypes DEF WireType
  <2>2. Append(c2s[sock], Close("normal")) \in Seq(FromBrowser)
    BY <2>1, AppendProperties
  <2>3. Shown(Append(c2s[sock], Close("normal")), c2s[sock], {"subscribe", "unsubscribe"})
    BY <2>1, ShownAppend DEF Close
  <2> QED
    BY <1>1, <1>2, <2>2, <2>3, SameUp, OneUp DEF WireType
<1>6. TypeOK' /\ WireType'
  <2>1. /\ cs' \in [Sockets -> {"unused", "connecting", "open", "closing", "closed"}]
        /\ up' \subseteq Sockets /\ timers' \in Nat
    BY <1>1, <1>2, TypesNow
  <2> QED
    BY <1>1, <1>2, <1>3, <1>4, <1>5, <2>1, TypesNow, KeepsTypes
<1>7. NoNewIds
  BY <1>1, <1>2, SameIds
<1>8. HeardInv'
  BY <1>1, <1>2, <1>4, <1>6, QuietHeard
<1>9. ~Connected'
  BY <1>2 DEF Connected
<1> QED
  BY <1>2, <1>4, <1>5, <1>6, <1>7, <1>8, <1>9, QuietBrowser

LEMMA TickStep == ASSUME IInv, Tick PROVE IInv'
<1>1. TypeOK /\ WireType /\ HeardInv
  BY DEF IInv
<1>2. /\ state = "connected" /\ state' \in {"connected", "degraded"} /\ c2s' = Sent(<<Ping>>)
      /\ UNCHANGED <<sock, sub, mounted, attempts, timers, beats, ponged, cs, retried,
                      heard, s2c, up, gateway, nextId, event>>
  BY DEF Tick
<1>3. QuietUp /\ c2s' \in [Sockets -> Seq(FromBrowser)]
  <2>1. Ping \in FromBrowser /\ Ping.type \notin {"subscribe", "unsubscribe"}
    BY FrameTypes DEF Ping
  <2>2. <<Ping>> \in Seq(FromBrowser)
    BY <2>1
  <2> QED
    BY <1>1, <1>2, <2>1, <2>2, SentQuietly, SentType
<1>4. TypeOK' /\ WireType'
  BY <1>1, <1>2, <1>3, TypesNow, KeepsTypes
<1>5. QuietDown /\ QuietEvents /\ NoNewIds
  BY <1>1, <1>2, SameDown, SameIds
<1>6. HeardInv'
  BY <1>1, <1>2, <1>4, <1>5, QuietHeard
<1>7. Connected
  BY <1>2 DEF Connected
<1> QED
  BY <1>2, <1>3, <1>4, <1>5, <1>6, <1>7, QuietBrowser

LEMMA ConnectFailsStep == ASSUME IInv, NEW s \in Sockets, ConnectFails(s) PROVE IInv'
<1>1. TypeOK /\ WireType /\ HeardInv
  BY DEF IInv
<1>2. /\ s2c' = [s2c EXCEPT ![s] = <<Close("abnormal")>>]
      /\ UNCHANGED <<state, sock, sub, mounted, attempts, timers, beats, ponged, cs, retried,
                      heard, c2s, up, gateway, nextId, event>>
  BY DEF ConnectFails, client
<1>3. QuietDown /\ QuietEvents /\ s2c' \in [Sockets -> Seq(ToBrowser)]
  BY <1>1, <1>2, CutDown DEF Closes
<1>4. TypeOK' /\ WireType'
  BY <1>1, <1>2, <1>3, TypesNow, KeepsTypes
<1>5. QuietUp /\ NoNewIds
  BY <1>1, <1>2, SameUp, SameIds
<1>6. HeardInv'
  BY <1>1, <1>2, <1>3, <1>4, QuietHeard
<1>7. Connected' = Connected
  BY <1>2 DEF Connected
<1> QED
  BY <1>2, <1>3, <1>4, <1>5, <1>6, <1>7, QuietBrowser

LEMMA DropStep == ASSUME IInv, NEW s \in Sockets, Drop(s) PROVE IInv'
<1>1. TypeOK /\ WireType /\ HeardInv
  BY DEF IInv
<1>2. /\ s2c' = [s2c EXCEPT ![s] = <<Close("abnormal")>>]
      /\ c2s' = [c2s EXCEPT ![s] = <<Close("abnormal")>>] /\ up' = up \ {s}
      /\ UNCHANGED <<state, sock, sub, mounted, attempts, timers, beats, ponged, cs, retried,
                      heard, gateway, nextId, event>>
  BY DEF Drop, client
<1>3. QuietDown /\ QuietEvents /\ s2c' \in [Sockets -> Seq(ToBrowser)]
  BY <1>1, <1>2, CutDown DEF Closes
<1>4. QuietUp /\ c2s' \in [Sockets -> Seq(FromBrowser)]
  <2>1. Close("abnormal") \in FromBrowser /\ Close("abnormal").type = "close"
    BY FrameTypes DEF Close
  <2>2. <<Close("abnormal")>> \in Seq(FromBrowser)
    BY <2>1
  <2>3. Shown(<<Close("abnormal")>>, c2s[s], {"subscribe", "unsubscribe"})
    BY <2>1, ShownAlone
  <2> QED
    BY <1>1, <1>2, <2>2, <2>3, OneUp DEF WireType
<1>5. TypeOK' /\ WireType'
  <2>1. up' \subseteq Sockets
    BY <1>1, <1>2, TypesNow
  <2> QED
    BY <1>1, <1>2, <1>3, <1>4, <2>1, TypesNow, KeepsTypes
<1>6. NoNewIds
  BY <1>1, <1>2, SameIds
<1>7. HeardInv'
  BY <1>1, <1>2, <1>3, <1>5, QuietHeard
<1>8. Connected' = Connected
  BY <1>2 DEF Connected
<1> QED
  BY <1>2, <1>3, <1>4, <1>5, <1>6, <1>7, <1>8, QuietBrowser

-----------------------------------------------------------------------------
(* Answers that arrive *)

SubRecord == [types : SUBSET Types, pending : Nat, serverId : Nat]

LEMMA IdFacts == \A k \in 1..MaxFrames : k \in Nat /\ k # 0
BY RuntimeWsAssumption

LEMMA AckedRecord ==
    ASSUME NEW r \in SubRecord, NEW k \in Nat
    PROVE  LET a == [r EXCEPT !.serverId = k, !.pending = 0] IN
           a \in SubRecord /\ a.pending = 0 /\ a.serverId = k
BY DEF SubRecord

LEMMA ReceiveAck ==
    ASSUME IInv, NEW s \in Sockets, cs[s] = "open", s2c[s] # <<>>,
           s2c' = [s2c EXCEPT ![s] = Tail(@)], Head(s2c[s]).type = "ack",
           sub' = [c \in Channels |->
                     IF c \in Live(mounted) /\ sub[c].pending = Head(s2c[s]).id
                     THEN [sub[c] EXCEPT !.serverId = Head(s2c[s]).id, !.pending = 0] ELSE sub[c]],
           UNCHANGED <<state, sock, mounted, attempts, timers, beats, ponged, cs, retried, heard,
                       c2s, up, gateway, nextId, event>>
    PROVE  IInv'
<1>1. TypeOK /\ WireType /\ HeardInv
  BY DEF IInv
<1>2. /\ QuietDown /\ QuietEvents /\ s2c' \in [Sockets -> Seq(ToBrowser)]
      /\ Head(s2c[s]) = s2c[s][1] /\ Head(s2c[s]) \in ToBrowser /\ 1 \in DOMAIN s2c[s]
  BY <1>1, TakenDown
<1>3. PICK k \in Nat : k = Head(s2c[s]).id /\ k # 0
  <2>1. Head(s2c[s]) \in Answers
    BY <1>2, AckKind
  <2>2. Head(s2c[s]).id \in 1..MaxFrames
    BY <2>1 DEF Answers
  <2>3. Head(s2c[s]).id \in Nat /\ Head(s2c[s]).id # 0
    BY <2>2, IdFacts
  <2> QED
    BY <2>3
<1>4. 1 \in Replies(s, "ack") /\ s2c[s][1].id = k
  BY <1>2, <1>3 DEF Replies
<1>5. ASSUME NEW c \in Channels
      PROVE  /\ sub'[c] \in SubRecord
             /\ \/ sub'[c] = sub[c]
                \/ sub[c].pending = k /\ sub'[c].pending = 0 /\ sub'[c].serverId = k
  <2>1. sub[c] \in SubRecord
    BY <1>1, TypesNow DEF SubRecord
  <2>2. sub'[c] = IF c \in Live(mounted) /\ sub[c].pending = k
                  THEN [sub[c] EXCEPT !.serverId = k, !.pending = 0] ELSE sub[c]
    BY <1>3
  <2> DEFINE a == [sub[c] EXCEPT !.serverId = k, !.pending = 0]
  <2>3. a \in SubRecord /\ a.pending = 0 /\ a.serverId = k
    BY <2>1, AckedRecord
  <2> HIDE DEF a
  <2> QED
    BY <2>1, <2>2, <2>3 DEF a
<1>6. sub' \in [Channels -> [types : SUBSET Types, pending : Nat, serverId : Nat]]
  BY <1>5 DEF SubRecord
<1>7. TypeOK' /\ WireType'
  BY <1>1, <1>2, <1>6, TypesNow, KeepsTypes
<1>8. NoNewIds
  BY <1>5 DEF NoNewIds
<1>9. HeardInv'
  BY <1>1, <1>2, <1>7, QuietHeard
<1>10. QuietUp
  BY <1>1, SameUp
<1>11. ASSUME Connected', NEW c \in Channels
       PROVE  sub'[c].serverId \in {0, sub[c].serverId} \/ Confirmed(sub'[c].serverId, c)
  <2>1. Connected
    BY <1>11 DEF Connected
  <2>2. CASE sub'[c] = sub[c]
    BY <2>2
  <2>3. CASE sub[c].pending = k /\ sub'[c].serverId = k
    <3>1. s = sock
      BY <1>4, <2>1, <2>3 DEF IInv, CurrentInv
    <3>2. s \in registered => Has(s, k, c)
      BY <1>4, <2>3 DEF IInv, AckInv
    <3> QED
      BY <2>3, <3>1, <3>2 DEF Confirmed
  <2> QED
    BY <1>5, <2>2, <2>3
<1>12. Connected' = Connected
  BY DEF Connected
<1> QED
  BY <1>2, <1>7, <1>8, <1>9, <1>10, <1>11, <1>12, QuietBrowser

\* One event frame less, and every listener called at most once for it.
LEMMA ReceiveEvent ==
    ASSUME IInv, NEW s \in Sockets, s2c[s] # <<>>, s2c' = [s2c EXCEPT ![s] = Tail(@)],
           Head(s2c[s]).type = "event",
           heard' = [l \in Listeners |->
                       IF l \in mounted /\ event.type \in sub[ChannelOf[l]].types
                       THEN heard[l] + 1 ELSE heard[l]],
           UNCHANGED <<state, sock, sub, mounted, attempts, timers, beats, ponged, cs, retried,
                       c2s, up, gateway, nextId, event>>
    PROVE  IInv'
<1>1. TypeOK /\ WireType /\ HeardInv
  BY DEF IInv
<1>2. /\ QuietDown /\ QuietEvents /\ s2c' \in [Sockets -> Seq(ToBrowser)]
      /\ Head(s2c[s]) = s2c[s][1] /\ Head(s2c[s]) \in ToBrowser /\ 1 \in DOMAIN s2c[s]
  BY <1>1, TakenDown
<1>3. heard \in [Listeners -> Nat] /\ heard' \in [Listeners -> Nat]
      /\ \A l \in Listeners : heard'[l] <= heard[l] + 1
  <2>1. \A l \in Listeners : heard[l] \in Nat /\ heard[l] + 1 \in Nat
    BY <1>1, TypesNow
  <2> QED
    BY <1>1, <2>1, TypesNow
<1>4. TypeOK' /\ WireType'
  BY <1>1, <1>2, <1>3, TypesNow, KeepsTypes
<1>5. Replies(s, "event")' = {}
  <2>1. s2c[s] \in Seq(ToBrowser) /\ s2c'[s] = Tail(s2c[s])
    BY <1>1 DEF WireType
  <2>2. \A i \in DOMAIN Tail(s2c[s]) :
          i \in Nat /\ i >= 1 /\ i + 1 \in DOMAIN s2c[s] /\ Tail(s2c[s])[i] = s2c[s][i + 1]
    BY <2>1, TailFacts
  <2>3. 1 \in Replies(s, "event")
    BY <1>2 DEF Replies
  <2> SUFFICES ASSUME NEW i \in Replies(s, "event")' PROVE FALSE
    OBVIOUS
  <2>4. i \in DOMAIN Tail(s2c[s]) /\ Tail(s2c[s])[i].type = "event"
    BY <2>1 DEF Replies
  <2>5. i + 1 \in Replies(s, "event")
    BY <2>2, <2>4 DEF Replies
  <2>6. i + 1 = 1
    BY <1>1, <2>3, <2>5 DEF HeardInv
  <2> QED
    BY <2>2, <2>4, <2>6
<1>6. \A r \in Sockets \ {s} : Replies(r, "event")' = Replies(r, "event")
  BY <1>1 DEF Replies, WireType
<1>7. Carrying' = Carrying \ {s} /\ s \in Carrying /\ Carrying \in SUBSET Sockets
  BY <1>2, <1>5, <1>6 DEF Carrying, Replies
<1> DEFINE a == Cardinality(Carrying')
           b == Cardinality(Carrying)
<1>8. a \in Nat /\ b \in Nat /\ a = b - 1
  BY <1>7, CarryingFinite, FS_RemoveElement
<1>9. event.copies \in Nat /\ b <= event.copies
      /\ \A l \in Listeners : heard[l] + b <= event.copies
  BY <1>1 DEF WireType, HeardInv
<1> HIDE DEF a, b
<1>10. a <= event.copies /\ \A l \in Listeners : heard'[l] + a <= event.copies
  BY <1>3, <1>8, <1>9
<1>11. HeardInv'
  BY <1>1, <1>5, <1>6, <1>10 DEF HeardInv, a
<1>12. QuietUp /\ NoNewIds /\ Connected' = Connected
  BY <1>1, SameUp, SameIds DEF Connected
<1> QED
  BY <1>2, <1>4, <1>11, <1>12, QuietBrowser

\* A pong, or the error that answers a subscribe frame.
LEMMA ReceiveOther ==
    ASSUME IInv, NEW s \in Sockets, s2c[s] # <<>>, s2c' = [s2c EXCEPT ![s] = Tail(@)],
           ponged' \in BOOLEAN,
           state' \in {state, IF state = "degraded" THEN "connected" ELSE state},
           UNCHANGED <<sock, sub, mounted, attempts, timers, beats, cs, retried, heard,
                       c2s, up, gateway, nextId, event>>
    PROVE  IInv'
<1>1. TypeOK /\ WireType /\ HeardInv
  BY DEF IInv
<1>2. QuietDown /\ QuietEvents /\ s2c' \in [Sockets -> Seq(ToBrowser)]
  BY <1>1, TakenDown
<1>3. state' \in {"connecting", "connected", "reconnecting", "disconnected", "degraded"}
  BY <1>1, TypesNow
<1>4. TypeOK' /\ WireType'
  BY <1>1, <1>2, <1>3, TypesNow, KeepsTypes
<1>5. HeardInv'
  BY <1>1, <1>2, <1>4, QuietHeard
<1>6. QuietUp /\ NoNewIds /\ (Connected' => Connected)
  BY <1>1, SameUp, SameIds DEF Connected
<1> QED
  BY <1>2, <1>4, <1>5, <1>6, QuietBrowser

LEMMA ReceiveStep == ASSUME IInv, NEW s \in Sockets, Receive(s) PROVE IInv'
<1>1. ponged \in BOOLEAN
  BY TypesNow DEF IInv
<1>2. CASE Head(s2c[s]).type = "ack"
  BY <1>2, ReceiveAck DEF Receive
<1>3. CASE Head(s2c[s]).type = "event"
  BY <1>3, ReceiveEvent DEF Receive
<1>4. CASE Head(s2c[s]).type \in {"error", "pong"}
  BY <1>1, <1>4, ReceiveOther DEF Receive
<1> QED
  BY <1>2, <1>3, <1>4 DEF Receive

-----------------------------------------------------------------------------
(* Requests that are sent *)

\* The frames g are sent on this.socket, or dropped.
Sends(g) ==
    c2s' = c2s \/ (sock \in Sockets /\ c2s' = [c2s EXCEPT ![sock] = c2s[sock] \o g])

LEMMA SendsFacts ==
    ASSUME WireType, NEW g \in Seq(FromBrowser), Sends(g), NEW s \in Sockets, NEW t,
           NEW i \in Requests(s, t)'
    PROVE  \/ i \in Requests(s, t) /\ c2s'[s][i] = c2s[s][i]
           \/ /\ s = sock /\ i - Len(c2s[s]) \in DOMAIN g /\ i \in Int /\ Len(c2s[s]) \in Int
              /\ c2s'[s][i] = g[i - Len(c2s[s])] /\ g[i - Len(c2s[s])].type = t
<1>1. i \in DOMAIN c2s'[s] /\ c2s'[s][i].type = t
  BY DEF Requests
<1>2. CASE c2s'[s] = c2s[s]
  BY <1>1, <1>2 DEF Requests
<1>3. CASE c2s'[s] # c2s[s]
  <2>1. s = sock /\ c2s'[s] = c2s[s] \o g /\ c2s[s] \in Seq(FromBrowser)
    BY <1>3 DEF Sends, WireType
  <2>2. \/ i \in DOMAIN c2s[s] /\ c2s'[s][i] = c2s[s][i]
        \/ /\ i - Len(c2s[s]) \in DOMAIN g /\ c2s'[s][i] = g[i - Len(c2s[s])]
    BY <1>1, <2>1, ConcatFacts
  <2>3. i \in Int /\ Len(c2s[s]) \in Int
    <3>1. c2s'[s] \in Seq(FromBrowser)
      BY <2>1, ConcatFacts
    <3> QED
      BY <1>1, <2>1, <3>1, SeqFacts
  <2> QED
    BY <1>1, <2>1, <2>2, <2>3 DEF Requests
<1> QED
  BY <1>2, <1>3

\* The ids of c are what they were, or c is given a new one, or has none.
Given(c) ==
    \/ sub'[c].pending = sub[c].pending /\ sub'[c].serverId = sub[c].serverId
    \/ /\ sub'[c].serverId = 0
       /\ sub'[c].pending = 0 \/ (nextId <= sub'[c].pending /\ sub'[c].pending < nextId')

\* The frames are subscribe frames with new ids, or unsubscribe frames for none in use.
Fit(g) ==
    /\ \A i, k \in DOMAIN g : g[i].type = "subscribe" /\ g[k].type = "subscribe"
                                /\ g[i].id = g[k].id => i = k
    /\ \A i \in DOMAIN g : g[i].type = "subscribe" =>
        /\ nextId <= g[i].id /\ g[i].id < nextId'
        /\ \A c \in Channels : g[i].id = sub'[c].pending => g[i].channel = c
    /\ \A i \in DOMAIN g : g[i].type = "unsubscribe" =>
        /\ g[i].id < nextId
        /\ \A c \in Channels : g[i].id \notin Ids(c)'

LEMMA AskIds ==
    ASSUME TypeOK, WireType, TypeOK', WireType', IdInv, QuietDown, held' = held,
           NEW g \in Seq(FromBrowser), Sends(g), Fit(g), nextId <= nextId',
           \A c \in Channels : Given(c),
           \A c, d \in Channels :
             sub'[c].pending >= nextId /\ sub'[c].pending = sub'[d].pending => c = d
    PROVE  IdInv'
<1>1. nextId \in Nat /\ nextId' \in Nat /\ nextId >= 1
  BY DEF TypeOK, WireType
<1>2. ASSUME NEW c \in Channels
      PROVE  /\ Ids(c)' \subseteq Nat /\ Ids(c) \subseteq Nat
             /\ \/ Ids(c)' = Ids(c)
                \/ Ids(c)' = {}
                \/ nextId <= sub'[c].pending /\ sub'[c].pending < nextId'
                   /\ Ids(c)' = {sub'[c].pending}
  <2>1. /\ sub[c].pending \in Nat /\ sub[c].serverId \in Nat
        /\ sub'[c].pending \in Nat /\ sub'[c].serverId \in Nat
    BY DEF TypeOK
  <2> QED
    BY <1>1, <2>1 DEF Given, Ids
<1>3. ASSUME NEW c \in Channels, NEW k \in Ids(c)' PROVE k < nextId'
  BY <1>1, <1>2 DEF IdInv
<1>4. ASSUME NEW c \in Channels, NEW d \in Channels, c # d, NEW k \in Ids(c)', k \in Ids(d)'
      PROVE  FALSE
  <2>1. k \in Nat
    BY <1>2
  <2>2. k < nextId => k \in Ids(c) /\ k \in Ids(d)
    BY <1>1, <1>2, <1>4, <2>1
  <2>3. ~(k < nextId) => k = sub'[c].pending /\ k = sub'[d].pending
    BY <1>1, <1>2, <1>4, <2>1 DEF IdInv
  <2> QED
    BY <1>1, <1>4, <2>1, <2>2, <2>3 DEF IdInv
<1>5. ASSUME NEW s \in Sockets, NEW t \in {"subscribe", "unsubscribe"}, NEW i \in Requests(s, t)'
      PROVE  c2s'[s][i].id < nextId'
  <2>1. CASE i \in Requests(s, t) /\ c2s'[s][i] = c2s[s][i]
    <3>1. c2s[s][i].id < nextId /\ c2s[s][i].id \in Nat
      <4>1. i \in DOMAIN c2s[s] /\ c2s[s][i].type = t
        BY <2>1 DEF Requests
      <4>2. c2s[s][i] \in FromBrowser
        BY <4>1, FrameFacts
      <4>3. c2s[s][i] \in SubscribeFrames \cup UnsubscribeFrames
        BY <4>1, <4>2, SubscribeKind, UnsubscribeKind
      <4>4. c2s[s][i].id \in Nat
        BY <4>3, RuntimeWsAssumption DEF SubscribeFrames, UnsubscribeFrames
      <4> QED
        BY <2>1, <4>4 DEF IdInv
    <3> QED
      BY <1>1, <2>1, <3>1
  <2>2. CASE ~(i \in Requests(s, t) /\ c2s'[s][i] = c2s[s][i])
    <3>1. PICK j \in DOMAIN g : c2s'[s][i] = g[j] /\ g[j].type = t
      BY <2>2, SendsFacts
    <3>2. g[j] \in FromBrowser
      BY <3>1, SeqFacts
    <3>3. g[j] \in SubscribeFrames \cup UnsubscribeFrames
      BY <3>1, <3>2, SubscribeKind, UnsubscribeKind
    <3>4. g[j].id \in Nat
      BY <3>3, RuntimeWsAssumption DEF SubscribeFrames, UnsubscribeFrames
    <3>5. g[j].id < nextId \/ g[j].id < nextId'
      BY <3>1 DEF Fit
    <3> QED
      BY <1>1, <3>1, <3>4, <3>5
  <2> QED
    BY <2>1, <2>2
<1>6. ASSUME NEW s \in Sockets, NEW i \in Replies(s, "ack")' PROVE s2c'[s][i].id < nextId'
  <2>1. PICK m \in Replies(s, "ack") : s2c[s][m] = s2c'[s][i]
    BY <1>6, DownStep DEF QuietDown
  <2>2. s2c[s][m].id \in Nat
    <3>1. m \in DOMAIN s2c[s] /\ s2c[s][m].type = "ack"
      BY <2>1 DEF Replies
    <3>2. s2c[s][m] \in Answers
      BY <3>1, FrameFacts, AckKind
    <3> QED
      BY <3>2, RuntimeWsAssumption DEF Answers
  <2>3. s2c[s][m].id < nextId
    BY <2>1 DEF IdInv
  <2> QED
    BY <1>1, <2>1, <2>2, <2>3
<1>7. ASSUME NEW s \in Sockets, NEW k \in held'[s] PROVE k < nextId'
  <2>1. k \in 1..MaxFrames /\ k < nextId
    BY <1>7 DEF TypeOK, IdInv
  <2>2. k \in Nat
    BY <2>1, IdFacts
  <2> QED
    BY <1>1, <2>1, <2>2
<1> QED
  BY <1>3, <1>4, <1>5, <1>6, <1>7 DEF IdInv

LEMMA RequestIds ==
    ASSUME TypeOK, WireType, NEW s \in Sockets, NEW t \in {"subscribe", "unsubscribe"},
           NEW i \in Requests(s, t)
    PROVE  c2s[s][i].id \in Nat /\ (t = "subscribe" => c2s[s][i].id # 0)
<1>1. i \in DOMAIN c2s[s] /\ c2s[s][i].type = t
  BY DEF Requests
<1>2. c2s[s][i] \in FromBrowser
  BY <1>1, FrameFacts
<1>3. CASE t = "subscribe"
  <2>1. c2s[s][i] \in SubscribeFrames
    BY <1>1, <1>2, <1>3, SubscribeKind
  <2> QED
    BY <2>1, RuntimeWsAssumption DEF SubscribeFrames
<1>4. CASE t = "unsubscribe"
  <2>1. c2s[s][i] \in UnsubscribeFrames
    BY <1>1, <1>2, <1>4, UnsubscribeKind
  <2> QED
    BY <1>4, <2>1, RuntimeWsAssumption DEF UnsubscribeFrames
<1> QED
  BY <1>3, <1>4

LEMMA AckIds ==
    ASSUME TypeOK, WireType, NEW s \in Sockets, NEW i \in Replies(s, "ack")
    PROVE  s2c[s][i].id \in Nat /\ s2c[s][i].id # 0
<1>1. i \in DOMAIN s2c[s] /\ s2c[s][i].type = "ack"
  BY DEF Replies
<1>2. s2c[s][i] \in Answers
  BY <1>1, FrameFacts, AckKind
<1> QED
  BY <1>2, RuntimeWsAssumption DEF Answers

\* What is pending and was asked for before is what was pending.
LEMMA OldPending ==
    ASSUME TypeOK, WireType, NEW c \in Channels, Given(c), NEW k \in Nat, k # 0, k < nextId
    PROVE  /\ k = sub'[c].pending => sub'[c].pending = sub[c].pending
                                     /\ sub'[c].serverId = sub[c].serverId
           /\ k \in Ids(c)' => k \in Ids(c)
<1>1. nextId \in Nat
  BY DEF TypeOK
<1> QED
  BY <1>1 DEF Given, Ids

LEMMA AskRequests ==
    ASSUME TypeOK, WireType, TypeOK', WireType', IdInv, RequestInv, held' = held,
           NEW g \in Seq(FromBrowser), Sends(g), Fit(g),
           \A c \in Channels : Given(c)
    PROVE  RequestInv'
<1>1. nextId \in Nat
  BY DEF TypeOK
<1>2. ASSUME NEW s \in Sockets, NEW i \in Requests(s, "subscribe")'
      PROVE  \/ /\ i \in Requests(s, "subscribe") /\ c2s'[s][i] = c2s[s][i]
                /\ c2s[s][i].id \in Nat /\ c2s[s][i].id # 0 /\ c2s[s][i].id < nextId
             \/ /\ s = sock /\ i - Len(c2s[s]) \in DOMAIN g /\ i \in Int /\ Len(c2s[s]) \in Int
                /\ c2s'[s][i] = g[i - Len(c2s[s])] /\ g[i - Len(c2s[s])].type = "subscribe"
                /\ nextId <= c2s'[s][i].id /\ c2s'[s][i].id \in Nat
  <2>1. CASE i \in Requests(s, "subscribe") /\ c2s'[s][i] = c2s[s][i]
    BY <2>1, RequestIds DEF IdInv
  <2>2. CASE ~(i \in Requests(s, "subscribe") /\ c2s'[s][i] = c2s[s][i])
    <3>1. /\ s = sock /\ i - Len(c2s[s]) \in DOMAIN g /\ i \in Int /\ Len(c2s[s]) \in Int
          /\ c2s'[s][i] = g[i - Len(c2s[s])] /\ g[i - Len(c2s[s])].type = "subscribe"
      BY <2>2, SendsFacts
    <3>2. g[i - Len(c2s[s])] \in FromBrowser
      BY <3>1, SeqFacts
    <3>3. g[i - Len(c2s[s])] \in SubscribeFrames
      BY <3>1, <3>2, SubscribeKind
    <3>4. c2s'[s][i].id \in Nat
      BY <3>1, <3>3, RuntimeWsAssumption DEF SubscribeFrames
    <3>5. nextId <= c2s'[s][i].id
      BY <3>1 DEF Fit
    <3> QED
      BY <3>1, <3>4, <3>5
  <2> QED
    BY <2>1, <2>2
<1>3. ASSUME NEW s \in Sockets, NEW r \in Sockets, NEW i \in Requests(s, "subscribe")',
             NEW j \in Requests(r, "subscribe")', c2s'[s][i].id = c2s'[r][j].id
      PROVE  s = r /\ i = j
  <2>1. CASE c2s'[s][i].id < nextId
    <3>1. /\ i \in Requests(s, "subscribe") /\ c2s'[s][i] = c2s[s][i]
          /\ j \in Requests(r, "subscribe") /\ c2s'[r][j] = c2s[r][j]
      BY <1>1, <1>2, <1>3, <2>1
    <3> QED
      BY <1>3, <3>1 DEF RequestInv
  <2>2. CASE ~(c2s'[s][i].id < nextId)
    <3>1. /\ s = sock /\ r = sock
          /\ i - Len(c2s[s]) \in DOMAIN g /\ j - Len(c2s[s]) \in DOMAIN g
          /\ i \in Int /\ j \in Int /\ Len(c2s[s]) \in Int
          /\ c2s'[s][i] = g[i - Len(c2s[s])] /\ g[i - Len(c2s[s])].type = "subscribe"
          /\ c2s'[r][j] = g[j - Len(c2s[s])] /\ g[j - Len(c2s[s])].type = "subscribe"
      BY <1>1, <1>2, <1>3, <2>2
    <3>2. i - Len(c2s[s]) = j - Len(c2s[s])
      BY <1>3, <3>1 DEF Fit
    <3> QED
      BY <3>1, <3>2
  <2> QED
    BY <2>1, <2>2
<1>4. ASSUME NEW s \in Sockets, NEW i \in Requests(s, "subscribe")', NEW r \in Sockets
      PROVE  c2s'[s][i].id \notin held'[r]
  <2>1. \A k \in held[r] : k \in Nat /\ k < nextId
    BY IdFacts DEF TypeOK, IdInv
  <2> QED
    BY <1>1, <1>2, <1>4, <2>1 DEF RequestInv
<1>5. ASSUME NEW s \in Sockets, NEW i \in Requests(s, "subscribe")', NEW c \in Channels,
             c2s'[s][i].id = sub'[c].pending
      PROVE  c2s'[s][i].channel = c
  <2>1. CASE c2s'[s][i].id < nextId
    <3>1. /\ i \in Requests(s, "subscribe") /\ c2s'[s][i] = c2s[s][i]
          /\ c2s[s][i].id \in Nat /\ c2s[s][i].id # 0 /\ c2s[s][i].id < nextId
      BY <1>1, <1>2, <2>1
    <3>2. c2s[s][i].id = sub[c].pending
      BY <1>5, <3>1, OldPending
    <3> QED
      BY <3>1, <3>2 DEF RequestInv
  <2>2. CASE ~(c2s'[s][i].id < nextId)
    <3>1. /\ i - Len(c2s[s]) \in DOMAIN g /\ c2s'[s][i] = g[i - Len(c2s[s])]
          /\ g[i - Len(c2s[s])].type = "subscribe"
      BY <1>1, <1>2, <2>2
    <3> QED
      BY <1>5, <3>1 DEF Fit
  <2> QED
    BY <2>1, <2>2
<1>6. ASSUME NEW s \in Sockets, NEW c \in Channels, NEW i \in Requests(s, "unsubscribe")'
      PROVE  c2s'[s][i].id \notin Ids(c)'
  <2>1. CASE i \in Requests(s, "unsubscribe") /\ c2s'[s][i] = c2s[s][i]
    <3>1. c2s[s][i].id \in Nat /\ c2s[s][i].id < nextId /\ c2s[s][i].id \notin Ids(c)
      BY <2>1, RequestIds DEF IdInv, RequestInv
    <3>2. CASE c2s[s][i].id = 0
      BY <2>1, <3>2 DEF Ids
    <3>3. CASE c2s[s][i].id # 0
      BY <2>1, <3>1, <3>3, OldPending
    <3> QED
      BY <3>2, <3>3
  <2>2. CASE ~(i \in Requests(s, "unsubscribe") /\ c2s'[s][i] = c2s[s][i])
    <3>1. PICK j \in DOMAIN g : c2s'[s][i] = g[j] /\ g[j].type = "unsubscribe"
      BY <2>2, SendsFacts
    <3> QED
      BY <3>1 DEF Fit
  <2> QED
    BY <2>1, <2>2
<1> QED
  BY <1>3, <1>4, <1>5, <1>6 DEF RequestInv

LEMMA AskAcks ==
    ASSUME TypeOK, WireType, TypeOK', IdInv, AckInv, QuietDown,
           UNCHANGED <<registered, held, subscriptions>>, \A c \in Channels : Given(c)
    PROVE  AckInv'
<1> SUFFICES ASSUME NEW s \in registered, NEW c \in Channels, NEW i \in Replies(s, "ack")',
                    s2c'[s][i].id = sub'[c].pending
             PROVE  Has(s, sub[c].pending, c)'
  BY DEF AckInv
<1>1. s \in Sockets
  BY DEF TypeOK
<1>2. PICK m \in Replies(s, "ack") : s2c[s][m] = s2c'[s][i]
  BY <1>1, DownStep DEF QuietDown
<1>3. s2c[s][m].id \in Nat /\ s2c[s][m].id # 0 /\ s2c[s][m].id < nextId
  BY <1>1, <1>2, AckIds DEF IdInv
<1>4. sub'[c].pending = sub[c].pending
  BY <1>2, <1>3, OldPending
<1>5. Has(s, sub[c].pending, c)
  BY <1>2, <1>4 DEF AckInv
<1> QED
  BY <1>4, <1>5 DEF Has

\* No id is known, and every one waited for is new.
AllRenewed ==
    \A c \in Channels :
        /\ sub'[c].serverId = 0
        /\ sub'[c].pending = 0 \/ nextId <= sub'[c].pending

LEMMA AskCurrent ==
    ASSUME TypeOK, WireType, TypeOK', IdInv, CurrentInv, QuietDown,
           UNCHANGED <<registered, held, subscriptions>>,
           NEW g \in Seq(FromBrowser), Sends(g),
           \A c \in Channels : Given(c), sock' = sock,
           Connected' => Connected \/ AllRenewed,
           sock \in Sockets /\ cs[sock] \notin {"unused", "connecting"} =>
             cs'[sock] \notin {"unused", "connecting"}
    PROVE  CurrentInv'
<1> SUFFICES ASSUME Connected' PROVE CurrentInv'
  BY DEF CurrentInv
<1>1. nextId \in Nat
  BY DEF TypeOK
<1>2. ASSUME NEW s \in Sockets, NEW c \in Channels, NEW i \in Requests(s, "subscribe")',
             c2s'[s][i].id = sub'[c].pending
      PROVE  s = sock
  <2>1. CASE i \in Requests(s, "subscribe") /\ c2s'[s][i] = c2s[s][i]
    <3>1. c2s[s][i].id \in Nat /\ c2s[s][i].id # 0 /\ c2s[s][i].id < nextId
      BY <2>1, RequestIds DEF IdInv
    <3>2. sub'[c].pending = sub[c].pending
      BY <1>2, <2>1, <3>1, OldPending
    <3>3. Connected
      BY <1>1, <1>2, <2>1, <3>1 DEF AllRenewed
    <3> QED
      BY <1>2, <2>1, <3>2, <3>3 DEF CurrentInv
  <2>2. CASE ~(i \in Requests(s, "subscribe") /\ c2s'[s][i] = c2s[s][i])
    BY <2>2, SendsFacts
  <2> QED
    BY <2>1, <2>2
<1>3. ASSUME NEW s \in Sockets, NEW c \in Channels, NEW i \in Replies(s, "ack")',
             s2c'[s][i].id = sub'[c].pending
      PROVE  s = sock
  <2>1. PICK m \in Replies(s, "ack") : s2c[s][m] = s2c'[s][i]
    BY <1>3, DownStep DEF QuietDown
  <2>2. s2c[s][m].id \in Nat /\ s2c[s][m].id # 0 /\ s2c[s][m].id < nextId
    BY <2>1, AckIds DEF IdInv
  <2>3. sub'[c].pending = sub[c].pending
    BY <1>3, <2>1, <2>2, OldPending
  <2>4. Connected
    BY <1>1, <1>3, <2>1, <2>2 DEF AllRenewed
  <2> QED
    BY <1>3, <2>1, <2>3, <2>4 DEF CurrentInv
<1>4. ASSUME NEW c \in Channels, sub'[c].serverId # 0
      PROVE  Confirmed(sub[c].serverId, c)'
  <2>1. Connected /\ sub'[c].serverId = sub[c].serverId
    BY <1>4 DEF Given, AllRenewed
  <2>2. Confirmed(sub[c].serverId, c)
    BY <1>4, <2>1 DEF CurrentInv
  <2> QED
    BY <2>1, <2>2 DEF Confirmed, Has
<1> QED
  BY <1>2, <1>3, <1>4 DEF CurrentInv

\* All of it for a step that asks.
LEMMA AskStep ==
    ASSUME IInv, TypeOK', WireType', UNCHANGED gateway, QuietDown, HeardInv',
           NEW g \in Seq(FromBrowser), Sends(g), Fit(g), nextId <= nextId',
           \A c \in Channels : Given(c),
           \A c, d \in Channels :
             sub'[c].pending >= nextId /\ sub'[c].pending = sub'[d].pending => c = d,
           sock' = sock,
           Connected' => Connected \/ AllRenewed,
           sock \in Sockets /\ cs[sock] \notin {"unused", "connecting"} =>
             cs'[sock] \notin {"unused", "connecting"}
    PROVE  IInv'
<1>1. UNCHANGED <<registered, held, subscriptions>>
  BY DEF gateway
<1>2. TypeOK /\ WireType /\ IdInv /\ RequestInv /\ AckInv /\ CurrentInv
  BY DEF IInv
<1>3. NoOrphanSubscription'
  BY <1>1 DEF IInv, NoOrphanSubscription
<1>4. IdInv'
  BY <1>1, <1>2, AskIds
<1>5. RequestInv'
  BY <1>1, <1>2, AskRequests
<1>6. AckInv'
  BY <1>1, <1>2, AskAcks
<1>7. CurrentInv'
  BY <1>1, <1>2, AskCurrent
<1> QED
  BY <1>3, <1>4, <1>5, <1>6, <1>7 DEF IInv

LEMMA SentSends ==
    ASSUME TypeOK, WireType, NEW g, c2s' = Sent(g)
    PROVE  Sends(g)
BY DEF Sent, Sends, TypeOK, WireType

LEMMA BlankRecord == Blank \in SubRecord /\ Blank.pending = 0 /\ Blank.serverId = 0
BY DEF Blank, SubRecord

\* Fewer hooks, or more of a channel that has its subscription.
LEMMA ShareStep ==
    ASSUME IInv, mounted' \subseteq Listeners,
           UNCHANGED <<state, sock, sub, attempts, timers, beats, ponged, cs, retried, heard,
                       c2s, s2c, up, gateway, nextId, event>>
    PROVE  IInv'
<1>1. TypeOK /\ WireType /\ HeardInv
  BY DEF IInv
<1>2. TypeOK' /\ WireType'
  BY <1>1, TypesNow, KeepsTypes
<1>3. QuietUp /\ QuietDown /\ QuietEvents /\ NoNewIds /\ Connected' = Connected
  BY <1>1, SameUp, SameDown, SameIds DEF Connected
<1>4. HeardInv'
  BY <1>1, <1>2, <1>3, QuietHeard
<1> QED
  BY <1>2, <1>3, <1>4, QuietBrowser

\* The id that goes with the unsubscribe frame is of no other channel.
LEMMA UnmountStep == ASSUME IInv, NEW l \in Listeners, Unmount(l) PROVE IInv'
<1> DEFINE c == ChannelOf[l]
           u == [type |-> "unsubscribe", id |-> sub[c].serverId]
<1>1. TypeOK /\ WireType /\ HeardInv /\ IdInv
  BY DEF IInv
<1>2. /\ mounted' = mounted \ {l} /\ mounted' \subseteq Listeners
      /\ UNCHANGED <<state, sock, attempts, timers, beats, ponged, cs, retried, heard,
                      s2c, up, gateway, nextId, event>>
  BY <1>1, TypesNow DEF Unmount
<1>3. CASE UNCHANGED <<sub, c2s>>
  BY <1>2, <1>3, ShareStep
<1>4. CASE sub' = [sub EXCEPT ![c] = Blank] /\ c2s' = Sent(<<u>>)
  <2>1. c \in Channels /\ sub \in [Channels -> SubRecord]
    BY <1>1, TypesNow, RuntimeWsAssumption DEF SubRecord
  <2>2. /\ sub' \in [Channels -> SubRecord]
        /\ \A d \in Channels : sub'[d] = IF d = c THEN Blank ELSE sub[d]
    BY <1>4, <2>1, BlankRecord
  <2>3. nextId \in 1..(MaxFrames + 1) /\ nextId \in Nat /\ nextId >= 1
    BY <1>1 DEF TypeOK, WireType
  <2>4. sub[c].serverId \in 0..MaxFrames /\ sub[c].serverId < nextId
    <3>1. sub[c].serverId \in Nat
      BY <2>1 DEF SubRecord
    <3>2. sub[c].serverId = 0 \/ sub[c].serverId < nextId
      BY <1>1, <2>1 DEF IdInv, Ids
    <3> QED
      BY <2>3, <3>1, <3>2, RuntimeWsAssumption
  <2>5. u \in FromBrowser /\ u.type = "unsubscribe" /\ u.id = sub[c].serverId
    BY <2>4, FrameTypes
  <2>6. <<u>> \in Seq(FromBrowser) /\ Sends(<<u>>)
    BY <1>1, <1>4, <2>5, SentSends
  <2>7. c2s' \in [Sockets -> Seq(FromBrowser)]
    BY <1>1, <1>4, <2>6, SentType
  <2>8. TypeOK' /\ WireType'
    BY <1>1, <1>2, <2>2, <2>7, TypesNow, KeepsTypes DEF SubRecord
  <2>9. ASSUME NEW d \in Channels
        PROVE  /\ Given(d) /\ sub[c].serverId \notin Ids(d)'
               /\ sub'[d].pending = 0 \/ sub'[d].pending < nextId
    <3>1. CASE d = c
      BY <2>2, <3>1, BlankRecord DEF Given, Ids
    <3>2. CASE d # c
      <4>1. sub'[d] = sub[d] /\ Ids(d)' = Ids(d)
        BY <2>2, <3>2 DEF Ids
      <4>2. sub[c].serverId \notin Ids(d)
        BY <1>1, <2>1, <3>2 DEF IdInv, Ids
      <4> QED
        BY <1>1, <4>1, <4>2 DEF Given, IdInv, Ids
    <3> QED
      BY <3>1, <3>2
  <2>10. Fit(<<u>>)
    <3>1. \A i \in DOMAIN <<u>> : i = 1 /\ <<u>>[i] = u
      OBVIOUS
    <3> HIDE DEF u
    <3> QED
      BY <2>4, <2>5, <2>9, <3>1 DEF Fit
  <2>11. QuietDown /\ QuietEvents
    BY <1>1, <1>2, SameDown
  <2>12. HeardInv'
    BY <1>1, <1>2, <2>8, <2>11, QuietHeard
  <2>13. \A d, e \in Channels :
           sub'[d].pending >= nextId /\ sub'[d].pending = sub'[e].pending => d = e
    <3>1. \A d \in Channels : sub'[d].pending \in Nat
      BY <2>2 DEF SubRecord
    <3> QED
      BY <2>3, <2>9, <3>1
  <2>14. Connected' = Connected
    BY <1>2 DEF Connected
  <2>15. PICK g \in Seq(FromBrowser) : Sends(g) /\ Fit(g)
    BY <2>6, <2>10
  <2>16. /\ UNCHANGED gateway /\ nextId <= nextId' /\ sock' = sock /\ cs' = cs
         /\ \A d \in Channels : Given(d)
    BY <1>2, <2>3, <2>9
  <2> QED
    BY <2>8, <2>11, <2>12, <2>13, <2>14, <2>15, <2>16, AskStep
<1> QED
  BY <1>3, <1>4 DEF Unmount

LEMMA MountStep == ASSUME IInv, NEW l \in Listeners, Mount(l) PROVE IInv'
<1> DEFINE c == ChannelOf[l]
           new == [types |-> TypesOf[l], pending |-> nextId, serverId |-> 0]
           f == SubscribeFrame(nextId, c, TypesOf[l])
<1>1. TypeOK /\ WireType /\ HeardInv /\ IdInv
  BY DEF IInv
<1>2. /\ mounted' \subseteq Listeners /\ state = "connected"
      /\ UNCHANGED <<state, sock, attempts, timers, beats, ponged, cs, retried, heard,
                      s2c, up, gateway, event>>
  BY <1>1, TypesNow DEF Mount
<1>3. CASE UNCHANGED <<sub, c2s, nextId>>
  BY <1>2, <1>3, ShareStep
<1>4. CASE /\ nextId <= MaxFrames /\ nextId' = nextId + 1
           /\ sub' = [sub EXCEPT ![c] = new] /\ c2s' = Sent(<<f>>)
  <2>1. /\ c \in Channels /\ sub \in [Channels -> SubRecord] /\ TypesOf[l] \in SUBSET Types
        /\ nextId \in 1..MaxFrames /\ nextId \in Nat /\ nextId >= 1
        /\ nextId' \in 1..(MaxFrames + 1)
    <3>1. nextId \in 1..(MaxFrames + 1)
      BY <1>1 DEF WireType
    <3>2. MaxFrames \in Nat
      BY RuntimeWsAssumption
    <3>3. c \in Channels /\ TypesOf[l] \in SUBSET Types
      BY RuntimeWsAssumption
    <3>4. sub \in [Channels -> SubRecord]
      BY <1>1, TypesNow DEF SubRecord
    <3>5. nextId \in 1..MaxFrames /\ nextId \in Nat /\ nextId >= 1
          /\ nextId + 1 \in 1..(MaxFrames + 1)
      BY <1>4, <3>1, <3>2
    <3> QED
      BY <1>4, <3>3, <3>4, <3>5
  <2>2. new \in SubRecord /\ new.pending = nextId /\ new.serverId = 0
    BY <2>1 DEF SubRecord
  <2>3. f \in FromBrowser /\ f.type = "subscribe" /\ f.id = nextId /\ f.channel = c
    BY <2>1, FrameTypes DEF SubscribeFrame
  <2> HIDE DEF new, f
  <2>4. /\ sub' \in [Channels -> SubRecord]
        /\ \A d \in Channels : sub'[d] = IF d = c THEN new ELSE sub[d]
    BY <1>4, <2>1, <2>2
  <2>5. <<f>> \in Seq(FromBrowser) /\ Sends(<<f>>)
    BY <1>1, <1>4, <2>3, SentSends
  <2>6. c2s' \in [Sockets -> Seq(FromBrowser)]
    BY <1>1, <1>4, <2>5, SentType
  <2>7. TypeOK' /\ WireType'
    BY <1>1, <1>2, <2>1, <2>4, <2>6, TypesNow, KeepsTypes DEF SubRecord
  <2>8. ASSUME NEW d \in Channels
        PROVE  /\ Given(d) /\ sub'[d].pending \in Nat
               /\ sub'[d].pending >= nextId => d = c
    <3>1. CASE d = c
      BY <1>4, <2>1, <2>2, <2>4, <3>1 DEF Given
    <3>2. CASE d # c
      <4>1. sub'[d] = sub[d] /\ sub[d].pending \in Nat
        BY <2>1, <2>4, <3>2 DEF SubRecord
      <4>2. sub[d].pending = 0 \/ sub[d].pending < nextId
        BY <1>1 DEF IdInv, Ids
      <4> QED
        BY <2>1, <4>1, <4>2 DEF Given
    <3> QED
      BY <3>1, <3>2
  <2>9. Fit(<<f>>)
    <3>1. \A i \in DOMAIN <<f>> : i = 1 /\ <<f>>[i] = f
      OBVIOUS
    <3> QED
      BY <1>4, <2>1, <2>3, <2>8, <3>1 DEF Fit
  <2>10. QuietDown /\ QuietEvents
    BY <1>1, <1>2, SameDown
  <2>11. HeardInv'
    BY <1>1, <1>2, <2>7, <2>10, QuietHeard
  <2>12. \A d, e \in Channels :
           sub'[d].pending >= nextId /\ sub'[d].pending = sub'[e].pending => d = e
    BY <2>8
  <2>13. Connected
    BY <1>2 DEF Connected
  <2>14. PICK g \in Seq(FromBrowser) : Sends(g) /\ Fit(g)
    BY <2>5, <2>9
  <2>15. /\ UNCHANGED gateway /\ nextId <= nextId' /\ sock' = sock /\ cs' = cs
         /\ \A d \in Channels : Given(d)
    BY <1>2, <1>4, <2>1, <2>8
  <2> QED
    BY <2>7, <2>10, <2>11, <2>12, <2>13, <2>14, <2>15, AskStep
<1> QED
  BY <1>3, <1>4 DEF Mount

LEMMA RenewedRecord ==
    ASSUME NEW r \in SubRecord, NEW k \in Nat
    PROVE  LET a == [r EXCEPT !.serverId = 0, !.pending = k] IN
           a \in SubRecord /\ a.pending = k /\ a.serverId = 0
BY DEF SubRecord

LEMMA LiveFacts ==
    ASSUME NEW M \in SUBSET Listeners
    PROVE  Live(M) \in SUBSET Channels /\ Cardinality(Live(M)) \in Nat
<1>1. Live(M) \in SUBSET Channels
  BY RuntimeWsAssumption DEF Live
<1> QED
  BY <1>1, RuntimeWsAssumption, FS_Subset, FS_CardinalityType

\* A socket opens: every subscription is asked for again, under a new id.
LEMMA OnOpenStep == ASSUME IInv, NEW s \in Sockets, OnOpen(s) PROVE IInv'
<1> DEFINE live == Live(mounted)
           n == Cardinality(live)
<1>1. TypeOK /\ WireType /\ HeardInv /\ IdInv
  BY DEF IInv
<1>2. live \in SUBSET Channels /\ n \in Nat
  BY <1>1, TypesNow, LiveFacts
<1>3. PICK order \in [1..n -> live] :
        /\ \A c \in live : \E i \in 1..n : order[i] = c
        /\ sub' = [c \in Channels |->
                     IF c \in live
                     THEN [sub[c] EXCEPT !.serverId = 0,
                             !.pending = nextId - 1 + CHOOSE i \in 1..n : order[i] = c]
                     ELSE Blank]
        /\ LET frames == [i \in 1..n |->
                            SubscribeFrame(nextId + i - 1, order[i], sub[order[i]].types)]
           IN c2s' = IF sock \in up /\ (sock = s \/ cs[sock] = "open")
                     THEN [c2s EXCEPT ![sock] = @ \o frames] ELSE c2s
  BY DEF OnOpen
<1> DEFINE pos(c) == CHOOSE i \in 1..n : order[i] = c
           g == [i \in 1..n |-> SubscribeFrame(nextId + i - 1, order[i], sub[order[i]].types)]
<1>4. /\ s2c[s] # <<>> /\ s2c' = [s2c EXCEPT ![s] = Tail(@)]
      /\ cs' = [cs EXCEPT ![s] = "open"] /\ retried' = retried \ {s}
      /\ state' = "connected" /\ attempts' = 0
      /\ beats' = [live |-> beats.live + 1, handle |-> TRUE]
      /\ nextId' = nextId + n /\ nextId + n <= MaxFrames + 1
      /\ UNCHANGED <<sock, mounted, timers, ponged, heard, up, gateway, event>>
  BY DEF OnOpen
<1>5. ASSUME NEW c \in live PROVE pos(c) \in 1..n /\ order[pos(c)] = c
  BY <1>3
<1> HIDE DEF pos, live, n
<1>6. /\ nextId \in 1..(MaxFrames + 1) /\ nextId \in Nat /\ nextId >= 1
      /\ nextId' \in 1..(MaxFrames + 1)
  <2>1. nextId \in 1..(MaxFrames + 1) /\ MaxFrames \in Nat
    BY <1>1, RuntimeWsAssumption DEF WireType
  <2>2. nextId \in Nat /\ nextId >= 1 /\ nextId + n \in 1..(MaxFrames + 1)
    BY <1>2, <1>4, <2>1
  <2> QED
    BY <1>4, <2>1, <2>2
<1>7. sub \in [Channels -> SubRecord]
  BY <1>1, TypesNow DEF SubRecord
<1>8. ASSUME NEW c \in Channels
      PROVE  /\ sub'[c] \in SubRecord /\ sub'[c].serverId = 0
             /\ c \in live => sub'[c].pending = nextId - 1 + pos(c)
             /\ c \notin live => sub'[c].pending = 0
  <2>1. CASE c \in live
    <3>1. PICK k \in Nat : k = nextId - 1 + pos(c)
      BY <1>2, <1>5, <1>6, <2>1
    <3>2. sub'[c] = [sub[c] EXCEPT !.serverId = 0, !.pending = k]
      BY <1>3, <2>1, <3>1 DEF pos
    <3> DEFINE a == [sub[c] EXCEPT !.serverId = 0, !.pending = k]
    <3>3. a \in SubRecord /\ a.pending = k /\ a.serverId = 0
      BY <1>7, RenewedRecord
    <3> HIDE DEF a
    <3> QED
      BY <2>1, <3>1, <3>2, <3>3 DEF a
  <2>2. CASE c \notin live
    BY <1>3, <2>2, BlankRecord
  <2> QED
    BY <2>1, <2>2
<1>9. sub' \in [Channels -> SubRecord]
  BY <1>3, <1>8
<1>10. ASSUME NEW i \in 1..n
       PROVE  /\ g[i] \in FromBrowser /\ g[i].type = "subscribe" /\ g[i].id = nextId + i - 1
              /\ g[i].channel = order[i] /\ nextId <= g[i].id /\ g[i].id < nextId'
  <2>1. PICK k \in 1..MaxFrames : k = nextId + i - 1 /\ nextId <= k /\ k < nextId'
    BY <1>2, <1>4, <1>6, RuntimeWsAssumption
  <2>2. order[i] \in Channels /\ sub[order[i]].types \in SUBSET Types
    BY <1>2, <1>3, <1>7 DEF SubRecord
  <2>3. g[i] = SubscribeFrame(k, order[i], sub[order[i]].types)
    BY <2>1
  <2>4. SubscribeFrame(k, order[i], sub[order[i]].types) \in FromBrowser
    BY <2>2, FrameTypes
  <2> HIDE DEF g
  <2> QED
    BY <2>1, <2>3, <2>4 DEF SubscribeFrame
<1>11. DOMAIN g = 1..n
  OBVIOUS
<1>12. Sends(g)
  <2>1. c2s' = IF sock \in up /\ (sock = s \/ cs[sock] = "open")
               THEN [c2s EXCEPT ![sock] = c2s[sock] \o g] ELSE c2s
    BY <1>3
  <2>2. sock \in up => sock \in Sockets
    BY <1>1, TypesNow
  <2> HIDE DEF g
  <2> QED
    BY <2>1, <2>2 DEF Sends
<1>13. g \in Seq(FromBrowser)
  <2>1. g \in [1..n -> FromBrowser]
    BY <1>10
  <2> HIDE DEF g
  <2> QED
    BY <1>2, <2>1
<1> HIDE DEF g
<1>14. c2s' \in [Sockets -> Seq(FromBrowser)]
  <2>1. \A r \in Sockets : c2s[r] \o g \in Seq(FromBrowser)
    BY <1>1, <1>13, ConcatProperties DEF WireType
  <2> QED
    BY <1>1, <1>12, <2>1 DEF Sends, WireType
<1>15. QuietDown /\ QuietEvents /\ s2c' \in [Sockets -> Seq(ToBrowser)]
  BY <1>1, <1>4, TakenDown
<1>16. TypeOK' /\ WireType'
  <2>1. /\ cs' \in [Sockets -> {"unused", "connecting", "open", "closing", "closed"}]
        /\ retried' \subseteq Sockets /\ attempts' \in Nat
    BY <1>1, <1>4, TypesNow
  <2>2. beats' \in [live : Nat, handle : BOOLEAN] /\ beats'.live >= 1
    BY <1>1, <1>4, BeatsStart
  <2> QED
    BY <1>1, <1>4, <1>6, <1>9, <1>14, <1>15, <2>1, <2>2, TypesNow, KeepsTypes DEF SubRecord
<1>17. ASSUME NEW c \in Channels
       PROVE  Given(c) /\ (sub'[c].pending = 0 \/ nextId <= sub'[c].pending)
  <2>1. CASE c \in live
    <3>1. sub'[c].pending = nextId - 1 + pos(c) /\ pos(c) \in 1..n
      BY <1>5, <1>8, <2>1
    <3>2. nextId <= sub'[c].pending /\ sub'[c].pending < nextId'
      BY <1>2, <1>4, <1>6, <3>1
    <3> QED
      BY <1>8, <3>2 DEF Given
  <2>2. CASE c \notin live
    BY <1>8, <2>2 DEF Given
  <2> QED
    BY <2>1, <2>2
<1>18. \A c, d \in Channels :
         sub'[c].pending >= nextId /\ sub'[c].pending = sub'[d].pending => c = d
  <2> SUFFICES ASSUME NEW c \in Channels, NEW d \in Channels,
                      sub'[c].pending >= nextId, sub'[c].pending = sub'[d].pending
               PROVE  c = d
    OBVIOUS
  <2>1. c \in live /\ d \in live
    BY <1>6, <1>8
  <2>2. pos(c) = pos(d)
    BY <1>2, <1>5, <1>6, <1>8, <2>1
  <2> QED
    BY <1>5, <2>1, <2>2
<1>19. Fit(g)
  <2>1. \A i, k \in DOMAIN g : g[i].id = g[k].id => i = k
    BY <1>2, <1>6, <1>10, <1>11
  <2>2. ASSUME NEW i \in DOMAIN g, NEW c \in Channels, g[i].id = sub'[c].pending
        PROVE  g[i].channel = c
    <3>1. i \in 1..n /\ i \in Nat /\ g[i].id = nextId + i - 1 /\ nextId <= g[i].id
      BY <1>2, <1>10, <1>11
    <3>2. c \in live
      <4>1. c \notin live => sub'[c].pending = 0
        BY <1>8
      <4>2. g[i].id # 0
        BY <1>6, <3>1
      <4> QED
        BY <2>2, <4>1, <4>2
    <3>3. i = pos(c)
      <4>1. PICK j \in 1..n : j = pos(c)
        BY <1>5, <3>2
      <4>2. sub'[c].pending = nextId - 1 + j
        BY <1>8, <3>2, <4>1
      <4>3. nextId + i - 1 = nextId - 1 + j
        BY <2>2, <3>1, <4>2
      <4> QED
        BY <1>2, <1>6, <3>1, <4>1, <4>3
    <3> QED
      BY <1>5, <1>10, <3>1, <3>2, <3>3
  <2> QED
    BY <1>10, <1>11, <2>1, <2>2 DEF Fit
<1>20. HeardInv'
  BY <1>1, <1>4, <1>15, <1>16, QuietHeard
<1>21. /\ UNCHANGED gateway /\ nextId <= nextId' /\ sock' = sock
       /\ \A c \in Channels : Given(c)
       /\ AllRenewed
  BY <1>2, <1>4, <1>6, <1>8, <1>17 DEF AllRenewed
<1>22. sock \in Sockets /\ cs[sock] \notin {"unused", "connecting"} =>
         cs'[sock] \notin {"unused", "connecting"}
  BY <1>1, <1>4, TypesNow
<1> QED
  BY <1>12, <1>13, <1>15, <1>16, <1>18, <1>19, <1>20, <1>21, <1>22, AskStep

-----------------------------------------------------------------------------
(* The steps of the gateway *)

LEMMA GatewayTypes ==
    ASSUME TypeOK, WireType, UNCHANGED <<client, heard, nextId>>,
           c2s' \in [Sockets -> Seq(FromBrowser)], s2c' \in [Sockets -> Seq(ToBrowser)],
           up' \subseteq Sockets, registered' \subseteq Sockets,
           missed' \in [Sockets -> 0..MaxMissed],
           held' \in [Sockets -> SUBSET (1..MaxFrames)], refused' \subseteq 1..MaxFrames,
           subscriptions' \subseteq [id : 1..MaxFrames, channel : Channels, types : SUBSET Types],
           event'.copies \in Nat
    PROVE  TypeOK' /\ WireType'
<1>1. UNCHANGED <<state, sock, sub, mounted, attempts, timers, beats, ponged, cs, retried,
                  heard, nextId>>
  BY DEF client
<1>2. TypeOK'
  BY <1>1 DEF TypeOK
<1>3. WireType'
  BY <1>1 DEF WireType
<1> QED
  BY <1>2, <1>3

LEMMA GatewayTypesNow ==
    ASSUME TypeOK, WireType
    PROVE  /\ c2s \in [Sockets -> Seq(FromBrowser)] /\ s2c \in [Sockets -> Seq(ToBrowser)]
           /\ up \subseteq Sockets /\ registered \subseteq Sockets
           /\ missed \in [Sockets -> 0..MaxMissed]
           /\ held \in [Sockets -> SUBSET (1..MaxFrames)] /\ refused \subseteq 1..MaxFrames
           /\ subscriptions \subseteq [id : 1..MaxFrames, channel : Channels, types : SUBSET Types]
           /\ event.copies \in Nat
BY DEF TypeOK, WireType

\* Every subscription is held by a client, and what a client holds is one.
LEMMA HolderFacts ==
    ASSUME NoOrphanSubscription
    PROVE  /\ \A b \in subscriptions : \E r \in registered : b.id \in held[r]
           /\ \A r \in registered : \A k \in held[r] : \E b \in subscriptions : b.id = k
<1>1. ASSUME NEW b \in subscriptions PROVE \E r \in registered : b.id \in held[r]
  BY DEF NoOrphanSubscription
<1>2. ASSUME NEW r \in registered, NEW k \in held[r] PROVE \E b \in subscriptions : b.id = k
  BY DEF NoOrphanSubscription
<1> QED
  BY <1>1, <1>2

LEMMA HolderNext ==
    ASSUME \A b \in subscriptions' : \E r \in registered' : b.id \in held'[r],
           \A r \in registered' : \A k \in held'[r] : \E b \in subscriptions' : b.id = k,
           \A s \in Sockets \ registered' : held'[s] = {},
           \A s, r \in Sockets : s # r => held'[s] \cap held'[r] = {}
    PROVE  NoOrphanSubscription'
<1>1. {b.id : b \in subscriptions'} = UNION {held'[s] : s \in registered'}
  OBVIOUS
<1> QED
  BY <1>1 DEF NoOrphanSubscription

LEMMA MissedFacts ==
    /\ 0 \in 0..MaxMissed
    /\ \A m \in 0..MaxMissed : m + 1 < MaxMissed => m + 1 \in 0..MaxMissed
BY RuntimeWsAssumption

\* A step of the gateway that makes no subscription.
LEMMA QuietGateway ==
    ASSUME IInv, TypeOK', WireType', UNCHANGED <<client, nextId>>, QuietUp, QuietDown,
           NoOrphanSubscription', KeepsHeld, HeardInv',
           \A s \in Sockets : held'[s] \subseteq held[s],
           \A s \in registered' : s \in Sockets /\ (s \in registered \/ Replies(s, "ack")' = {}),
           \A s \in registered' : cs[s] # "connecting" => s \in registered
    PROVE  IInv'
<1>1. UNCHANGED <<state, sock, sub, mounted, cs, nextId>>
  BY DEF client
<1>2. TypeOK /\ WireType /\ IdInv /\ RequestInv /\ AckInv /\ CurrentInv
  BY DEF IInv
<1>3. NoNewIds
  BY <1>1, <1>2, SameIds
<1>4. IdInv'
  BY <1>2, <1>3, QuietIds
<1>5. RequestInv'
  BY <1>2, <1>3, QuietRequests
<1>6. AckInv'
  BY <1>2, <1>3, QuietAcks
<1>7. CurrentInv'
  BY <1>1, <1>2, <1>3, QuietCurrent DEF Connected
<1> QED
  BY <1>4, <1>5, <1>6, <1>7 DEF IInv

\* A socket that connects has no frame but its opening, and its close if refused.
LEMMA AcceptStep == ASSUME IInv, NEW s \in Sockets, Accept(s) PROVE IInv'
<1>1. TypeOK /\ WireType /\ HeardInv /\ NoOrphanSubscription
  BY DEF IInv
<1>2. /\ cs[s] = "connecting"
      /\ UNCHANGED <<client, heard, c2s, missed, held, subscriptions, refused, nextId, event>>
  BY DEF Accept
<1>3. PICK p \in {<<Opened>>, <<Opened, Close("abnormal")>>} : s2c' = [s2c EXCEPT ![s] = p]
  BY DEF Accept
<1>4. registered' \in {registered, registered \cup {s}} /\ up' \in {up, up \cup {s}}
  BY DEF Accept
<1>5. /\ p \in Seq(ToBrowser)
      /\ \A i \in DOMAIN p : p[i].type \in {"open", "close"}
  <2>1. Opened \in ToBrowser /\ Close("abnormal") \in ToBrowser
    BY FrameTypes
  <2>2. Opened.type = "open" /\ Close("abnormal").type = "close"
    BY DEF Opened, Close
  <2>3. CASE p = <<Opened>>
    BY <2>1, <2>2, <2>3
  <2>4. CASE p = <<Opened, Close("abnormal")>>
    BY <2>1, <2>2, <2>4
  <2> QED
    BY <1>3, <2>3, <2>4
<1>6. QuietDown /\ QuietEvents /\ Replies(s, "ack")' = {}
      /\ s2c' \in [Sockets -> Seq(ToBrowser)]
  <2>1. Shown(p, s2c[s], {"ack"}) /\ Shown(p, s2c[s], {"event"})
    BY <1>5 DEF Shown
  <2>2. s2c'[s] = p /\ s2c' \in [Sockets -> Seq(ToBrowser)]
    BY <1>1, <1>3, <1>5 DEF WireType
  <2>3. Replies(s, "ack")' = {}
    BY <1>5, <2>2 DEF Replies
  <2> QED
    BY <1>1, <1>3, <2>1, <2>2, <2>3, OneDown
<1>7. TypeOK' /\ WireType'
  BY <1>1, <1>2, <1>4, <1>6, GatewayTypesNow, GatewayTypes
<1>8. QuietUp
  BY <1>1, <1>2, SameUp
<1>9. HeardInv'
  BY <1>1, <1>2, <1>6, <1>7, QuietHeard
<1>10. KeepsHeld
  BY <1>2 DEF KeepsHeld, Has
<1>11. NoOrphanSubscription'
  <2>1. s \notin registered => held[s] = {}
    BY <1>1 DEF NoOrphanSubscription
  <2>2. UNION {held[r] : r \in registered'} = UNION {held[r] : r \in registered}
    BY <1>4, <2>1
  <2> QED
    BY <1>1, <1>2, <1>4, <2>2 DEF NoOrphanSubscription
<1>12. \A r \in registered' : r \in Sockets /\ (r \in registered \/ r = s)
  BY <1>1, <1>4, GatewayTypesNow
<1> QED
  BY <1>2, <1>6, <1>7, <1>8, <1>9, <1>10, <1>11, <1>12, QuietGateway

\* What a client held is gone with it, and nothing of another client's.
LEMMA Unregistered ==
    ASSUME IInv, NEW s \in Sockets, Unregister(s)
    PROVE  /\ NoOrphanSubscription' /\ KeepsHeld
           /\ \A r \in Sockets : held'[r] \subseteq held[r]
           /\ registered' \subseteq registered
           /\ held' \in [Sockets -> SUBSET (1..MaxFrames)]
           /\ missed' \in [Sockets -> 0..MaxMissed]
           /\ subscriptions' \subseteq subscriptions
<1>1. TypeOK /\ WireType /\ NoOrphanSubscription
  BY DEF IInv
<1>2. /\ registered' = registered \ {s} /\ registered \subseteq Sockets
      /\ subscriptions' = {b \in subscriptions : b.id \notin held[s]}
      /\ \A r \in Sockets : held'[r] = IF r = s THEN {} ELSE held[r]
      /\ held' \in [Sockets -> SUBSET (1..MaxFrames)]
      /\ missed' \in [Sockets -> 0..MaxMissed]
  BY <1>1, GatewayTypesNow, MissedFacts DEF Unregister
<1>3. ASSUME NEW b \in subscriptions' PROVE b.id \in UNION {held'[r] : r \in registered'}
  <2>1. PICK r \in registered : b.id \in held[r]
    BY <1>1, <1>2 DEF NoOrphanSubscription
  <2> QED
    BY <1>2, <2>1
<1>4. ASSUME NEW r \in registered', NEW k \in held'[r] PROVE \E b \in subscriptions' : b.id = k
  <2>1. r \in registered /\ r # s /\ k \in held[r] /\ r \in Sockets
    BY <1>2, <1>4
  <2>2. PICK b \in subscriptions : b.id = k
    BY <1>1, <2>1 DEF NoOrphanSubscription
  <2>3. k \notin held[s]
    BY <1>1, <2>1 DEF NoOrphanSubscription
  <2> QED
    BY <1>2, <2>2, <2>3
<1>5. {b.id : b \in subscriptions'} = UNION {held'[r] : r \in registered'}
  BY <1>3, <1>4
<1>6. NoOrphanSubscription'
  BY <1>1, <1>2, <1>5 DEF NoOrphanSubscription
<1>7. ASSUME NEW r \in registered', NEW c \in Channels, NEW k \in Nat, Has(r, k, c)
      PROVE  Has(r, k, c)'
  <2>1. r \in Sockets /\ r # s /\ k \in held[r] /\ k \in held'[r]
    BY <1>2, <1>7 DEF Has
  <2>2. k \notin held[s]
    BY <1>1, <2>1 DEF NoOrphanSubscription
  <2> QED
    BY <1>2, <1>7, <2>1, <2>2 DEF Has
<1>8. KeepsHeld
  BY <1>7 DEF KeepsHeld
<1> QED
  BY <1>2, <1>6, <1>8

LEMMA HeartbeatStep == ASSUME IInv, NEW s \in Sockets, HeartbeatCheck(s) PROVE IInv'
<1>1. TypeOK /\ WireType /\ HeardInv /\ NoOrphanSubscription
  BY DEF IInv
<1>2. UNCHANGED <<client, heard, c2s, refused, nextId, event>>
  BY DEF HeartbeatCheck
<1>3. QuietUp
  BY <1>1, <1>2, SameUp
<1>4. CASE /\ missed[s] + 1 < MaxMissed /\ missed' = [missed EXCEPT ![s] = @ + 1]
           /\ UNCHANGED <<registered, subscriptions, held, s2c, up>>
  <2>1. missed' \in [Sockets -> 0..MaxMissed]
    <3>1. missed[s] \in 0..MaxMissed
      BY <1>1, GatewayTypesNow
    <3>2. missed[s] + 1 \in 0..MaxMissed
      BY <1>4, <3>1, MissedFacts
    <3> QED
      BY <1>1, <1>4, <3>2, GatewayTypesNow
  <2>2. TypeOK' /\ WireType'
    BY <1>1, <1>2, <1>4, <2>1, GatewayTypesNow, GatewayTypes
  <2>3. QuietDown /\ QuietEvents
    BY <1>1, <1>4, SameDown
  <2>4. HeardInv'
    BY <1>1, <1>2, <2>2, <2>3, QuietHeard
  <2>5. NoOrphanSubscription' /\ KeepsHeld
    BY <1>1, <1>4 DEF NoOrphanSubscription, KeepsHeld, Has
  <2>6. \A r \in registered' : r \in Sockets /\ r \in registered
    BY <1>1, <1>4, GatewayTypesNow
  <2> QED
    BY <1>2, <1>3, <1>4, <2>2, <2>3, <2>4, <2>5, <2>6, QuietGateway
<1>5. CASE Unregister(s) /\ s2c' = Reply(s, Close("abnormal")) /\ up' = up \ {s}
  <2>1. /\ NoOrphanSubscription' /\ KeepsHeld
        /\ \A r \in Sockets : held'[r] \subseteq held[r]
        /\ registered' \subseteq registered
        /\ held' \in [Sockets -> SUBSET (1..MaxFrames)]
        /\ missed' \in [Sockets -> 0..MaxMissed]
        /\ subscriptions' \subseteq subscriptions
    BY <1>5, Unregistered
  <2>2. Close("abnormal") \in ToBrowser /\ Close("abnormal").type = "close"
    BY FrameTypes DEF Close
  <2>3. QuietDown /\ QuietEvents /\ s2c' \in [Sockets -> Seq(ToBrowser)]
    BY <1>1, <1>5, <2>2, RepliedQuietly, ReplyType
  <2>4. up' \subseteq Sockets /\ registered' \subseteq Sockets
    BY <1>1, <1>5, <2>1, GatewayTypesNow
  <2>5. TypeOK' /\ WireType'
    BY <1>1, <1>2, <2>1, <2>3, <2>4, GatewayTypesNow, GatewayTypes
  <2>6. HeardInv'
    BY <1>1, <1>2, <2>3, <2>5, QuietHeard
  <2>7. \A r \in registered' : r \in Sockets /\ r \in registered
    BY <2>1, <2>4
  <2> QED
    BY <1>2, <1>3, <2>1, <2>3, <2>5, <2>6, <2>7, QuietGateway
<1> QED
  BY <1>4, <1>5 DEF HeartbeatCheck

\* Frames of the gateway that take the place of none in use.
LEMMA UnsubscribedStep ==
    ASSUME IInv, NEW s \in Sockets, NEW f, f = Head(c2s[s]), c2s[s] # <<>>,
           c2s' = [c2s EXCEPT ![s] = Tail(@)], f.type = "unsubscribe", Unsubscribe(f),
           UNCHANGED <<client, heard, up, nextId, event>>
    PROVE  IInv'
<1>1. TypeOK /\ WireType /\ HeardInv /\ NoOrphanSubscription /\ RequestInv
  BY DEF IInv
<1>2. QuietUp /\ c2s' \in [Sockets -> Seq(FromBrowser)] /\ f = c2s[s][1] /\ 1 \in DOMAIN c2s[s]
  BY <1>1, TakenUp
<1>3. \A c \in Channels : f.id \notin Ids(c)
  <2>1. 1 \in Requests(s, "unsubscribe")
    BY <1>2 DEF Requests
  <2> QED
    BY <1>1, <1>2, <2>1 DEF RequestInv
<1>4. /\ subscriptions' = {b \in subscriptions : b.id # f.id}
      /\ held' = [r \in Sockets |-> held[r] \ {f.id}]
      /\ UNCHANGED <<registered, missed, refused, s2c>>
  BY DEF Unsubscribe
<1>5. \A r \in Sockets : held'[r] = held[r] \ {f.id} /\ held'[r] \subseteq held[r]
  BY <1>4
<1>6. TypeOK' /\ WireType'
  <2>1. held' \in [Sockets -> SUBSET (1..MaxFrames)]
    BY <1>1, <1>4, GatewayTypesNow
  <2>2. /\ subscriptions' \subseteq
             [id : 1..MaxFrames, channel : Channels, types : SUBSET Types]
        /\ s2c' \in [Sockets -> Seq(ToBrowser)] /\ up' \subseteq Sockets
        /\ registered' \subseteq Sockets /\ missed' \in [Sockets -> 0..MaxMissed]
        /\ refused' \subseteq 1..MaxFrames /\ event'.copies \in Nat
    BY <1>1, <1>4, GatewayTypesNow
  <2> QED
    BY <1>1, <1>2, <2>1, <2>2, GatewayTypes
<1>7. QuietDown /\ QuietEvents
  BY <1>1, <1>4, SameDown
<1>8. HeardInv'
  BY <1>1, <1>6, <1>7, QuietHeard
<1>9. KeepsHeld
  <2> SUFFICES ASSUME NEW r \in registered', NEW c \in Channels, NEW k \in Nat, Has(r, k, c),
                      \E d \in Channels : k \in Ids(d)
               PROVE  Has(r, k, c)'
    BY DEF KeepsHeld
  <2>1. k # f.id /\ r \in Sockets
    BY <1>1, <1>3, <1>4, GatewayTypesNow
  <2> QED
    BY <1>4, <1>5, <2>1 DEF Has
<1>10. NoOrphanSubscription'
  <2>1. registered \subseteq Sockets
    BY <1>1, GatewayTypesNow
  <2>2. ASSUME NEW b \in subscriptions' PROVE \E r \in registered' : b.id \in held'[r]
    <3>1. b \in subscriptions /\ b.id # f.id
      BY <1>4
    <3>2. PICK r \in registered : b.id \in held[r]
      BY <1>1, <3>1, HolderFacts
    <3> QED
      BY <1>4, <1>5, <2>1, <3>1, <3>2
  <2>3. ASSUME NEW r \in registered', NEW k \in held'[r] PROVE \E b \in subscriptions' : b.id = k
    <3>1. r \in registered /\ k \in held[r] /\ k # f.id
      BY <1>4, <1>5, <2>1
    <3>2. PICK b \in subscriptions : b.id = k
      BY <1>1, <3>1, HolderFacts
    <3> QED
      BY <1>4, <3>1, <3>2
  <2>4. /\ \A r \in Sockets \ registered' : held'[r] = {}
        /\ \A r, q \in Sockets : r # q => held'[r] \cap held'[q] = {}
    BY <1>1, <1>4, <1>5 DEF NoOrphanSubscription
  <2> QED
    BY <2>2, <2>3, <2>4, HolderNext
<1>11. \A r \in registered' : r \in Sockets /\ r \in registered
  BY <1>1, <1>4, GatewayTypesNow
<1> QED
  BY <1>2, <1>5, <1>6, <1>7, <1>8, <1>9, <1>10, <1>11, QuietGateway

\* A frame that is answered with no ack, and changes no subscription.
LEMMA AnsweredStep ==
    ASSUME IInv, NEW s \in Sockets, QuietUp, c2s' \in [Sockets -> Seq(FromBrowser)],
           s2c' = s2c \/ \E f \in ToBrowser : f.type \notin {"ack", "event"} /\ s2c' = Reply(s, f),
           missed' \in [Sockets -> 0..MaxMissed], refused' \subseteq 1..MaxFrames,
           UNCHANGED <<client, heard, up, nextId, event, registered, held, subscriptions>>
    PROVE  IInv'
<1>1. TypeOK /\ WireType /\ HeardInv
  BY DEF IInv
<1>2. QuietDown /\ QuietEvents /\ s2c' \in [Sockets -> Seq(ToBrowser)]
  <2>1. CASE s2c' = s2c
    BY <1>1, <2>1, SameDown, GatewayTypesNow
  <2>2. CASE s2c' # s2c
    <3>1. PICK f \in ToBrowser : f.type \notin {"ack", "event"} /\ s2c' = Reply(s, f)
      BY <2>2
    <3> QED
      BY <1>1, <3>1, RepliedQuietly, ReplyType
  <2> QED
    BY <2>1, <2>2
<1>3. TypeOK' /\ WireType'
  BY <1>1, <1>2, GatewayTypesNow, GatewayTypes
<1>4. HeardInv'
  BY <1>1, <1>2, <1>3, QuietHeard
<1>5. NoOrphanSubscription' /\ KeepsHeld
  BY DEF IInv, NoOrphanSubscription, KeepsHeld, Has
<1>6. \A r \in registered' : r \in Sockets /\ r \in registered
  BY <1>1, GatewayTypesNow
<1> QED
  BY <1>2, <1>3, <1>4, <1>5, <1>6, QuietGateway

LEMMA RepliedAck ==
    ASSUME WireType, NEW s \in Sockets, NEW k \in 1..MaxFrames,
           s2c' = Reply(s, [type |-> "ack", id |-> k]),
           NEW r \in Sockets, NEW i \in Replies(r, "ack")'
    PROVE  \/ i \in Replies(r, "ack") /\ s2c'[r][i] = s2c[r][i]
           \/ r = s /\ s2c'[r][i].id = k
<1> DEFINE e == [type |-> "ack", id |-> k]
<1>1. i \in DOMAIN s2c'[r] /\ s2c'[r][i].type = "ack"
  BY DEF Replies
<1>2. CASE s2c'[r] = s2c[r]
  BY <1>1, <1>2 DEF Replies
<1>3. CASE s2c'[r] # s2c[r]
  <2>1. e \in ToBrowser /\ e.id = k
    BY FrameTypes
  <2> HIDE DEF e
  <2>2. r = s /\ s2c'[r] = Append(s2c[r], e) /\ s2c[r] \in Seq(ToBrowser)
    BY <1>3 DEF Reply, WireType, e
  <2>3. \/ i \in DOMAIN s2c[r] /\ s2c'[r][i] = s2c[r][i]
        \/ s2c'[r][i] = e
    BY <1>1, <2>1, <2>2, AppendFacts
  <2> QED
    BY <1>1, <2>1, <2>2, <2>3 DEF Replies
<1> QED
  BY <1>2, <1>3

\* The id of the frame that is granted was nowhere else, and its ack is true.
LEMMA GrantedStep ==
    ASSUME IInv, NEW s \in Sockets, NEW f, f = Head(c2s[s]), c2s[s] # <<>>,
           c2s' = [c2s EXCEPT ![s] = Tail(@)], f.type = "subscribe", s \in registered,
           subscriptions' = subscriptions \cup
               {[id |-> f.id, channel |-> f.channel, types |-> f.types]},
           held' = [held EXCEPT ![s] = @ \cup {f.id}],
           s2c' = Reply(s, [type |-> "ack", id |-> f.id]),
           UNCHANGED <<registered, missed, refused, client, heard, up, nextId, event>>
    PROVE  IInv'
<1>1. /\ TypeOK /\ WireType /\ HeardInv /\ NoOrphanSubscription /\ RequestInv /\ IdInv
      /\ AckInv /\ CurrentInv
  BY DEF IInv
<1>2. /\ QuietUp /\ c2s' \in [Sockets -> Seq(FromBrowser)]
      /\ f = c2s[s][1] /\ 1 \in DOMAIN c2s[s] /\ f \in FromBrowser
  BY <1>1, TakenUp
<1>3. 1 \in Requests(s, "subscribe")
  BY <1>2 DEF Requests
<1>4. /\ f.id \in 1..MaxFrames /\ f.channel \in Channels /\ f.types \in SUBSET Types
  <2>1. f \in SubscribeFrames
    BY <1>2, SubscribeKind
  <2> QED
    BY <2>1 DEF SubscribeFrames
<1>5. /\ \A r \in Sockets : f.id \notin held[r]
      /\ f.id < nextId
      /\ \A c \in Channels : f.id = sub[c].pending => f.channel = c /\ (Connected => s = sock)
  BY <1>1, <1>2, <1>3 DEF RequestInv, IdInv, CurrentInv
<1> DEFINE new == [id |-> f.id, channel |-> f.channel, types |-> f.types]
<1>6. /\ subscriptions' = subscriptions \cup {new} /\ new.id = f.id /\ new.channel = f.channel
      /\ new \in [id : 1..MaxFrames, channel : Channels, types : SUBSET Types]
  BY <1>4
<1> HIDE DEF new
<1>7. /\ held' \in [Sockets -> SUBSET (1..MaxFrames)]
      /\ \A r \in Sockets : held'[r] = IF r = s THEN held[r] \cup {f.id} ELSE held[r]
  BY <1>1, <1>4, GatewayTypesNow
<1>8. UNCHANGED <<state, sock, sub, mounted, cs, nextId, registered>>
  BY DEF client
<1>9. PICK e \in ToBrowser : e = [type |-> "ack", id |-> f.id] /\ e.type = "ack"
  BY <1>4, FrameTypes
<1>10. QuietEvents /\ s2c' \in [Sockets -> Seq(ToBrowser)]
  BY <1>1, <1>9, RepliedQuietly, ReplyType
<1>11. TypeOK' /\ WireType'
  <2>1. subscriptions' \subseteq [id : 1..MaxFrames, channel : Channels, types : SUBSET Types]
    BY <1>1, <1>6, GatewayTypesNow
  <2> QED
    BY <1>1, <1>2, <1>7, <1>10, <2>1, GatewayTypesNow, GatewayTypes
<1>12. HeardInv'
  BY <1>1, <1>10, <1>11, QuietHeard
<1>13. ASSUME NEW r \in Sockets, NEW i \in Replies(r, "ack")'
       PROVE  \/ \E m \in Replies(r, "ack") : s2c'[r][i] = s2c[r][m]
              \/ r = s /\ s2c'[r][i].id = f.id
  BY <1>1, <1>4, <1>13, RepliedAck
<1>14. ASSUME NEW r \in Sockets, NEW t \in {"subscribe", "unsubscribe"}, NEW i \in Requests(r, t)'
       PROVE  \E m \in Requests(r, t) : c2s'[r][i] = c2s[r][m] /\ ~(r = s /\ m = 1)
  <2>1. i \in DOMAIN c2s'[r] /\ c2s'[r][i].type = t
    BY <1>14 DEF Requests
  <2>2. CASE r = s
    <3>1. c2s[s] \in Seq(FromBrowser) /\ c2s'[s] = Tail(c2s[s])
      BY <1>1 DEF WireType
    <3>4. i \in DOMAIN Tail(c2s[s])
      BY <2>1, <2>2, <3>1
    <3>5. /\ i \in Nat /\ i >= 1 /\ i + 1 \in DOMAIN c2s[s]
          /\ Tail(c2s[s])[i] = c2s[s][i + 1]
      BY <3>1, <3>4, TailFacts
    <3>2. i \in Nat /\ i >= 1 /\ i + 1 \in DOMAIN c2s[s] /\ c2s'[s][i] = c2s[s][i + 1]
      BY <3>1, <3>5
    <3>3. i + 1 \in Requests(r, t) /\ i + 1 # 1
      BY <2>1, <2>2, <3>2 DEF Requests
    <3> QED
      BY <2>2, <3>2, <3>3
  <2>3. CASE r # s
    <3>1. c2s'[r] = c2s[r]
      BY <1>1, <2>3 DEF WireType
    <3> QED
      BY <2>1, <2>3, <3>1 DEF Requests
  <2> QED
    BY <2>2, <2>3
<1>15. NoNewIds
  BY <1>1, <1>8, SameIds
<1>16. RequestInv'
  <2>1. ASSUME NEW r \in Sockets, NEW q \in Sockets, NEW i \in Requests(r, "subscribe")'
        PROVE  c2s'[r][i].id \notin held'[q]
    <3>1. PICK m \in Requests(r, "subscribe") : c2s'[r][i] = c2s[r][m] /\ ~(r = s /\ m = 1)
      BY <1>14, <2>1
    <3>2. c2s[r][m].id # f.id /\ c2s[r][m].id \notin held[q]
      BY <1>1, <1>2, <1>3, <3>1 DEF RequestInv
    <3>3. held'[q] \subseteq held[q] \cup {f.id}
      BY <1>7
    <3> QED
      BY <3>1, <3>2, <3>3
  <2> QED
    BY <1>1, <1>2, <1>11, <1>15, <2>1, TakenRequests
<1>17. IdInv'
  <2>1. \A r \in Sockets : \A k \in held'[r] : k < nextId
    BY <1>1, <1>5, <1>7 DEF IdInv
  <2>2. ASSUME NEW r \in Sockets,
               NEW i \in Requests(r, "subscribe")' \cup Requests(r, "unsubscribe")'
        PROVE  c2s'[r][i].id < nextId
    <3>1. PICK m \in Requests(r, "subscribe") \cup Requests(r, "unsubscribe") :
            c2s'[r][i] = c2s[r][m]
      BY <1>14, <2>2
    <3> QED
      BY <1>1, <3>1 DEF IdInv
  <2>3. \A r \in Sockets : \A i \in Replies(r, "ack")' : s2c'[r][i].id < nextId
    BY <1>1, <1>5, <1>13 DEF IdInv
  <2>4. \A c \in Channels : Ids(c)' = Ids(c)
    BY <1>8 DEF Ids
  <2> QED
    BY <1>1, <1>8, <2>1, <2>2, <2>3, <2>4 DEF IdInv
<1>18. ASSUME NEW r \in Sockets, NEW c \in Channels, NEW k \in Nat, Has(r, k, c)
       PROVE  Has(r, k, c)'
  BY <1>6, <1>7, <1>18 DEF Has
<1>19. \A c \in Channels : sub[c].pending \in Nat /\ sub[c].serverId \in Nat
  BY <1>1 DEF TypeOK
<1>20. AckInv'
  <2> SUFFICES ASSUME NEW r \in registered, NEW c \in Channels, NEW i \in Replies(r, "ack")',
                      s2c'[r][i].id = sub[c].pending
               PROVE  Has(r, sub[c].pending, c)'
    BY <1>8 DEF AckInv
  <2>1. r \in Sockets
    BY <1>1, GatewayTypesNow
  <2>2. PICK k \in Nat : k = sub[c].pending
    BY <1>19
  <2>3. Has(r, k, c)'
    <3>1. CASE \E m \in Replies(r, "ack") : s2c'[r][i] = s2c[r][m]
      BY <1>1, <1>18, <2>1, <2>2, <3>1 DEF AckInv
    <3>2. CASE r = s /\ s2c'[r][i].id = f.id
      <4>1. k = f.id /\ f.channel = c
        BY <1>5, <2>2, <3>2
      <4>2. k \in held'[r] /\ new \in subscriptions' /\ new.id = k /\ new.channel = c
        BY <1>6, <1>7, <3>2, <4>1
      <4> QED
        BY <4>2 DEF Has
    <3> QED
      BY <1>13, <2>1, <3>1, <3>2
  <2> QED
    BY <1>8, <2>2, <2>3 DEF Has
<1>21. CurrentInv'
  <2> SUFFICES ASSUME Connected PROVE CurrentInv'
    BY <1>8 DEF CurrentInv, Connected
  <2>1. ASSUME NEW r \in Sockets, NEW c \in Channels, NEW i \in Requests(r, "subscribe")',
               c2s'[r][i].id = sub[c].pending
        PROVE  r = sock
    <3>1. PICK m \in Requests(r, "subscribe") : c2s'[r][i] = c2s[r][m]
      BY <1>14, <2>1
    <3> QED
      BY <1>1, <2>1, <3>1 DEF CurrentInv
  <2>2. ASSUME NEW r \in Sockets, NEW c \in Channels, NEW i \in Replies(r, "ack")',
               s2c'[r][i].id = sub[c].pending
        PROVE  r = sock
    BY <1>1, <1>5, <1>13, <2>2 DEF CurrentInv
  <2>3. ASSUME NEW c \in Channels, sub[c].serverId # 0
        PROVE  Confirmed(sub[c].serverId, c)'
    <3>1. PICK k \in Nat : k = sub[c].serverId
      BY <1>19
    <3>2. Confirmed(k, c)
      BY <1>1, <2>3, <3>1 DEF CurrentInv
    <3>3. sock \in Sockets /\ (sock \in registered => Has(sock, k, c)')
      BY <1>8, <1>18, <3>1, <3>2 DEF Confirmed, Has
    <3> QED
      BY <1>8, <3>1, <3>2, <3>3 DEF Confirmed, Has
  <2> QED
    BY <1>8, <2>1, <2>2, <2>3 DEF CurrentInv
<1>22. NoOrphanSubscription'
  <2>1. registered \subseteq Sockets
    BY <1>1, GatewayTypesNow
  <2>2. ASSUME NEW b \in subscriptions' PROVE \E r \in registered' : b.id \in held'[r]
    <3>1. CASE b = new
      BY <1>6, <1>7, <1>8, <3>1
    <3>2. CASE b \in subscriptions
      <4>1. PICK r \in registered : b.id \in held[r]
        BY <1>1, <3>2, HolderFacts
      <4> QED
        BY <1>7, <1>8, <2>1, <4>1
    <3> QED
      BY <1>6, <3>1, <3>2
  <2>3. ASSUME NEW r \in registered', NEW k \in held'[r] PROVE \E b \in subscriptions' : b.id = k
    <3>1. r \in registered /\ r \in Sockets /\ (k \in held[r] \/ k = f.id)
      BY <1>7, <1>8, <2>1
    <3>2. CASE k = f.id
      BY <1>6, <3>2
    <3>3. CASE k \in held[r]
      <4>1. PICK b \in subscriptions : b.id = k
        BY <1>1, <3>1, <3>3, HolderFacts
      <4> QED
        BY <1>6, <4>1
    <3> QED
      BY <3>1, <3>2, <3>3
  <2>4. \A r \in Sockets \ registered' : held'[r] = {}
    BY <1>1, <1>7, <1>8 DEF NoOrphanSubscription
  <2>5. \A r, q \in Sockets : r # q => held'[r] \cap held'[q] = {}
    <3>1. \A r, q \in Sockets : r # q => held[r] \cap held[q] = {}
      BY <1>1 DEF NoOrphanSubscription
    <3> QED
      BY <1>5, <1>7, <3>1
  <2> QED
    BY <2>2, <2>3, <2>4, <2>5, HolderNext
<1> QED
  BY <1>11, <1>12, <1>16, <1>17, <1>20, <1>21, <1>22 DEF IInv

LEMMA ServeStep == ASSUME IInv, NEW s \in Sockets, Serve(s) PROVE IInv'
<1> DEFINE f == Head(c2s[s])
<1>1. TypeOK /\ WireType /\ HeardInv
  BY DEF IInv
<1>2. /\ c2s[s] # <<>> /\ c2s' = [c2s EXCEPT ![s] = Tail(@)]
      /\ UNCHANGED <<client, heard, up, nextId, event>>
  BY DEF Serve
<1>3. QuietUp /\ c2s' \in [Sockets -> Seq(FromBrowser)] /\ f \in FromBrowser
  BY <1>1, <1>2, TakenUp
<1>4. missed \in [Sockets -> 0..MaxMissed] /\ refused \subseteq 1..MaxFrames
  BY <1>1, GatewayTypesNow
<1>5. CASE f.type = "unsubscribe" /\ Unsubscribe(f)
  BY <1>2, <1>5, UnsubscribedStep
<1>6. CASE /\ f.type = "ping" /\ missed' = [missed EXCEPT ![s] = 0] /\ s2c' = Reply(s, Pong)
           /\ UNCHANGED <<registered, held, subscriptions, refused>>
  <2>1. Pong \in ToBrowser /\ Pong.type \notin {"ack", "event"}
    BY FrameTypes DEF Pong
  <2>2. missed' \in [Sockets -> 0..MaxMissed]
    BY <1>4, <1>6, MissedFacts
  <2> QED
    BY <1>2, <1>3, <1>4, <1>6, <2>1, <2>2, AnsweredStep
<1>7. CASE f.type = "close" /\ Unregister(s) /\ UNCHANGED <<refused, s2c>>
  <2>1. /\ NoOrphanSubscription' /\ KeepsHeld
        /\ \A r \in Sockets : held'[r] \subseteq held[r]
        /\ registered' \subseteq registered
        /\ held' \in [Sockets -> SUBSET (1..MaxFrames)]
        /\ missed' \in [Sockets -> 0..MaxMissed]
        /\ subscriptions' \subseteq subscriptions
    BY <1>7, Unregistered
  <2>2. registered' \subseteq Sockets
    BY <1>1, <2>1, GatewayTypesNow
  <2>3. TypeOK' /\ WireType'
    BY <1>1, <1>2, <1>3, <1>7, <2>1, <2>2, GatewayTypesNow, GatewayTypes
  <2>4. QuietDown /\ QuietEvents
    BY <1>1, <1>7, SameDown
  <2>5. HeardInv'
    BY <1>1, <1>2, <2>3, <2>4, QuietHeard
  <2>6. \A r \in registered' : r \in Sockets /\ r \in registered
    BY <2>1, <2>2
  <2> QED
    BY <1>2, <1>3, <2>1, <2>3, <2>4, <2>5, <2>6, QuietGateway
<1>8. CASE f.type = "subscribe" /\ Subscribe(s, f)
  <2>1. f.id \in 1..MaxFrames
    <3>1. f \in SubscribeFrames
      BY <1>3, <1>8, SubscribeKind
    <3> QED
      BY <3>1 DEF SubscribeFrames
  <2> HIDE DEF f
  <2>2. UNCHANGED <<registered, missed>>
    BY <1>8 DEF Subscribe
  <2>3. CASE UNCHANGED <<subscriptions, held, refused, s2c>>
    BY <1>2, <1>3, <1>4, <2>2, <2>3, AnsweredStep
  <2>4. CASE /\ refused' = refused \cup {f.id} /\ s2c' = Reply(s, [type |-> "error", id |-> f.id])
             /\ UNCHANGED <<subscriptions, held>>
    <3>1. PICK e \in ToBrowser : e = [type |-> "error", id |-> f.id] /\ e.type = "error"
      BY <2>1, FrameTypes
    <3>2. refused' \subseteq 1..MaxFrames
      BY <1>4, <2>1, <2>4
    <3> QED
      BY <1>2, <1>3, <1>4, <2>2, <2>4, <3>1, <3>2, AnsweredStep
  <2>5. CASE /\ s \in registered
             /\ subscriptions' = subscriptions \cup
                  {[id |-> f.id, channel |-> f.channel, types |-> f.types]}
             /\ held' = [held EXCEPT ![s] = @ \cup {f.id}]
             /\ s2c' = Reply(s, [type |-> "ack", id |-> f.id])
             /\ UNCHANGED refused
    BY <1>2, <1>8, <2>2, <2>5, GrantedStep DEF f
  <2> QED
    BY <1>8, <2>3, <2>4, <2>5 DEF Subscribe
<1> QED
  BY <1>5, <1>6, <1>7, <1>8 DEF Serve

\* The first event there is goes out once to each target.
LEMMA BroadcastStep == ASSUME IInv, NEW c \in Channels, NEW t \in Types, Broadcast(c, t) PROVE IInv'
<1> DEFINE T == Targets(c, t)
<1>1. TypeOK /\ WireType /\ HeardInv
  BY DEF IInv
<1>2. /\ event = NoEvent /\ event'.copies = Cardinality(T)
      /\ UNCHANGED <<client, heard, c2s, up, gateway, nextId>>
  BY DEF Broadcast
<1>3. /\ T \in SUBSET Sockets /\ Cardinality(T) \in Nat /\ IsFiniteSet(T)
  BY <1>1, GatewayTypesNow, CarryingFinite DEF Targets
<1>4. s2c' = [s \in Sockets |-> IF s \in T THEN Append(s2c[s], EventFrame) ELSE s2c[s]]
  BY DEF Broadcast, EventFrame
<1> HIDE DEF T
<1>5. UNCHANGED <<registered, missed, held, subscriptions, refused>>
  BY <1>2 DEF gateway
<1>6. \A s \in Sockets : s2c[s] \in Seq(ToBrowser) /\ Append(s2c[s], EventFrame) \in Seq(ToBrowser)
  <2>1. EventFrame \in ToBrowser
    BY FrameTypes
  <2> QED
    BY <1>1, <2>1, AppendProperties DEF WireType
<1>7. TypeOK' /\ WireType'
  <2>1. s2c' \in [Sockets -> Seq(ToBrowser)]
    BY <1>4, <1>6
  <2> QED
    BY <1>1, <1>2, <1>3, <1>5, <2>1, GatewayTypesNow, GatewayTypes
<1>8. Carrying = {} /\ \A l \in Listeners : heard[l] = 0
  <2>1. event.copies = 0
    BY <1>2 DEF NoEvent
  <2>2. Carrying \in SUBSET Sockets /\ Cardinality(Carrying) \in Nat /\ IsFiniteSet(Carrying)
    BY CarryingFinite DEF Carrying
  <2>3. Cardinality(Carrying) <= 0 /\ \A l \in Listeners : heard[l] + Cardinality(Carrying) <= 0
    BY <1>1, <2>1 DEF HeardInv
  <2>4. Cardinality(Carrying) = 0
    BY <2>2, <2>3
  <2>5. \A l \in Listeners : heard[l] \in Nat
    BY <1>1, TypesNow
  <2> QED
    BY <2>2, <2>3, <2>4, <2>5, FS_EmptySet
<1>9. ASSUME NEW s \in Sockets, NEW i \in Replies(s, "event")' PROVE s \in T /\ i = Len(s2c[s]) + 1
  <2>1. i \in DOMAIN s2c'[s] /\ s2c'[s][i].type = "event"
    BY <1>9 DEF Replies
  <2>2. Replies(s, "event") = {}
    BY <1>8 DEF Carrying
  <2>3. s \in T
    BY <1>4, <2>1, <2>2 DEF Replies
  <2>4. EventFrame \in ToBrowser
    BY FrameTypes
  <2>5. s2c'[s] = Append(s2c[s], EventFrame)
    BY <1>4, <2>3
  <2>6. \/ i \in DOMAIN s2c[s] /\ s2c'[s][i] = s2c[s][i]
        \/ i = Len(s2c[s]) + 1
    BY <1>6, <2>1, <2>4, <2>5, AppendFacts
  <2> QED
    BY <2>1, <2>2, <2>3, <2>6 DEF Replies
<1>10. HeardInv'
  <2>1. Carrying' \in SUBSET T
    BY <1>9 DEF Carrying
  <2>2. Cardinality(Carrying') <= Cardinality(T) /\ Cardinality(Carrying') \in Nat
    BY <1>3, <2>1, CarryingFinite, FS_Subset
  <2>3. \A l \in Listeners : heard'[l] = 0
    BY <1>2, <1>8
  <2>4. \A s \in Sockets : \A i, k \in Replies(s, "event")' : i = k
    BY <1>9
  <2> DEFINE a == Cardinality(Carrying')
  <2>5. a <= event'.copies /\ a \in Nat /\ 0 + a <= event'.copies
    BY <1>2, <1>3, <2>2
  <2> HIDE DEF a
  <2>6. \A l \in Listeners : heard'[l] + a <= event'.copies
    BY <2>3, <2>5
  <2> QED
    BY <2>4, <2>5, <2>6 DEF HeardInv, a
<1>11. QuietDown
  <2> SUFFICES ASSUME NEW s \in Sockets PROVE Shown(s2c'[s], s2c[s], {"ack"})
    BY DEF QuietDown
  <2>1. EventFrame \in ToBrowser /\ EventFrame.type \notin {"ack"}
    BY FrameTypes DEF EventFrame
  <2>2. CASE s \in T
    <3>1. s2c'[s] = Append(s2c[s], EventFrame)
      BY <1>4, <2>2
    <3> QED
      BY <1>6, <2>1, <3>1, ShownAppend
  <2>3. CASE s \notin T
    <3>1. s2c'[s] = s2c[s]
      BY <1>4, <2>3
    <3> QED
      BY <1>6, <3>1, ShownItself
  <2> QED
    BY <2>2, <2>3
<1>12. QuietUp
  BY <1>1, <1>2, SameUp
<1>13. NoOrphanSubscription' /\ KeepsHeld
  BY <1>5 DEF IInv, NoOrphanSubscription, KeepsHeld, Has
<1>14. \A r \in registered' : r \in Sockets /\ r \in registered
  BY <1>1, <1>5, GatewayTypesNow
<1> QED
  BY <1>2, <1>5, <1>7, <1>10, <1>11, <1>12, <1>13, <1>14, QuietGateway

-----------------------------------------------------------------------------
(* The invariant, and what it says of every behaviour *)

LEMMA InitInv == Init => IInv
<1> SUFFICES ASSUME Init PROVE IInv
  OBVIOUS
<1>1. TypeOK
  <2>1. Blank \in [types : SUBSET Types, pending : Nat, serverId : Nat]
    BY BlankRecord DEF SubRecord
  <2> QED
    BY <2>1, MissedFacts DEF Init, TypeOK
<1>2. /\ \A s \in Sockets : c2s[s] = <<>> /\ s2c[s] = <<>> /\ held[s] = {}
      /\ \A c \in Channels : Ids(c) = {} /\ sub[c].pending = 0 /\ sub[c].serverId = 0
      /\ registered = {} /\ subscriptions = {} /\ ~Connected
      /\ event.copies = 0 /\ \A l \in Listeners : heard[l] = 0
  BY BlankRecord DEF Init, Ids, Connected, NoEvent
<1>3. \A s \in Sockets : \A t : Requests(s, t) = {} /\ Replies(s, t) = {}
  BY <1>2 DEF Requests, Replies
<1>4. WireType
  <2>1. nextId = 1 /\ 1 \in 1..(MaxFrames + 1)
    BY RuntimeWsAssumption DEF Init
  <2> QED
    BY <1>2, <2>1 DEF Init, WireType
<1>5. IdInv /\ RequestInv
  BY <1>2, <1>3 DEF IdInv, RequestInv
<1>6. NoOrphanSubscription /\ AckInv /\ CurrentInv
  BY <1>2 DEF NoOrphanSubscription, AckInv, CurrentInv
<1>7. HeardInv
  <2>1. Carrying = {}
    BY <1>3 DEF Carrying
  <2>2. Cardinality(Carrying) = 0
    BY <2>1, FS_EmptySet
  <2> QED
    BY <1>2, <1>3, <2>2 DEF HeardInv
<1> QED
  BY <1>1, <1>4, <1>5, <1>6, <1>7 DEF IInv

LEMMA Unchanged == ASSUME IInv, UNCHANGED vars PROVE IInv'
<1>1. TypeOK /\ WireType /\ HeardInv
  BY DEF IInv
<1>2. /\ UNCHANGED <<state, sock, sub, mounted, attempts, timers, beats, ponged, cs, retried>>
      /\ UNCHANGED <<heard, c2s, s2c, up, gateway, nextId, event>>
  BY DEF vars, client, wire
<1>3. mounted' \subseteq Listeners
  BY <1>1, <1>2, TypesNow
<1> QED
  BY <1>2, <1>3, ShareStep

LEMMA NextInv == IInv /\ [Next]_vars => IInv'
<1> SUFFICES ASSUME IInv, [Next]_vars PROVE IInv'
  OBVIOUS
<1>1. CASE AutoConnect \/ TimerFires \/ Disconnect \/ Tick
  BY <1>1, AutoConnectStep, TimerStep, DisconnectStep, TickStep
<1>2. ASSUME NEW s \in Sockets, OnOpen(s) \/ OnClose(s) \/ Receive(s) PROVE IInv'
  BY <1>2, OnOpenStep, OnCloseStep, ReceiveStep
<1>3. ASSUME NEW l \in Listeners, Mount(l) \/ Unmount(l) PROVE IInv'
  BY <1>3, MountStep, UnmountStep
<1>4. ASSUME NEW s \in Sockets, Accept(s) \/ Serve(s) \/ HeartbeatCheck(s) PROVE IInv'
  BY <1>4, AcceptStep, ServeStep, HeartbeatStep
<1>5. ASSUME NEW c \in Channels, NEW t \in Types, Broadcast(c, t) PROVE IInv'
  BY <1>5, BroadcastStep
<1>6. ASSUME NEW s \in Sockets, ConnectFails(s) \/ Drop(s) PROVE IInv'
  BY <1>6, ConnectFailsStep, DropStep
<1>7. CASE UNCHANGED vars
  BY <1>7, Unchanged
<1> QED
  BY <1>1, <1>2, <1>3, <1>4, <1>5, <1>6, <1>7 DEF Next, Browser, Gateway

\* In every state: the types, where ids are, the gateway's two records, what the
\* acks and the known ids stand for, and the events still to be heard.
THEOREM Invariance == Spec => []IInv
BY InitInv, NextInv, PTL DEF Spec

\* Every variable has its type, whatever the order of frames, closes and timeouts.
THEOREM TypeCorrect == Spec => []TypeOK
<1>1. IInv => TypeOK
  BY DEF IInv
<1> QED
  BY <1>1, Invariance, PTL

\* unregisterClient and removeSubscription leave no subscription without its
\* client, and no id belongs to two clients.
THEOREM NoOrphans == Spec => []NoOrphanSubscription
<1>1. IInv => NoOrphanSubscription
  BY DEF IInv
<1> QED
  BY <1>1, Invariance, PTL

\* The id unsubscribe() would send is one the gateway holds for this.socket and
\* this channel, if it still keeps that socket: neither resubscribeAll nor a late
\* ack of an earlier connection leaves another one.
THEOREM IdIsCurrent == Spec => []ServerIdIsCurrent
<1>1. IInv => ServerIdIsCurrent
  <2> SUFFICES ASSUME IInv, NEW c \in Live(mounted), state \in {"connected", "degraded"},
                      sub[c].serverId # 0, sock \in registered
               PROVE  \E b \in subscriptions :
                        b.id = sub[c].serverId /\ b.channel = c /\ b.id \in held[sock]
    BY DEF ServerIdIsCurrent
  <2>1. c \in Channels
    BY TypesNow, LiveFacts DEF IInv
  <2>2. Confirmed(sub[c].serverId, c)
    BY <2>1 DEF IInv, CurrentInv, Connected
  <2> QED
    BY <2>2 DEF Confirmed, Has
<1> QED
  BY <1>1, Invariance, PTL

\* A listener is called at most once for each client the gateway sent the event
\* to, however many subscriptions and sockets the tab went through.
THEOREM HeardOnce == Spec => []HeardOncePerSocket
<1>1. IInv => HeardOncePerSocket
  <2> SUFFICES ASSUME IInv, NEW l \in Listeners PROVE heard[l] <= event.copies
    BY DEF HeardOncePerSocket
  <2>1. heard[l] \in Nat /\ event.copies \in Nat
    BY TypesNow DEF IInv, WireType
  <2>2. PICK n \in Nat : n = Cardinality(Carrying)
    BY CarryingFinite DEF Carrying
  <2>3. heard[l] + n <= event.copies
    BY <2>2 DEF IInv, HeardInv
  <2> QED
    BY <2>1, <2>2, <2>3
<1> QED
  BY <1>1, Invariance, PTL

================================================================================
