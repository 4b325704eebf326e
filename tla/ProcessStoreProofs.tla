------------------------- MODULE ProcessStoreProofs -------------------------
(***************************************************************************)
(* Proofs about the store of the process page, for every number of visits  *)
(* and of changes of the filters.                                          *)
(***************************************************************************)
EXTENDS ProcessStore, SequenceTheorems, TLAPS

(* The type invariant, with what it needs to be inductive.                 *)

\* One page is on screen and counted, or none is; the timer that closes the socket
\* runs only without one.
PageOK == /\ refs = IF page = None THEN 0 ELSE 1
          /\ disconnecting => page = None

\* A visit takes two tokens at most, one when it connects and one when the timer
\* closes the socket after it.
TokenOK == token + (IF page # None \/ disconnecting THEN 1 ELSE 0) <= 2 * visits

TypeInv == TypeOK /\ PageOK /\ TokenOK

RequestsOK == /\ wire \in [Sockets -> Seq(Requests)]
              /\ pending \in Types \cup {None} /\ queued \in Types \cup {None}
              /\ fetching \in [Types -> BOOLEAN]

\* What goes out is a request.
LEMMA DoSendType ==
    ASSUME TypeOK, NEW t \in Types, NEW q \in 0 .. MaxSearches,
           NEW w \in [Sockets -> Seq(Requests)], NEW f \in [Types -> BOOLEAN],
           IsWsOpen, DoSend(t, q, w, f)
    PROVE  /\ wire' \in [Sockets -> Seq(Requests)]
           /\ pending' \in Types \cup {None} /\ fetching' \in [Types -> BOOLEAN]
<1>1. websocket \in Sockets
  BY DEF TypeOK, IsWsOpen
<1>2. [type |-> t, query |-> q] \in Requests
  BY DEF Requests
<1>3. Append(w[websocket], [type |-> t, query |-> q]) \in Seq(Requests)
  BY <1>1, <1>2
<1> QED
  BY <1>3 DEF DoSend

\* Whatever becomes of a request, sent or queued.
LEMMA SendType ==
    ASSUME TypeOK, NEW t \in Types, NEW q \in 0 .. MaxSearches, Send(t, q)
    PROVE  RequestsOK'
<1>1. CASE ~IsWsOpen \/ (~IsPending(t) /\ fetching[t])
  BY <1>1 DEF Send, TypeOK, RequestsOK, requestVars
<1>2. CASE IsWsOpen /\ IsPending(t)
  BY <1>2 DEF Send, TypeOK, RequestsOK
<1>3. CASE IsWsOpen /\ ~IsPending(t) /\ ~fetching[t]
  <2>1. DoSend(t, q, wire, fetching) /\ queued' = queued
    BY <1>3 DEF Send
  <2> QED
    BY <1>3, <2>1, DoSendType DEF TypeOK, RequestsOK
<1> QED
  BY <1>1, <1>2, <1>3

\* The store before the first visit.
LEMMA TypeInit == Init => TypeInv
<1> SUFFICES ASSUME Init PROVE TypeInv
    OBVIOUS
<1> USE BoundsAssumption DEF Init
<1>1. /\ page \in Types \cup {None} /\ visits \in 0 .. MaxVisits /\ refs \in {0, 1}
      /\ websocket \in Sockets \cup {Null} /\ token \in 0 .. 2 * MaxVisits
      /\ inits \subseteq 1 .. token
  OBVIOUS
<1>2. /\ ready \in [Sockets -> {"unused", "connecting", "open", "closing", "closed"}]
      /\ wire \in [Sockets -> Seq(Requests)]
  OBVIOUS
<1>3. /\ pending \in Types \cup {None} /\ queued \in Types \cup {None}
      /\ fetching \in [Types -> BOOLEAN]
      /\ active \in Types \cup {None} /\ polling \in Types \cup {None}
      /\ checks \subseteq Types /\ initials \subseteq Types
      /\ connecting \in BOOLEAN /\ disconnecting \in BOOLEAN
  OBVIOUS
<1>4. /\ query \in [Types -> 0 .. MaxSearches] /\ data \in [Types -> Requests \cup {NoRows}]
      /\ history \subseteq Causes
  OBVIOUS
<1>5. TypeOK
  BY <1>1, <1>2, <1>3, <1>4 DEF TypeOK
<1> QED
  BY <1>5 DEF TypeInv, PageOK, TokenOK

\* Every step preserves the types, the count of the pages and that of the tokens.
LEMMA TypeStep == TypeInv /\ [Next]_vars => TypeInv'
<1> SUFFICES ASSUME TypeInv, [Next]_vars PROVE TypeInv'
    OBVIOUS
<1> USE BoundsAssumption
<1>1. ASSUME NEW t \in Types, Mount(t) PROVE TypeInv'
  <2>1. page = None /\ refs = 0 /\ page' = t /\ visits' = visits + 1 /\ refs' = 1
        /\ disconnecting' = FALSE /\ visits \in 0 .. MaxVisits - 1 /\ t # None
    BY <1>1 DEF Mount, Connect, TypeInv, TypeOK, PageOK, Types, None
  <2>2. UNCHANGED <<websocket, ready>> /\ connecting' \in BOOLEAN
    BY <1>1 DEF Mount, Connect, TypeInv, TypeOK
  <2>3. inits' \subseteq 1 .. token'
    <3>1. inits \subseteq 1 .. token /\ token \in 0 .. 2 * MaxVisits
      BY DEF TypeInv, TypeOK
    <3>2. CASE token' = token + 1 /\ inits' = inits \cup {token + 1}
      BY <3>1, <3>2
    <3>3. CASE UNCHANGED <<token, inits>>
      BY <3>1, <3>3
    <3> QED
      BY <1>1, <3>2, <3>3 DEF Mount, Connect
  <2>4. token' \in 0 .. 2 * MaxVisits /\ TokenOK'
    <3>1. token \in Nat /\ visits \in Nat /\ visits + 1 <= MaxVisits
      BY <2>1 DEF TypeInv, TypeOK
    <3>2. token <= 2 * visits
      BY <3>1 DEF TypeInv, TokenOK
    <3>3. token' = token + 1 \/ token' = token
      BY <1>1 DEF Mount, Connect
    <3> QED
      BY <2>1, <3>1, <3>2, <3>3 DEF TokenOK
  <2>5. RequestsOK'
    BY <1>1, SendType DEF Mount, StartPolling, TypeInv, TypeOK, RequestsOK, requestVars
  <2>6. /\ active' = t /\ polling' = t
        /\ checks' \subseteq Types /\ initials' \subseteq Types
    BY <1>1 DEF Mount, StartPolling, TypeInv, TypeOK
  <2>7. page' \in Types \cup {None} /\ visits' \in 0 .. MaxVisits /\ refs' \in {0, 1}
    BY <2>1
  <2>8. UNCHANGED <<query, data, history>>
    BY <1>1 DEF Mount
  <2>9. TypeOK'
    BY <2>1, <2>2, <2>3, <2>4, <2>5, <2>6, <2>7, <2>8 DEF TypeInv, TypeOK, RequestsOK
  <2> QED
    BY <2>1, <2>4, <2>9 DEF TypeInv, PageOK
<1>2. CASE Unmount
  BY <1>2 DEF Unmount, Disconnect, StopPolling, RefsLeft, TypeInv, TypeOK, PageOK, TokenOK,
              socketVars, requestVars
<1>3. CASE Search
  <2>1. page \in Types /\ query[page] + 1 \in 0 .. MaxSearches
    BY <1>3 DEF Search, TypeInv, TypeOK, Types
  <2>2. RequestsOK'
    BY <1>3, <2>1, SendType DEF Search, TypeInv
  <2>3. query' \in [Types -> 0 .. MaxSearches]
    BY <1>3, <2>1 DEF Search, TypeInv, TypeOK
  <2>4. TypeOK'
    BY <1>3, <2>2, <2>3 DEF Search, TypeInv, TypeOK, RequestsOK, socketVars, pollVars, pageVars
  <2> QED
    BY <1>3, <2>4 DEF Search, TypeInv, PageOK, TokenOK, socketVars, pageVars
<1>4. CASE DisconnectTimeout
  <2>1. refs = 0 /\ page = None /\ token' = token + 1
    BY <1>4 DEF DisconnectTimeout, TypeInv, PageOK
  <2>2. token' \in 0 .. 2 * MaxVisits /\ TokenOK' /\ PageOK'
    BY <1>4, <2>1 DEF DisconnectTimeout, TypeInv, TypeOK, PageOK, TokenOK
  <2>3. wire' \in [Sockets -> Seq(Requests)]
    <3>1. wire' = wire \/ wire' = [wire EXCEPT ![websocket] = <<>>]
      BY <1>4 DEF DisconnectTimeout
    <3>2. <<>> \in Seq(Requests)
      OBVIOUS
    <3> QED
      BY <3>1, <3>2 DEF TypeInv, TypeOK
  <2>4. ready' \in [Sockets -> {"unused", "connecting", "open", "closing", "closed"}]
    BY <1>4, <2>1 DEF DisconnectTimeout, TypeInv, TypeOK
  <2>5. history' \subseteq Causes
    BY <1>4, <2>1 DEF DisconnectTimeout, TypeInv, TypeOK, Gone, Causes
  <2>6. inits' \subseteq 1 .. token'
    BY <1>4, <2>1 DEF DisconnectTimeout, TypeInv, TypeOK
  <2>7. TypeOK'
    BY <1>4, <2>1, <2>2, <2>3, <2>4, <2>5, <2>6
       DEF DisconnectTimeout, StopPolling, TypeInv, TypeOK
  <2> QED
    BY <2>2, <2>7 DEF TypeInv
<1>5. ASSUME NEW k \in inits, AuthReturns(k) PROVE TypeInv'
  <2>1. /\ inits' \subseteq 1 .. token /\ connecting' \in BOOLEAN
        /\ websocket' \in Sockets \cup {Null} /\ history' \subseteq Causes
        /\ ready' \in [Sockets -> {"unused", "connecting", "open", "closing", "closed"}]
    BY <1>5 DEF AuthReturns, TypeInv, TypeOK, Causes
  <2> QED
    BY <1>5, <2>1 DEF AuthReturns, TypeInv, TypeOK, PageOK, TokenOK, requestVars, pollVars,
                      pageVars
<1>6. ASSUME NEW s \in Sockets, OnOpen(s) \/ OnClose(s) PROVE TypeInv'
  <2>1. history' \subseteq Causes
    BY <1>6 DEF OnOpen, OnClose, TypeInv, TypeOK, Causes
  <2>2. TypeOK'
    BY <1>6, <2>1 DEF OnOpen, OnClose, TypeInv, TypeOK, requestVars, pollVars, pageVars
  <2>3. PageOK' /\ TokenOK'
    BY <1>6 DEF OnOpen, OnClose, TypeInv, PageOK, TokenOK, pageVars
  <2> QED
    BY <2>2, <2>3 DEF TypeInv
<1>7. ASSUME NEW s \in Sockets, OnMessage(s) PROVE TypeInv'
  <2>1. Head(wire[s]) \in Requests /\ Tail(wire[s]) \in Seq(Requests)
    BY <1>7 DEF OnMessage, TypeInv, TypeOK
  <2>2. data' \in [Types -> Requests \cup {NoRows}]
    BY <1>7, <2>1 DEF OnMessage, TypeInv, TypeOK
  <2> DEFINE rest == [wire EXCEPT ![s] = Tail(@)]
             idle == IF pending = None THEN fetching ELSE [fetching EXCEPT ![pending] = FALSE]
  <2>3. rest \in [Sockets -> Seq(Requests)] /\ idle \in [Types -> BOOLEAN]
    BY <2>1 DEF TypeInv, TypeOK
  <2>4. RequestsOK'
    <3>1. CASE queued # None /\ IsWsOpen
      <4> HIDE DEF rest, idle
      <4>1. queued \in Types /\ query[queued] \in 0 .. MaxSearches
        BY <3>1 DEF TypeInv, TypeOK
      <4>2. queued' = None /\ DoSend(queued, query[queued], rest, idle)
        BY <1>7, <3>1 DEF OnMessage, rest, idle
      <4> QED
        BY <2>3, <3>1, <4>1, <4>2, DoSendType DEF TypeInv, RequestsOK
    <3>2. CASE ~(queued # None /\ IsWsOpen)
      BY <1>7, <2>3, <3>2 DEF OnMessage, PendingAfterAnswer, TypeInv, TypeOK, RequestsOK
    <3> QED
      BY <3>1, <3>2
  <2>5. TypeOK'
    BY <1>7, <2>2, <2>4 DEF OnMessage, TypeInv, TypeOK, RequestsOK, socketVars, pollVars, pageVars
  <2>6. PageOK' /\ TokenOK'
    BY <1>7 DEF OnMessage, TypeInv, PageOK, TokenOK, socketVars, pageVars
  <2> QED
    BY <2>5, <2>6 DEF TypeInv
<1>8. ASSUME NEW s \in Sockets, ServerCloses(s) \/ ServerDrops(s) PROVE TypeInv'
  <2>1. wire' \in [Sockets -> Seq(Requests)]
    <3>1. CASE ServerCloses(s)
      BY <3>1 DEF ServerCloses, TypeInv, TypeOK
    <3>2. CASE ServerDrops(s)
      BY <3>2 DEF ServerDrops, TypeInv, TypeOK
    <3> QED
      BY <1>8, <3>1, <3>2
  <2>2. history' \subseteq Causes
    BY <1>8 DEF ServerCloses, ServerDrops, TypeInv, TypeOK, Causes
  <2>3. TypeOK'
    BY <1>8, <2>1, <2>2 DEF ServerCloses, ServerDrops, TypeInv, TypeOK, socketVars, pollVars,
                            pageVars
  <2>4. PageOK' /\ TokenOK'
    BY <1>8 DEF ServerCloses, ServerDrops, TypeInv, PageOK, TokenOK, socketVars, pageVars
  <2> QED
    BY <2>3, <2>4 DEF TypeInv
<1>9. CASE PollTimeout
  <2>1. RequestsOK'
    BY <1>9, SendType DEF PollTimeout, TypeInv, TypeOK
  <2> QED
    BY <1>9, <2>1 DEF PollTimeout, TypeInv, TypeOK, PageOK, TokenOK, RequestsOK, socketVars,
                      pollVars, pageVars
<1>10. ASSUME NEW t \in Types, CheckFinds(t) \/ CheckExpires(t) \/ InitialTimeout(t)
       PROVE  TypeInv'
  <2>1. RequestsOK'
    BY <1>10, SendType DEF CheckFinds, CheckExpires, InitialTimeout, TypeInv, TypeOK, RequestsOK,
                           requestVars
  <2>2. checks' \subseteq Types /\ initials' \subseteq Types
    BY <1>10 DEF CheckFinds, CheckExpires, InitialTimeout, TypeInv, TypeOK
  <2>3. UNCHANGED <<active, polling, socketVars, pageVars, query, data, history>>
    BY <1>10 DEF CheckFinds, CheckExpires, InitialTimeout
  <2>4. TypeOK'
    BY <2>1, <2>2, <2>3 DEF TypeInv, TypeOK, RequestsOK, socketVars, pageVars
  <2> QED
    BY <2>3, <2>4 DEF TypeInv, PageOK, TokenOK, socketVars, pageVars
<1>11. CASE UNCHANGED vars
  BY <1>11 DEF vars, socketVars, requestVars, pollVars, pageVars, TypeInv, TypeOK, PageOK, TokenOK
<1> QED
  BY <1>1, <1>2, <1>3, <1>4, <1>5, <1>6, <1>7, <1>8, <1>9, <1>10, <1>11 DEF Next

\* The variables have their types in every reachable state.
THEOREM TypeCorrect == Spec => []TypeOK
<1>1. TypeInv => TypeOK
  BY DEF TypeInv
<1> QED
  BY <1>1, TypeInit, TypeStep, PTL DEF Spec

(***************************************************************************)
(* OneRequestAtATime needs nothing but the types: a request goes out only  *)
(* when none is pending, and then none is on any wire.                     *)
(***************************************************************************)
LEMMA OnlyOne ==
    ASSUME NEW w \in Seq(Requests), Len(w) = 1
    PROVE  Tail(w) = <<>>
<1>1. w # <<>>
  OBVIOUS
<1>2. Tail(w) \in Seq(Requests) /\ Len(Tail(w)) = 0
  BY <1>1, HeadTailProperties
<1> QED
  BY <1>2, EmptySeq

\* A request that goes out on an empty wire is alone on it.
LEMMA FirstOnTheWire ==
    ASSUME NEW t \in Types, NEW q \in 0 .. MaxSearches,
           NEW w \in Seq(Requests), w = Append(<<>>, [type |-> t, query |-> q])
    PROVE  Len(w) = 1 /\ Head(w).type = t
<1> DEFINE r == [type |-> t, query |-> q]
<1>1. r \in Requests /\ r.type = t
  BY DEF Requests
<1> HIDE DEF r
<1>2. Len(Append(<<>>, r)) = 1 /\ Head(Append(<<>>, r)) = r
  BY <1>1
<1> QED
  BY <1>1, <1>2 DEF r

\* A request is sent only when none is pending.
LEMMA SendOne ==
    ASSUME TypeOK, OneRequestAtATime, NEW t \in Types, NEW q \in 0 .. MaxSearches, Send(t, q)
    PROVE  OneRequestAtATime'
<1>1. CASE ~IsWsOpen \/ IsPending(t) \/ fetching[t]
  BY <1>1 DEF Send, OneRequestAtATime, requestVars
<1>2. CASE IsWsOpen /\ ~IsPending(t) /\ ~fetching[t]
  <2>1. /\ pending' = t /\ websocket \in Sockets
        /\ wire' = [wire EXCEPT ![websocket] = Append(@, [type |-> t, query |-> q])]
    BY <1>2 DEF Send, DoSend, TypeOK, IsWsOpen
  <2>2. \A s \in Sockets : wire[s] = <<>>
    <3> SUFFICES ASSUME NEW s \in Sockets, wire[s] # <<>> PROVE FALSE
        OBVIOUS
    <3>1. Head(wire[s]) \in Requests /\ pending = Head(wire[s]).type
      BY DEF OneRequestAtATime, TypeOK
    <3> QED
      BY <1>2, <3>1 DEF IsPending, Requests, Types, None
  <2>3. wire'[websocket] = Append(<<>>, [type |-> t, query |-> q])
    BY <2>1, <2>2 DEF TypeOK
  <2>4. \A s \in Sockets \ {websocket} : wire'[s] = <<>>
    BY <2>1, <2>2 DEF TypeOK
  <2>5. wire'[websocket] \in Seq(Requests)
    BY <2>1, SendType DEF RequestsOK
  <2>6. Len(wire'[websocket]) = 1 /\ Head(wire'[websocket]).type = pending'
    BY <2>1, <2>3, <2>5, FirstOnTheWire
  <2> QED
    BY <2>4, <2>6 DEF OneRequestAtATime
<1> QED
  BY <1>1, <1>2

\* Every step preserves it.
LEMMA OneStep == TypeInv /\ OneRequestAtATime /\ [Next]_vars => OneRequestAtATime'
<1> SUFFICES ASSUME TypeInv, OneRequestAtATime, [Next]_vars PROVE OneRequestAtATime'
    OBVIOUS
<1> USE DEF TypeInv
<1>0. /\ \A t \in Types : query[t] \in 0 .. MaxSearches
      /\ websocket # Null => websocket \in Sockets
  BY DEF TypeOK
<1>1. ASSUME NEW t \in Types, Mount(t) PROVE OneRequestAtATime'
  BY <1>0, <1>1, SendOne DEF Mount, StartPolling, requestVars, OneRequestAtATime
<1>2. CASE Unmount
  BY <1>2 DEF Unmount, requestVars, OneRequestAtATime
<1>3. CASE Search
  <2>1. page \in Types /\ query[page] + 1 \in 0 .. MaxSearches
    BY <1>3, BoundsAssumption DEF Search, TypeOK, Types
  <2> QED
    BY <1>3, <2>1, SendOne DEF Search
<1>4. CASE DisconnectTimeout
  <2>1. wire' = wire \/ (websocket # Null /\ wire' = [wire EXCEPT ![websocket] = <<>>])
    BY <1>4 DEF DisconnectTimeout
  <2>2. \A s \in Sockets : wire'[s] \in {wire[s], <<>>}
    BY <1>0, <2>1 DEF TypeOK
  <2>3. pending' = pending
    BY <1>4 DEF DisconnectTimeout
  <2> QED
    BY <2>2, <2>3 DEF OneRequestAtATime
<1>5. ASSUME NEW k \in inits, AuthReturns(k) PROVE OneRequestAtATime'
  BY <1>5 DEF AuthReturns, requestVars, OneRequestAtATime
<1>6. ASSUME NEW s \in Sockets, OnOpen(s) \/ OnClose(s) PROVE OneRequestAtATime'
  BY <1>6 DEF OnOpen, OnClose, requestVars, OneRequestAtATime
<1>7. ASSUME NEW s \in Sockets, OnMessage(s) PROVE OneRequestAtATime'
  <2> DEFINE rest == [wire EXCEPT ![s] = Tail(@)]
  <2>1. \A r \in Sockets : rest[r] = <<>>
    <3>1. Len(wire[s]) = 1 /\ wire[s] \in Seq(Requests)
      BY <1>7 DEF OnMessage, OneRequestAtATime, TypeOK
    <3>2. Tail(wire[s]) = <<>>
      BY <3>1, OnlyOne
    <3>3. \A r \in Sockets \ {s} : wire[r] = <<>>
      BY <1>7 DEF OnMessage, OneRequestAtATime
    <3> QED
      BY <3>2, <3>3 DEF TypeOK
  <2>2. rest \in [Sockets -> {<<>>}]
    BY <2>1 DEF TypeOK
  <2> HIDE DEF rest
  <2>3. CASE wire' = rest
    BY <2>1, <2>3 DEF OneRequestAtATime
  <2>4. CASE queued \in Types /\ IsWsOpen /\ pending' = queued
             /\ wire' = [rest EXCEPT ![websocket] =
                           Append(@, [type |-> queued, query |-> query[queued]])]
    <3>1. websocket \in Sockets
      BY <1>0, <2>4 DEF IsWsOpen
    <3>2. wire'[websocket] = Append(<<>>, [type |-> queued, query |-> query[queued]])
      BY <2>2, <2>4, <3>1
    <3>3. \A r \in Sockets \ {websocket} : wire'[r] = <<>>
      BY <2>2, <2>4
    <3>4. wire'[websocket] \in Seq(Requests)
      BY <3>1, TypeStep DEF TypeOK
    <3>5. Len(wire'[websocket]) = 1 /\ Head(wire'[websocket]).type = pending'
      BY <1>0, <2>4, <3>2, <3>4, FirstOnTheWire
    <3> QED
      BY <3>3, <3>5 DEF OneRequestAtATime
  <2> QED
    BY <1>7, <2>3, <2>4 DEF OnMessage, DoSend, TypeOK, rest
<1>8. ASSUME NEW s \in Sockets, ServerCloses(s) \/ ServerDrops(s) PROVE OneRequestAtATime'
  <2>1. pending' = pending /\ \A r \in Sockets \ {s} : wire'[r] = wire[r]
    BY <1>8 DEF ServerCloses, ServerDrops, TypeOK
  <2>2. wire'[s] = <<>>
    <3>1. CASE ServerCloses(s)
      BY <3>1 DEF ServerCloses, TypeOK
    <3>2. CASE ServerDrops(s)
      <4>1. Len(wire[s]) = 1 /\ wire[s] \in Seq(Requests)
        BY <3>2 DEF ServerDrops, OneRequestAtATime, TypeOK
      <4>2. Tail(wire[s]) = <<>>
        BY <4>1, OnlyOne
      <4> QED
        BY <3>2, <4>2 DEF ServerDrops, TypeOK
    <3> QED
      BY <1>8, <3>1, <3>2
  <2> QED
    BY <2>1, <2>2 DEF OneRequestAtATime
<1>9. CASE PollTimeout
  <2>1. polling \in Types
    BY <1>9 DEF PollTimeout, TypeOK
  <2> QED
    BY <1>0, <1>9, <2>1, SendOne DEF PollTimeout
<1>10. ASSUME NEW t \in Types, CheckFinds(t) \/ CheckExpires(t) \/ InitialTimeout(t)
       PROVE  OneRequestAtATime'
  BY <1>0, <1>10, SendOne DEF CheckFinds, CheckExpires, InitialTimeout, requestVars,
                              OneRequestAtATime
<1>11. CASE UNCHANGED vars
  BY <1>11 DEF vars, requestVars, OneRequestAtATime
<1> QED
  BY <1>1, <1>2, <1>3, <1>4, <1>5, <1>6, <1>7, <1>8, <1>9, <1>10, <1>11 DEF Next

\* Whatever is under way on any socket, old or new, is alone and is the request the
\* store believes is pending (pendingRequestType).
THEOREM OneRequestAtATimeHolds == Spec => []OneRequestAtATime
<1>1. Init => TypeInv /\ OneRequestAtATime
  BY TypeInit DEF Init, OneRequestAtATime
<1>2. TypeInv /\ OneRequestAtATime /\ [Next]_vars => (TypeInv /\ OneRequestAtATime)'
  BY TypeStep, OneStep
<1> QED
  BY <1>1, <1>2, PTL DEF Spec

(***************************************************************************)
(* RowsMatchTable: an answer is put into the table of the pending request, *)
(* which by OneRequestAtATime is the one it answers.                       *)
(***************************************************************************)
LEMMA RowsStep == TypeInv /\ OneRequestAtATime /\ RowsMatchTable /\ [Next]_vars => RowsMatchTable'
<1> SUFFICES ASSUME TypeInv, OneRequestAtATime, RowsMatchTable, [Next]_vars
             PROVE  RowsMatchTable'
    OBVIOUS
<1> USE DEF RowsMatchTable
<1>1. ASSUME NEW s \in Sockets, OnMessage(s) PROVE RowsMatchTable'
  <2>1. pending = Head(wire[s]).type
    BY <1>1 DEF OnMessage, OneRequestAtATime
  <2>2. data' = data \/ data' = [data EXCEPT ![pending] = Head(wire[s])]
    BY <1>1 DEF OnMessage, ResponseType
  <2>3. data \in [Types -> Requests \cup {NoRows}]
    BY DEF TypeInv, TypeOK
  <2> QED
    BY <2>1, <2>2, <2>3
<1>2. CASE Unmount \/ Search \/ DisconnectTimeout \/ PollTimeout
  BY <1>2 DEF Unmount, Search, DisconnectTimeout, PollTimeout
<1>3. ASSUME NEW t \in Types, Mount(t) \/ CheckFinds(t) \/ CheckExpires(t) \/ InitialTimeout(t)
      PROVE  RowsMatchTable'
  BY <1>3 DEF Mount, CheckFinds, CheckExpires, InitialTimeout
<1>4. ASSUME NEW k \in inits, AuthReturns(k) PROVE RowsMatchTable'
  BY <1>4 DEF AuthReturns
<1>5. ASSUME NEW s \in Sockets, OnOpen(s) \/ OnClose(s) \/ ServerCloses(s) \/ ServerDrops(s)
      PROVE  RowsMatchTable'
  BY <1>5 DEF OnOpen, OnClose, ServerCloses, ServerDrops
<1>6. CASE UNCHANGED vars
  BY <1>6 DEF vars
<1> QED
  BY <1>1, <1>2, <1>3, <1>4, <1>5, <1>6 DEF Next

\* The process table never shows connections, nor the other way round, whichever page
\* polls when an answer comes.
THEOREM RowsMatchTableHolds == Spec => []RowsMatchTable
<1> DEFINE Inv == TypeInv /\ OneRequestAtATime /\ RowsMatchTable
<1>1. Init => Inv
  BY TypeInit DEF Init, OneRequestAtATime, RowsMatchTable, NoRows
<1>2. Inv /\ [Next]_vars => Inv'
  BY TypeStep, OneStep, RowsStep
<1>3. Inv => RowsMatchTable
  OBVIOUS
<1> HIDE DEF Inv
<1> QED
  BY <1>1, <1>2, <1>3, PTL DEF Spec

(***************************************************************************)
(* SocketsAreOwned: while the current token is awaited the store refers to *)
(* no socket, so that the one it makes is the only one.                    *)
(***************************************************************************)
Awaited == token \in inits => websocket = Null

OwnedInv == TypeInv /\ Awaited /\ SocketsAreOwned

\* While the current token is awaited, every step leaves the store without a socket.
LEMMA AwaitedStep == TypeInv /\ Awaited /\ [Next]_vars => Awaited'
<1> SUFFICES ASSUME TypeInv, Awaited, [Next]_vars PROVE Awaited'
    OBVIOUS
<1> USE DEF Awaited
<1>1. ASSUME NEW t \in Types, Mount(t) PROVE Awaited'
  BY <1>1 DEF Mount, Connect
<1>2. CASE DisconnectTimeout
  <2>1. refs = 0
    BY <1>2 DEF DisconnectTimeout, TypeInv, PageOK
  <2> QED
    BY <1>2, <2>1 DEF DisconnectTimeout
<1>3. ASSUME NEW k \in inits, AuthReturns(k) PROVE Awaited'
  BY <1>3 DEF AuthReturns, Overtaken
<1>4. ASSUME NEW s \in Sockets, OnClose(s) PROVE Awaited'
  BY <1>4 DEF OnClose
<1>5. CASE UNCHANGED <<token, inits, websocket>>
  BY <1>5
<1> QED
  BY <1>1, <1>2, <1>3, <1>4, <1>5
     DEF Next, Unmount, Search, PollTimeout, CheckFinds, CheckExpires, InitialTimeout, OnOpen,
         OnMessage, ServerCloses, ServerDrops, socketVars, vars

\* No step leaves a socket without an owner.
LEMMA OwnedStep == OwnedInv /\ [Next]_vars => SocketsAreOwned'
<1> SUFFICES ASSUME OwnedInv, [Next]_vars, "displaced" \notin history',
                    NEW s \in Sockets, ready'[s] \in {"connecting", "open"}
             PROVE  s = websocket' /\ (page' # None \/ disconnecting')
    BY DEF SocketsAreOwned
<1> USE DEF OwnedInv, TypeInv
<1>1. history \subseteq history'
  BY DEF Next, Mount, Unmount, Search, DisconnectTimeout, AuthReturns, OnOpen, ServerCloses,
         OnClose, OnMessage, ServerDrops, PollTimeout, CheckFinds, CheckExpires, InitialTimeout,
         vars
<1>2. \A r \in Sockets : ready[r] \in {"connecting", "open"} =>
          r = websocket /\ (page # None \/ disconnecting)
  BY <1>1 DEF SocketsAreOwned
<1>3. ready \in [Sockets -> {"unused", "connecting", "open", "closing", "closed"}]
  BY DEF TypeOK
<1>4. ASSUME NEW t \in Types, Mount(t) PROVE s = websocket' /\ page' # None
  BY <1>2, <1>4 DEF Mount, Connect, Types, None
<1>5. CASE Unmount
  <2>1. refs' = 0 /\ UNCHANGED <<websocket, ready>>
    BY <1>5 DEF Unmount, Disconnect, RefsLeft, PageOK, socketVars
  <2>2. disconnecting'
    BY <1>5, <2>1 DEF Unmount, Disconnect
  <2> QED
    BY <1>2, <2>1, <2>2
<1>6. CASE DisconnectTimeout
  <2>1. refs = 0
    BY <1>6 DEF DisconnectTimeout, PageOK
  <2>2. CASE websocket = Null
    BY <1>2, <1>6, <2>1, <2>2 DEF DisconnectTimeout, Sockets, Null
  <2>3. CASE websocket # Null
    BY <1>2, <1>3, <1>6, <2>1, <2>3 DEF DisconnectTimeout
  <2> QED
    BY <2>2, <2>3
<1>7. ASSUME NEW k \in inits, AuthReturns(k) PROVE s = websocket' /\ (page' # None \/ disconnecting')
  <2>1. UNCHANGED <<page, disconnecting>>
    BY <1>7 DEF AuthReturns, pageVars
  <2>2. CASE UNCHANGED <<websocket, ready>>
    BY <1>2, <2>1, <2>2
  <2>3. CASE ~Overtaken(k) /\ \E r \in Sockets : /\ websocket' = r
                                              /\ ready' = [ready EXCEPT ![r] = "connecting"]
    <3>1. websocket = Null /\ page # None
      BY <1>7, <2>3 DEF Overtaken, Awaited, PageOK
    <3>2. \A r \in Sockets : ready[r] \notin {"connecting", "open"}
      BY <1>2, <3>1 DEF Sockets, Null
    <3> QED
      BY <1>3, <2>1, <2>3, <3>1, <3>2
  <2> QED
    BY <1>7, <2>2, <2>3 DEF AuthReturns
<1>8. ASSUME NEW r \in Sockets, OnOpen(r) \/ ServerCloses(r)
      PROVE  s = websocket' /\ (page' # None \/ disconnecting')
  BY <1>2, <1>3, <1>8 DEF OnOpen, ServerCloses, pageVars
<1>9. ASSUME NEW r \in Sockets, OnClose(r)
      PROVE  s = websocket' /\ (page' # None \/ disconnecting')
  <2>1. websocket \in {Null, r}
    BY <1>9 DEF OnClose
  <2>2. ready[s] \in {"connecting", "open"} /\ s # r
    BY <1>3, <1>9 DEF OnClose
  <2> QED
    BY <1>2, <2>1, <2>2 DEF Sockets, Null
<1>10. CASE UNCHANGED <<websocket, ready, page, disconnecting>>
  BY <1>2, <1>10
<1> QED
  BY <1>4, <1>5, <1>6, <1>7, <1>8, <1>9, <1>10
     DEF Next, Search, PollTimeout, CheckFinds, CheckExpires, InitialTimeout, OnMessage,
         ServerDrops, socketVars, pageVars, vars

\* A socket that is open or being opened is the one the store refers to, and there is a
\* page or a timer that will close it, until a late close event takes it away.
THEOREM SocketsAreOwnedHolds == Spec => []SocketsAreOwned
<1>1. Init => OwnedInv
  BY TypeInit DEF Init, OwnedInv, Awaited, SocketsAreOwned
<1>2. OwnedInv /\ [Next]_vars => OwnedInv'
  BY TypeStep, AwaitedStep, OwnedStep DEF OwnedInv
<1>3. OwnedInv => SocketsAreOwned
  BY DEF OwnedInv
<1> QED
  BY <1>1, <1>2, <1>3, PTL DEF Spec
=============================================================================
