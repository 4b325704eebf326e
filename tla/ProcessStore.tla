---------------------------- MODULE ProcessStore ----------------------------
(***************************************************************************)
(* The store behind the process page and the network page of the panel's   *)
(* front end (frontend/src/store/modules/process.ts): one WebSocket that   *)
(* both pages share, opened after an awaited authentication request,       *)
(* closed 500 ms after the last page is left, and polled by timers.        *)
(*                                                                         *)
(* The browser runs one callback at a time, so every action below is one   *)
(* callback: a page mounted or left, a timer, the continuation of the      *)
(* await in initWebSocket, or an event of a socket.  An answer carries no  *)
(* type: the store attributes it to the request it believes is pending.    *)
(* What matters is the order in which callbacks of old and new sockets,    *)
(* of timers and of pages arrive.  isConnected, psLoading and netLoading,  *)
(* which the store only writes for display, are left out.                  *)
(***************************************************************************)
EXTENDS Integers, Sequences, FiniteSets

CONSTANTS MaxVisits,      \* how often a page is opened (bound)
          MaxSearches     \* how often a filter is changed (bound)

ASSUME BoundsAssumption == MaxVisits \in Nat /\ MaxSearches \in Nat

Types == {"ps", "net"}
None == "none"

(***************************************************************************)
(* A visit starts at most one initWebSocket and so opens at most one       *)
(* socket: sockets are numbered in the order they are made, and 0 is null. *)
(***************************************************************************)
Sockets == 1 .. MaxVisits
Null == 0

Requests == [type : Types, query : 0 .. MaxSearches]
NoRows == [type |-> None, query |-> 0]

VARIABLES
    page,           \* the page on screen, or None
    visits,         \* how many pages were opened
    refs,           \* connectionRefCount
    websocket,      \* the socket the store refers to, or Null
    ready,          \* the readyState of every socket
    wire,           \* per socket, the requests sent on it and not answered
    token,          \* initWebSocketToken
    inits,          \* tokens of the initWebSocket calls awaiting checkStreamAuth
    connecting,     \* isConnecting
    pending,        \* pendingRequestType
    queued,         \* queuedRequestType
    fetching,       \* isPsFetching, isNetFetching
    active,         \* activePollingType
    polling,        \* the type pollingTimer sends, or None
    checks,         \* the types some checkConnection interval will send
    initials,       \* first fetches waiting for their initialDelay
    disconnecting,  \* a disconnectTimer is running
    query,          \* psSearch, netSearch: counts the changes of each filter
    data,           \* psData, netData: the request whose rows they show
    history         \* which of the named causes has occurred

socketVars == <<websocket, ready, inits, token, connecting>>
requestVars == <<wire, pending, queued, fetching>>
pollVars == <<active, polling, checks, initials>>
pageVars == <<page, visits, refs, disconnecting>>
vars == <<socketVars, requestVars, pollVars, pageVars, query, data, history>>

(***************************************************************************)
(* "lost": an answer, or the connection, was refused, dropped or ended     *)
(* with its socket.  "displaced": the close event of an earlier socket     *)
(* took the reference to a newer one away.                                 *)
(***************************************************************************)
Causes == {"lost", "displaced"}

Init ==
    /\ page = None /\ visits = 0 /\ refs = 0
    /\ websocket = Null
    /\ ready = [s \in Sockets |-> "unused"]
    /\ wire = [s \in Sockets |-> <<>>]
    /\ token = 0 /\ inits = {} /\ connecting = FALSE
    /\ pending = None /\ queued = None
    /\ fetching = [t \in Types |-> FALSE]
    /\ active = None /\ polling = None
    /\ checks = {} /\ initials = {}
    /\ disconnecting = FALSE
    /\ query = [t \in Types |-> 0]
    /\ data = [t \in Types |-> NoRows]
    /\ history = {}

-----------------------------------------------------------------------------
(* Requests *)

IsWsOpen == websocket # Null /\ ready[websocket] = "open"

\* doSendMessage: a request of type t for filter q goes out on the current
\* socket; w and f are the wire and the flags it finds.
DoSend(t, q, w, f) ==
    /\ pending' = t
    /\ fetching' = [f EXCEPT ![t] = TRUE]
    /\ wire' = [w EXCEPT ![websocket] = Append(@, [type |-> t, query |-> q])]

\* Mutant: only a request of the same type is waited for.
SameIsPending(t) == pending = t

\* A request has to wait for the answer to another one.
IsPending(t) == pending # None

\* sendPsMessage, sendNetMessage: only one request at a time, one more in the
\* queue, whose earlier content is overwritten.
Send(t, q) ==
    \/ /\ ~IsWsOpen
       /\ UNCHANGED requestVars
    \/ /\ IsWsOpen /\ IsPending(t)
       /\ queued' = t
       /\ UNCHANGED <<wire, pending, fetching>>
    \/ /\ IsWsOpen /\ ~IsPending(t) /\ fetching[t]
       /\ UNCHANGED requestVars
    \/ /\ IsWsOpen /\ ~IsPending(t) /\ ~fetching[t]
       /\ DoSend(t, q, wire, fetching)
       /\ UNCHANGED queued

-----------------------------------------------------------------------------
(* The connection *)

\* connect: a running disconnectTimer is cancelled; initWebSocket runs up to
\* its await unless a socket exists or is being made.
Connect ==
    /\ refs' = refs + 1
    /\ disconnecting' = FALSE
    /\ IF websocket = Null /\ ~connecting
         THEN /\ token' = token + 1
              /\ inits' = inits \cup {token + 1}
              /\ connecting' = TRUE
         ELSE UNCHANGED <<token, inits, connecting>>
    /\ UNCHANGED <<websocket, ready>>

\* Mutant: a page that is left is still counted.
RefsKept == refs

RefsLeft == IF refs = 0 THEN 0 ELSE refs - 1

\* disconnect: the timer that closes the socket is started with the last page.
Disconnect ==
    /\ refs' = RefsLeft
    /\ disconnecting' = (disconnecting \/ refs' = 0)

StopPolling == active' = None /\ polling' = None

\* startPolling: the first fetch at once, after initialDelay when the table
\* has rows already (an answer may hold none), or when a check finds the socket
\* open.
StartPolling(t) ==
    /\ active' = t /\ polling' = t
    /\ \E delay \in BOOLEAN :
       /\ delay => data[t] # NoRows
       /\ \/ /\ IsWsOpen /\ delay
             /\ initials' = initials \cup {t}
             /\ UNCHANGED <<checks, requestVars>>
          \/ /\ IsWsOpen /\ ~delay
             /\ Send(t, query[t])
             /\ UNCHANGED <<checks, initials>>
          \/ /\ ~IsWsOpen
             /\ checks' = checks \cup {t}
             /\ UNCHANGED <<initials, requestVars>>

\* onMounted of the page of type t.
Mount(t) ==
    /\ page = None /\ visits < MaxVisits
    /\ page' = t /\ visits' = visits + 1
    /\ Connect
    /\ StartPolling(t)
    /\ UNCHANGED <<query, data, history>>

\* onUnmounted: the timers of the first fetch survive it.
Unmount ==
    /\ page # None
    /\ page' = None
    /\ StopPolling
    /\ Disconnect
    /\ UNCHANGED <<visits, checks, initials, socketVars, requestVars, query, data, history>>

\* The user changes the filter of the page and presses enter.
Search ==
    /\ page # None /\ query["ps"] + query["net"] < MaxSearches
    /\ query' = [query EXCEPT ![page] = @ + 1]
    /\ Send(page, query[page] + 1)
    /\ UNCHANGED <<socketVars, pollVars, pageVars, data, history>>

\* close() and the end of a socket take what was on the wire with them.
Gone(s) == IF wire[s] # <<>> THEN {"lost"} ELSE {}

\* The disconnectTimer fires; with no page left it is closeWebSocket.
DisconnectTimeout ==
    /\ disconnecting
    /\ disconnecting' = FALSE
    /\ IF refs = 0
         THEN /\ token' = token + 1
              /\ StopPolling
              /\ connecting' = FALSE
              /\ websocket' = Null
              /\ IF websocket = Null THEN UNCHANGED <<ready, wire, history>>
                 ELSE /\ ready' = [ready EXCEPT ![websocket] = "closing"]
                      /\ wire' = [wire EXCEPT ![websocket] = <<>>]
                      /\ history' = history \cup Gone(websocket)
         ELSE UNCHANGED <<token, active, polling, connecting, websocket, ready, wire, history>>
    /\ UNCHANGED <<page, visits, refs, inits, pending, queued, fetching,
                   checks, initials, query, data>>

\* Mutant: the token is not compared.
NotWanted(k) == refs = 0

\* The token tells a call that was overtaken while it waited, and
\* connectionRefCount one nobody waits for.
Overtaken(k) == k # token \/ refs = 0

\* checkStreamAuth answers and initWebSocket goes on.
AuthReturns(k) ==
    /\ k \in inits
    /\ inits' = inits \ {k}
    /\ \/ /\ Overtaken(k)
          /\ connecting' = (connecting /\ k # token)
          /\ UNCHANGED <<websocket, ready, history>>
       \/ /\ ~Overtaken(k)
          /\ connecting' = FALSE
          /\ history' = history \cup {"lost"}
          /\ UNCHANGED <<websocket, ready>>
       \/ /\ ~Overtaken(k)
          /\ \E s \in Sockets :
                /\ ready[s] = "unused"
                /\ \A r \in 1 .. (s - 1) : ready[r] # "unused"
                /\ websocket' = s
                /\ ready' = [ready EXCEPT ![s] = "connecting"]
          /\ UNCHANGED <<connecting, history>>
    /\ UNCHANGED <<token, requestVars, pollVars, pageVars, query, data>>

-----------------------------------------------------------------------------
(* Events of a socket s; the handlers do not ask which socket is theirs *)

OnOpen(s) ==
    /\ ready[s] = "connecting"
    /\ ready' = [ready EXCEPT ![s] = "open"]
    /\ connecting' = FALSE
    /\ UNCHANGED <<websocket, inits, token, requestVars, pollVars, pageVars, query, data, history>>

\* The server, or the network, ends the connection.
ServerCloses(s) ==
    /\ ready[s] \in {"connecting", "open"}
    /\ ready' = [ready EXCEPT ![s] = "closing"]
    /\ wire' = [wire EXCEPT ![s] = <<>>]
    /\ history' = history \cup {"lost"}
    /\ UNCHANGED <<websocket, inits, token, connecting, pending, queued, fetching,
                   pollVars, pageVars, query, data>>

\* onClose, for a socket closed by either side, whenever the browser reports it.
OnClose(s) ==
    /\ ready[s] = "closing"
    /\ ready' = [ready EXCEPT ![s] = "closed"]
    /\ connecting' = FALSE
    /\ websocket' = Null
    /\ history' = history \cup IF websocket \notin {Null, s} THEN {"displaced"} ELSE {}
    /\ UNCHANGED <<inits, token, requestVars, pollVars, pageVars, query, data>>

\* Mutant: an answer is taken to be for the page that polls.
ActiveType == active

\* The type of request the store takes an answer for: the pending one.
ResponseType == pending

\* Mutant: only an answer that is shown clears pendingRequestType.
PendingIfLeft == IF pending = active THEN None ELSE pending

PendingAfterAnswer == None

\* onMessage: the answer is attributed, shown if its page is the one that
\* polls, and the queued request goes out.
OnMessage(s) ==
    /\ ready[s] = "open" /\ wire[s] # <<>>
    /\ LET answer == Head(wire[s])
           type == ResponseType
           rest == [wire EXCEPT ![s] = Tail(@)]
           idle == IF pending = None THEN fetching ELSE [fetching EXCEPT ![pending] = FALSE]
           shown == type # None /\ type = active
       IN /\ data' = IF shown THEN [data EXCEPT ![type] = answer] ELSE data
          /\ IF queued # None /\ IsWsOpen
               THEN /\ queued' = None
                    /\ DoSend(queued, query[queued], rest, idle)
               ELSE /\ pending' = PendingAfterAnswer
                    /\ fetching' = idle
                    /\ wire' = rest
                    /\ UNCHANGED queued
    /\ UNCHANGED <<socketVars, pollVars, pageVars, query, history>>

\* The agent fails to gather what was asked and sends nothing.
ServerDrops(s) ==
    /\ wire[s] # <<>>
    /\ wire' = [wire EXCEPT ![s] = Tail(@)]
    /\ history' = history \cup {"lost"}
    /\ UNCHANGED <<socketVars, pending, queued, fetching, pollVars, pageVars, query, data>>

-----------------------------------------------------------------------------
(* Timers *)

PollTimeout ==
    /\ polling # None
    /\ Send(polling, query[polling])
    /\ UNCHANGED <<socketVars, pollVars, pageVars, query, data, history>>

\* checkConnection finds the socket open: the first fetch at once, or after the
\* initialDelay that only a table with rows was given when its page was opened;
CheckFinds(t) ==
    /\ t \in checks /\ IsWsOpen
    /\ checks' = checks \ {t}
    /\ \/ /\ Send(t, query[t])
          /\ UNCHANGED initials
       \/ /\ data[t] # NoRows
          /\ initials' = initials \cup {t}
          /\ UNCHANGED requestVars
    /\ UNCHANGED <<active, polling, socketVars, pageVars, query, data, history>>

\* or it is given up after five seconds.
CheckExpires(t) ==
    /\ t \in checks
    /\ checks' = checks \ {t}
    /\ UNCHANGED <<active, polling, initials, socketVars, requestVars, pageVars, query, data, history>>

InitialTimeout(t) ==
    /\ t \in initials
    /\ initials' = initials \ {t}
    /\ Send(t, query[t])
    /\ UNCHANGED <<active, polling, checks, socketVars, pageVars, query, data, history>>

Next ==
    \/ \E t \in Types :
          Mount(t) \/ CheckFinds(t) \/ CheckExpires(t) \/ InitialTimeout(t)
    \/ Unmount \/ Search \/ DisconnectTimeout \/ PollTimeout
    \/ \E k \in inits : AuthReturns(k)
    \/ \E s \in Sockets :
          OnOpen(s) \/ OnClose(s) \/ OnMessage(s) \/ ServerCloses(s) \/ ServerDrops(s)

(***************************************************************************)
(* Fairness: the browser runs every callback that is due, the network      *)
(* opens a connection or reports its end, and the agent answers a request  *)
(* or drops it.  The user, a server that closes and an agent that fails    *)
(* owe nothing.  The callbacks of Once are due once each, so it is enough  *)
(* that some callback of theirs runs while any is due.                     *)
(***************************************************************************)
Once ==
    \/ DisconnectTimeout
    \/ \E t \in Types : InitialTimeout(t)
    \/ \E k \in inits : AuthReturns(k)
    \/ \E s \in Sockets : OnOpen(s) \/ OnClose(s)

Fairness ==
    /\ WF_vars(Once)
    /\ WF_vars(PollTimeout)
    /\ WF_vars(\E s \in Sockets : OnMessage(s))

Spec == Init /\ [][Next]_vars

FairSpec == Spec /\ Fairness

-----------------------------------------------------------------------------
(* Properties *)

TypeOK ==
    /\ page \in Types \cup {None}
    /\ visits \in 0 .. MaxVisits
    /\ refs \in {0, 1}
    /\ websocket \in Sockets \cup {Null}
    /\ ready \in [Sockets -> {"unused", "connecting", "open", "closing", "closed"}]
    /\ wire \in [Sockets -> Seq(Requests)]
    /\ token \in 0 .. 2 * MaxVisits
    /\ inits \subseteq 1 .. token
    /\ pending \in Types \cup {None} /\ queued \in Types \cup {None}
    /\ fetching \in [Types -> BOOLEAN]
    /\ active \in Types \cup {None} /\ polling \in Types \cup {None}
    /\ checks \subseteq Types /\ initials \subseteq Types
    /\ connecting \in BOOLEAN /\ disconnecting \in BOOLEAN
    /\ query \in [Types -> 0 .. MaxSearches]
    /\ data \in [Types -> Requests \cup {NoRows}]
    /\ history \subseteq Causes

(***************************************************************************)
(* The answers carry no type, so the store relies on there being one       *)
(* request at a time: whatever is on a wire is alone, on all sockets old   *)
(* and new, and is the one the store believes is pending - through every   *)
(* order of page changes, timers, reconnections and late events.           *)
(***************************************************************************)
OneRequestAtATime ==
    \A s \in Sockets : wire[s] # <<>> =>
        /\ Len(wire[s]) = 1
        /\ pending = Head(wire[s]).type
        /\ \A r \in Sockets \ {s} : wire[r] = <<>>

(***************************************************************************)
(* The process table never shows connections, nor the other way round,     *)
(* however quickly the user goes back and forth between the two pages with *)
(* answers under way (responseType in onMessage).                          *)
(***************************************************************************)
RowsMatchTable == \A t \in Types : data[t].type \in {t, None}

(***************************************************************************)
(* No socket is left behind: one that is open or being opened is the one   *)
(* the store refers to, and a page is there or the timer that will close   *)
(* it is running - in spite of the await between the decision to open a    *)
(* socket and its creation (the token of initWebSocket), as long as no     *)
(* late close event displaced a newer socket.                              *)
(***************************************************************************)
SocketsAreOwned ==
    "displaced" \notin history =>
        \A s \in Sockets : ready[s] \in {"connecting", "open"} =>
            s = websocket /\ (page # None \/ disconnecting)

(***************************************************************************)
(* The rows for the filter of the page on screen arrive, unless the user   *)
(* goes on, an answer or the connection was lost, or a late close event    *)
(* displaced the socket.  After those nothing in the store recovers by     *)
(* itself: onClose does not reconnect, and only an answer clears           *)
(* pendingRequestType.                                                     *)
(***************************************************************************)
SearchIsAnswered ==
    \A t \in Types :
        page = t ~> \/ page # t
                    \/ data[t] = [type |-> t, query |-> query[t]]
                    \/ history # {}
=============================================================================
