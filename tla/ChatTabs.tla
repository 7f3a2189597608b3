------------------------------ MODULE ChatTabs ------------------------------
(***************************************************************************)
(* The tabs of the web client (web/src/stores/useChatStore.ts) and its     *)
(* socket (web/src/ws/client.ts): what is shown is kept in flat fields and *)
(* mirrored in a cache for each tab; opening a tab fetches its messages    *)
(* over HTTP and then joins the conversation over the WebSocket.           *)
(*                                                                         *)
(* A message is a pair of its conversation and a number; the number 0 is   *)
(* that of the optimistic message sendText shows before the server has     *)
(* answered.  Of the BFF there is what the handlers of one connection do:  *)
(* it takes the requests of the connection one after the other, answers a  *)
(* join with the newest messages, tells of the messages of a turn only the *)
(* connection the turn was asked over, and of the messages of an artifact  *)
(* or a deployment every connection that has joined.                       *)
(***************************************************************************)
EXTENDS Naturals, Sequences, FiniteSets, Functions

CONSTANTS
  Convs,       (* conversations                                            *)
  PageSize,    (* the newest messages a history or a fetch has: 200        *)
  MaxStored,   (* bound: messages stored                                   *)
  MaxOpens,    (* bound: fetches started                                   *)
  MaxDrops     (* bound: connections lost                                  *)

ASSUME TabsAssumption == {PageSize, MaxStored, MaxOpens, MaxDrops} \subseteq Nat /\ "no tab" \notin Convs

VARIABLES
  currentConvId,   (* NoTab is null                                        *)
  activeTab,   (* activeTabId                                              *)
  openTabs,    (* openTabIds                                               *)
  shown,       (* messages: the flat field                                 *)
  tabStates,   (* conversation -> the messages in its cache                *)
  fetches,     (* openTab calls that await fetchMessages                   *)
  fetched,     (* how many there have been                                 *)
  socket,      (* "open" or "closed"                                       *)
  drops,       (* connections lost                                         *)
  stored,      (* conversation -> how many messages the BFF has            *)
  requests,    (* what the client has sent on the connection               *)
  joining,     (* the join whose history the BFF has read, if any          *)
  subscribed,  (* conversations the BFF has joined this connection to      *)
  turns,       (* those with a turn that was asked over it                 *)
  wire,        (* events on the connection                                 *)
  told,        (* history: conversation -> the messages of its last history*)
               (* on this connection and those it was told of since        *)
  mixed        (* history: a fetch came back to another tab than its own   *)

tabVars == <<currentConvId, activeTab, openTabs, shown, tabStates, fetches, fetched, socket, drops,
             stored, requests, joining, subscribed, turns, wire, told, mixed>>
viewVars == <<currentConvId, activeTab, openTabs, shown, tabStates>>
connVars == <<joining, subscribed, turns, wire, told>>
netVars == <<socket, drops, stored, requests, connVars>>

NoTab == "no tab"
Rows(c) == {<<c, n>> : n \in 1..stored[c]}
Page(c) == {m \in Rows(c) : m[2] + PageSize > stored[c]}
Temp(c) == <<c, 0>>
Opened == {openTabs[i] : i \in DOMAIN openTabs}
Cached(cache, c) == IF c \in DOMAIN cache THEN cache[c] ELSE {}
Put(cache, c, ms) == [d \in DOMAIN cache \cup {c} |-> IF d = c THEN ms ELSE cache[d]]

TabInit ==
  /\ currentConvId = NoTab /\ activeTab = NoTab /\ openTabs = <<>> /\ shown = {}
  /\ tabStates = [c \in {} |-> {}] /\ fetches = {} /\ fetched = 0
  /\ socket = "open" /\ drops = 0 /\ stored = [c \in Convs |-> 0]
  /\ requests = <<>> /\ joining = {} /\ subscribed = {} /\ turns = {} /\ wire = <<>>
  /\ told = [c \in Convs |-> {}] /\ mixed = FALSE

-----------------------------------------------------------------------------
(* The socket *)

\* send drops what is sent while the socket is not open
ToServer(t, c) == [t |-> t, c |-> c]
Send(r) == requests' = IF socket = "open" THEN Append(requests, r) ELSE requests
Join(c) == Send(ToServer("join", c))

\* The BFF goes on sending to the connection that is closed; nobody hears it
LoseSocket ==
  /\ socket = "open" /\ drops < MaxDrops
  /\ socket' = "closed" /\ drops' = drops + 1
  /\ requests' = <<>> /\ joining' = {} /\ subscribed' = {} /\ turns' = {} /\ wire' = <<>>
  /\ told' = [c \in Convs |-> {}]
  /\ UNCHANGED <<viewVars, fetches, fetched, stored, mixed>>

\* onConnected joins every open tab
Reconnect ==
  /\ socket = "closed"
  /\ socket' = "open"
  /\ requests' = [i \in DOMAIN openTabs |-> ToServer("join", openTabs[i])]
  /\ UNCHANGED <<viewVars, fetches, fetched, drops, stored, connVars, mixed>>

-----------------------------------------------------------------------------
(* The tabs *)

\* What openTab and switchTab do first: the shown messages go to their cache
Saved == IF currentConvId = NoTab THEN tabStates ELSE Put(tabStates, currentConvId, shown)

OpenTab(c) ==
  /\ c \notin Opened
  /\ LET cached == Cached(Saved, c) IN
       /\ activeTab' = c /\ currentConvId' = c /\ openTabs' = Append(openTabs, c)
       /\ tabStates' = Put(Saved, c, cached)
       /\ shown' = cached
       /\ IF cached = {}
          THEN /\ fetched < MaxOpens
               /\ fetched' = fetched + 1
               /\ fetches' = fetches \cup {[id |-> fetched, c |-> c, at |-> "asked", rows |-> {}]}
               /\ UNCHANGED requests
          ELSE Join(c) /\ UNCHANGED <<fetches, fetched>>
  /\ UNCHANGED <<socket, drops, stored, connVars, mixed>>

\* The BFF answers the request of f
FetchRead(f) ==
  /\ f.at = "asked"
  /\ fetches' = (fetches \ {f}) \cup {[f EXCEPT !.at = "read", !.rows = Page(f.c)]}
  /\ UNCHANGED <<viewVars, fetched, netVars, mixed>>

\* The answer overwrites the flat messages, whichever tab they belong to by now,
\* and the tab's cache, whether or not the tab is still open.
Fetched(f) ==
  /\ f.at = "read"
  /\ fetches' = fetches \ {f}
  /\ shown' = f.rows
  /\ tabStates' = Put(tabStates, f.c, f.rows)
  /\ mixed' = (mixed \/ currentConvId # f.c)
  /\ Join(f.c)
  /\ UNCHANGED <<currentConvId, activeTab, openTabs, fetched, socket, drops, stored, connVars>>

FetchFails(f) ==
  /\ fetches' = fetches \ {f}
  /\ Join(f.c)
  /\ UNCHANGED <<viewVars, fetched, socket, drops, stored, connVars, mixed>>

\* The tab to the right takes over, or the last one
CloseTab(i) ==
  /\ i \in DOMAIN openTabs
  /\ LET c == openTabs[i]
         rest == SubSeq(openTabs, 1, i - 1) \o SubSeq(openTabs, i + 1, Len(openTabs))
         next == CASE activeTab # c                 -> activeTab
                   [] activeTab = c /\ rest = <<>>  -> NoTab
                   [] OTHER                         -> rest[IF i <= Len(rest) THEN i ELSE Len(rest)]
         cache == [d \in DOMAIN tabStates \ {c} |-> tabStates[d]]
     IN /\ openTabs' = rest /\ tabStates' = cache
        /\ activeTab' = next /\ currentConvId' = next
        /\ shown' = Cached(cache, next)
  /\ UNCHANGED <<fetches, fetched, netVars, mixed>>

SwitchTab(c) ==
  /\ c \in Opened /\ c # currentConvId
  /\ activeTab' = c /\ currentConvId' = c
  /\ tabStates' = Saved
  /\ shown' = Cached(Saved, c)
  /\ UNCHANGED <<openTabs, fetches, fetched, netVars, mixed>>

\* updateConversationMeta archives the conversation that is shown
Archive ==
  /\ currentConvId # NoTab
  /\ currentConvId' = NoTab /\ shown' = {}
  /\ UNCHANGED <<activeTab, openTabs, tabStates, fetches, fetched, netVars, mixed>>

-----------------------------------------------------------------------------
(* The handlers of the connection: one request after the other *)

\* join: subscribed, then the rows are read, then two more queries are awaited
JoinRead ==
  /\ joining = {} /\ requests # <<>> /\ Head(requests).t = "join"
  /\ LET c == Head(requests).c IN
       subscribed' = subscribed \cup {c} /\ joining' = {[c |-> c, rows |-> Page(c)]}
  /\ requests' = Tail(requests)
  /\ UNCHANGED <<viewVars, fetches, fetched, socket, drops, stored, turns, wire, told, mixed>>

HistorySent(j) ==
  /\ joining' = joining \ {j}
  /\ wire' = Append(wire, [t |-> "history", c |-> j.c, user |-> FALSE, rows |-> j.rows])
  /\ told' = [told EXCEPT ![j.c] = j.rows]
  /\ UNCHANGED <<viewVars, fetches, fetched, socket, drops, stored, requests, subscribed, turns, mixed>>

Total == Cardinality(UNION {Rows(c) : c \in Convs})

\* A message is stored; this connection is told of it or not
Store(c, user, heard) ==
  /\ Total < MaxStored
  /\ stored' = [stored EXCEPT ![c] = @ + 1]
  /\ LET m == <<c, stored[c] + 1>> IN
       IF heard
       THEN /\ wire' = Append(wire, [t |-> "created", c |-> c, user |-> user, rows |-> {m}])
            /\ told' = [told EXCEPT ![c] = @ \cup {m}]
       ELSE UNCHANGED <<wire, told>>

\* send_message: the user's message, and the beginning of a turn
TextTaken ==
  /\ joining = {} /\ requests # <<>> /\ Head(requests).t = "text"
  /\ Store(Head(requests).c, TRUE, TRUE)
  /\ requests' = Tail(requests) /\ turns' = turns \cup {Head(requests).c}
  /\ UNCHANGED <<viewVars, fetches, fetched, socket, drops, joining, subscribed, mixed>>

\* No text, a bad mention, nobody to answer
TextRefused ==
  /\ joining = {} /\ requests # <<>> /\ Head(requests).t = "text"
  /\ requests' = Tail(requests)
  /\ UNCHANGED <<viewVars, fetches, fetched, socket, drops, stored, connVars, mixed>>

\* An agent's message of a turn that was asked over this connection: conn.send
TurnMessage(c) ==
  /\ c \in turns /\ Store(c, FALSE, TRUE)
  /\ UNCHANGED <<viewVars, fetches, fetched, socket, drops, requests, joining, subscribed, turns, mixed>>

\* A message of an artifact or a deployment, the user's or the card of an agent:
\* broadcast_conversation
BroadcastMessage(c) ==
  /\ \E user \in BOOLEAN : Store(c, user, c \in subscribed)
  /\ UNCHANGED <<viewVars, fetches, fetched, socket, drops, requests, joining, subscribed, turns, mixed>>

\* A message of a turn that was asked over another connection: of another browser, or
\* of this one before it was lost
MessageFromElsewhere(c) ==
  /\ Store(c, FALSE, FALSE)
  /\ UNCHANGED <<viewVars, fetches, fetched, socket, drops, requests, joining, subscribed, turns, mixed>>

-----------------------------------------------------------------------------
(* Messages *)

\* sendText: shown at once, and sent if the socket is open (bound: one optimistic
\* message at a time)
SendText ==
  /\ currentConvId # NoTab /\ Temp(currentConvId) \notin shown
  /\ shown' = shown \cup {Temp(currentConvId)}
  /\ Send(ToServer("text", currentConvId))
  /\ UNCHANGED <<currentConvId, activeTab, openTabs, tabStates, fetches, fetched, socket, drops, stored,
                 connVars, mixed>>

\* The reducer: history replaces the messages, a message of the user that is created
\* takes the place of an optimistic one.
Reduced(ms, evt) ==
  IF evt.t = "history" THEN evt.rows
  ELSE IF evt.rows \subseteq ms THEN ms
  ELSE (IF evt.user THEN ms \ {Temp(evt.c)} ELSE ms) \cup evt.rows

\* Mutant: every event goes to the messages that are shown
NothingInBackground(evt) == FALSE

\* Whether an event goes to the cache of a tab in the background
Background(evt) == evt.c # currentConvId

ApplyServerEvent ==
  /\ wire # <<>>
  /\ wire' = Tail(wire)
  /\ LET evt == Head(wire) IN
       IF Background(evt)
       THEN /\ tabStates' = IF evt.c \in DOMAIN tabStates
                            THEN Put(tabStates, evt.c, Reduced(tabStates[evt.c], evt))
                            ELSE tabStates
            /\ shown' = shown
       ELSE /\ shown' = Reduced(shown, evt)
            /\ tabStates' = Put(tabStates, evt.c, shown')
  /\ UNCHANGED <<currentConvId, activeTab, openTabs, fetches, fetched, socket, drops, stored, requests,
                 joining, subscribed, turns, told, mixed>>

TabNext ==
  \/ \E c \in Convs : \/ OpenTab(c) \/ SwitchTab(c)
                     \/ TurnMessage(c) \/ BroadcastMessage(c) \/ MessageFromElsewhere(c)
  \/ JoinRead \/ (\E j \in joining : HistorySent(j)) \/ TextTaken \/ TextRefused
  \/ \E f \in fetches : FetchRead(f) \/ Fetched(f) \/ FetchFails(f)
  \/ \E i \in DOMAIN openTabs : CloseTab(i)
  \/ Archive \/ SendText \/ ApplyServerEvent \/ LoseSocket \/ Reconnect

TabSpec == TabInit /\ [][TabNext]_tabVars

-----------------------------------------------------------------------------
(* Properties *)

TabTypeOK ==
  /\ currentConvId \in {activeTab, NoTab}
  /\ activeTab \in Opened \cup {NoTab} /\ IsInjective(openTabs)
  /\ Opened \subseteq DOMAIN tabStates
  /\ subscribed \subseteq Convs /\ socket \in {"open", "closed"}

\* The messages of two conversations are mixed up by nothing but an answer that
\* comes back when another tab is shown (openTab sets the flat messages then).
NoTabMixed ==
  mixed \/ /\ \A m \in shown : m[1] = currentConvId
           /\ \A c \in DOMAIN tabStates : \A m \in tabStates[c] : m[1] = c

\* c is to be joined, once the BFF gets to the request
Awaited(c) == (\E k \in DOMAIN requests : requests[k] = ToServer("join", c)) \/ \E j \in joining : j.c = c

\* On an open socket every open tab whose openTab call is over is joined or about to be,
\* whether it was opened before, while or after the socket was down.
OpenTabsJoined ==
  socket = "open" =>
    \A c \in Opened : c \in subscribed \/ Awaited(c) \/ \E f \in fetches : f.c = c

View(c) == IF c = currentConvId THEN shown ELSE Cached(tabStates, c)

\* Once nothing is under way, every open tab holds every message of the last history
\* the BFF has sent this connection for it and every message the connection was told of
\* since: what a switch, a lost connection or a fetch that overlapped with events took
\* away has been brought back.  (No more than that: a message of a turn asked over
\* another connection, and one that is stored between the reading of a history and its
\* answer, are missing until the next history.)
NothingToldIsLost ==
  socket = "open" /\ requests = <<>> /\ joining = {} /\ wire = <<>> /\ fetches = {} /\ ~mixed =>
    \A c \in Opened : told[c] \subseteq View(c)

\* What the user sees in the tabs, whatever order they were opened, switched and
\* closed in and whenever the connection was lost
TabsSound == TabTypeOK /\ NoTabMixed /\ OpenTabsJoined /\ NothingToldIsLost
=============================================================================
