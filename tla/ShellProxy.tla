----------------------------- MODULE ShellProxy -----------------------------
(***************************************************************************)
(* The proxy around an agent's terminal (src/src/launcher/shell_proxy.py): *)
(* a thread polls the Router for messages and queues them, another types   *)
(* them into the terminal and acknowledges them.  The terminal is external *)
(* and its end is the end of the proxy; a new one starts from nothing.     *)
(* Presence and heartbeats, which nothing here waits for, are left out.    *)
(***************************************************************************)
EXTENDS RouterInbox

CONSTANT
  MaxProxies     (* bound: proxies started                                 *)

VARIABLES
  proxies,       (* proxies started                                        *)
  response,      (* what the Router has answered and fetch_inbox not read  *)
  seen_ids,      (* the fetcher's                                          *)
  message_queue, (* from the fetcher to the processor                      *)
  typing,        (* what the processor is at                               *)
  typed          (* history: message -> times this proxy has typed it      *)

proxyVars == <<inboxVars, proxies, response, seen_ids, message_queue, typing, typed>>

Nothing == <<>>

ProxyInit ==
  /\ InboxInit
  /\ proxies = 1 /\ response = Nothing /\ seen_ids = {} /\ message_queue = <<>>
  /\ typing = Nothing /\ typed = [m \in Mail |-> 0]

-----------------------------------------------------------------------------
(* The fetcher *)

\* GET /inbox?limit=1
Fetch ==
  /\ response = Nothing /\ inbox # <<>>
  /\ Popped(1)
  /\ response' = <<Head(inbox)>>
  /\ UNCHANGED <<proxies, seen_ids, message_queue, typing, typed>>

\* Mutant: a copy of what has been queued is queued again
NotOwn(m) == m \notin OwnMail

New(m) == m \notin seen_ids /\ m \notin OwnMail

Queue ==
  /\ response # Nothing
  /\ response' = Nothing
  /\ IF New(Head(response))
     THEN /\ seen_ids' = seen_ids \cup {Head(response)}
          /\ message_queue' = message_queue \o response
     ELSE UNCHANGED <<seen_ids, message_queue>>
  /\ UNCHANGED <<inboxVars, proxies, typing, typed>>

\* The request times out after the Router has popped the message
InboxUnreachable ==
  /\ response # Nothing
  /\ response' = Nothing
  /\ UNCHANGED <<inboxVars, proxies, seen_ids, message_queue, typing, typed>>

-----------------------------------------------------------------------------
(* The processor *)

\* It takes a message and types it; the write may raise, and the message is gone
Inject ==
  /\ typing = Nothing /\ message_queue # <<>>
  /\ message_queue' = Tail(message_queue)
  /\ \/ /\ typing' = <<Head(message_queue)>>
        /\ typed' = [typed EXCEPT ![Head(message_queue)] = @ + 1]
     \/ UNCHANGED <<typing, typed>>
  /\ UNCHANGED <<inboxVars, proxies, response, seen_ids>>

\* send_ack posts to /message, which the Router's API does not have
SendAck ==
  /\ typing # Nothing
  /\ PostAck("/message", Head(typing))
  /\ typing' = Nothing
  /\ UNCHANGED <<proxies, response, seen_ids, message_queue, typed>>

RestartProxy ==
  /\ proxies < MaxProxies
  /\ proxies' = proxies + 1
  /\ response' = Nothing /\ seen_ids' = {} /\ message_queue' = <<>> /\ typing' = Nothing
  /\ typed' = [m \in Mail |-> 0]
  /\ UNCHANGED inboxVars

ProxyNext ==
  \/ RouterStep /\ UNCHANGED <<proxies, response, seen_ids, message_queue, typing, typed>>
  \/ Fetch \/ Queue \/ InboxUnreachable \/ Inject \/ SendAck \/ RestartProxy

ProxySpec == ProxyInit /\ [][ProxyNext]_proxyVars

-----------------------------------------------------------------------------
\* However often the Router delivers a message, which it does until it gives up as
\* the acknowledgement never reaches it, and whichever responses are lost, a proxy
\* types it into the terminal at most once, and never one of its own role.
TypedOnce == \A m \in Mail : typed[m] <= 1 /\ (m \in OwnMail => typed[m] = 0)

=============================================================================
