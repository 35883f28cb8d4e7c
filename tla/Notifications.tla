----------------------------- MODULE Notifications -----------------------------
(***************************************************************************)
(* NotificationConnectionManager of services/notification_manager.py and   *)
(* the handlers of routers/v1/enterprise.py that create, push and mark     *)
(* notifications, in one process.                                          *)
(*                                                                         *)
(* The manager runs on one event loop: an action goes from one await to    *)
(* the next.  A broadcast suspends at every send, so that sockets come and *)
(* go, and other broadcasts run, in the middle of it.                      *)
(*                                                                         *)
(* Operators named Op_Variant are faulty versions of Op.                   *)
(***************************************************************************)
CONSTANTS
    Socket,
    Owner,     \* Owner[s] is the user whose token socket s presents
    Notice,
    Reader     \* Reader[n] is the user that notification n is for

Readers == {Reader[n] : n \in Notice} \cup {Owner[s] : s \in Socket}

ASSUME NotificationsAssumption == DOMAIN Owner = Socket /\ DOMAIN Reader = Notice

VARIABLES
    handler,      \* the handler of a socket
    alive,        \* the sockets whose client is there
    connections,  \* the registered sockets of each user
    stored,       \* the rows, with their is_read
    pushing,      \* the state of the background task of a notification
    targets,      \* the sockets a broadcast iterates over
    tried,        \* those it has sent to, or failed to
    stale,        \* those it failed to send to
    heard         \* what the clients have received

socketVars == <<handler, alive, connections>>
noticeVars == <<socketVars, stored, pushing, targets, tried, stale, heard>>

NotificationsTyped ==
    /\ handler \in [Socket -> {"new", "accepting", "receiving", "ended"}]
    /\ alive \subseteq Socket
    /\ connections \in [Readers -> SUBSET Socket]
    /\ stored \in [Notice -> {"none", "unread", "read"}]
    /\ pushing \in [Notice -> {"none", "queued", "sending", "done"}]
    /\ targets \in [Notice -> SUBSET Socket]
    /\ tried \in [Notice -> SUBSET Socket]
    /\ stale \in [Notice -> SUBSET Socket]
    /\ heard \subseteq Socket \X Notice

NotificationsInit ==
    /\ handler = [s \in Socket |-> "new"] /\ alive = Socket
    /\ connections = [u \in Readers |-> {}]
    /\ stored = [n \in Notice |-> "none"]
    /\ pushing = [n \in Notice |-> "none"]
    /\ targets = [n \in Notice |-> {}]
    /\ tried = [n \in Notice |-> {}]
    /\ stale = [n \in Notice |-> {}]
    /\ heard = {}

-------------------------------------------------------------------------------
(* Sockets. *)

\* The token is decoded and the user is found, then accept() suspends.
OpenStream(s) ==
    /\ handler[s] = "new" /\ s \in alive
    /\ handler' = [handler EXCEPT ![s] = "accepting"]
    /\ UNCHANGED <<alive, connections, stored, pushing, targets, tried, stale, heard>>

Connect(s) ==
    /\ handler[s] = "accepting"
    /\ connections' = [connections EXCEPT ![Owner[s]] = @ \cup {s}]
    /\ handler' = [handler EXCEPT ![s] = "receiving"]
    /\ UNCHANGED <<alive, stored, pushing, targets, tried, stale, heard>>

\* The client goes away: a send fails from now on, the handler notices later.
ClientLeaves(s) ==
    /\ handler[s] # "new" /\ s \in alive
    /\ alive' = alive \ {s}
    /\ UNCHANGED <<handler, connections, stored, pushing, targets, tried, stale, heard>>

\* A set that is empty and a user without a set are the same.
Disconnected(u, gone) == [connections EXCEPT ![u] = @ \ gone]

\* accept() or receive_text() raises; the finally clause disconnects.
EndStream(s) ==
    /\ handler[s] \in {"accepting", "receiving"} /\ s \notin alive
    /\ connections' = Disconnected(Owner[s], {s})
    /\ handler' = [handler EXCEPT ![s] = "ended"]
    /\ UNCHANGED <<alive, stored, pushing, targets, tried, stale, heard>>

-------------------------------------------------------------------------------
(* Notifications. *)

\* The row is committed, the broadcast runs after the response.
CreateNotification(n) ==
    /\ stored[n] = "none"
    /\ stored' = [stored EXCEPT ![n] = "unread"]
    /\ pushing' = [pushing EXCEPT ![n] = "queued"]
    /\ UNCHANGED <<socketVars, targets, tried, stale, heard>>

MarkRead(n) ==
    /\ stored[n] # "none"
    /\ stored' = [stored EXCEPT ![n] = "read"]
    /\ UNCHANGED <<socketVars, pushing, targets, tried, stale, heard>>

MarkUnread(n) ==
    /\ stored[n] # "none"
    /\ stored' = [stored EXCEPT ![n] = "unread"]
    /\ UNCHANGED <<socketVars, pushing, targets, tried, stale, heard>>

StartBroadcast(n) ==
    /\ pushing[n] = "queued"
    /\ pushing' = [pushing EXCEPT ![n] = "sending"]
    /\ targets' = [targets EXCEPT ![n] = connections[Reader[n]]]
    /\ UNCHANGED <<socketVars, stored, tried, stale, heard>>

\* The loop iterates over a copy of the set: a socket that comes or goes
\* during an await does not end it.
Remaining_OfSharedSet(n) ==
    IF connections[Reader[n]] = targets[n] THEN targets[n] \ tried[n] ELSE {}
Remaining(n) == targets[n] \ tried[n]

\* send_json raises if the client is gone, the loop goes on.
Send(n) ==
    /\ pushing[n] = "sending"
    /\ \E s \in Remaining(n) :
        /\ tried' = [tried EXCEPT ![n] = @ \cup {s}]
        /\ heard' = IF s \in alive THEN heard \cup {<<s, n>>} ELSE heard
        /\ stale' = IF s \in alive THEN stale ELSE [stale EXCEPT ![n] = @ \cup {s}]
    /\ UNCHANGED <<socketVars, stored, pushing, targets>>

EndBroadcast(n) ==
    /\ pushing[n] = "sending" /\ Remaining(n) = {}
    /\ pushing' = [pushing EXCEPT ![n] = "done"]
    /\ connections' = Disconnected(Reader[n], stale[n])
    /\ UNCHANGED <<handler, alive, stored, targets, tried, stale, heard>>

-------------------------------------------------------------------------------
NotificationsNext ==
    \/ \E s \in Socket : OpenStream(s) \/ Connect(s) \/ ClientLeaves(s) \/ EndStream(s)
    \/ \E n \in Notice : \/ CreateNotification(n) \/ MarkRead(n) \/ MarkUnread(n)
                         \/ StartBroadcast(n) \/ Send(n) \/ EndBroadcast(n)

NotificationsSpec == NotificationsInit /\ [][NotificationsNext]_noticeVars

-------------------------------------------------------------------------------
(* Properties. *)

\* A client that is still there hears a notification whose broadcast is over,
\* if it was registered when that began: neither sockets that come or go, nor
\* one that fails, nor another broadcast cuts it short
\* (services/notification_manager.py:24-32).  And no open stream is
\* unregistered by a broadcast: one that is created later finds it.
OpenStreamsHear ==
    /\ \A n \in Notice : pushing[n] = "done" =>
         \A s \in targets[n] \cap alive : <<s, n>> \in heard
    /\ \A s \in alive : handler[s] = "receiving" => s \in connections[Owner[s]]
===============================================================================
