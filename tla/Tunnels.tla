-------------------------------- MODULE Tunnels --------------------------------
(***************************************************************************)
(* A database reached through an SSH bastion (dbboard-tunnel, and          *)
(* dbboard-connect: backend.rs, tunneled.rs, redis_route.rs).              *)
(*                                                                         *)
(* One connection is opened, used and dropped.  Its session carries the    *)
(* forwards of the driver's sockets; it goes quiet, and whatever lies      *)
(* between reaps a session that is quiet for too long, or the bastion      *)
(* itself goes away without a word.  One tick is fifteen seconds.          *)
(*                                                                         *)
(* A Redis cluster gets a forward for each node over one session; several  *)
(* of the driver's connections ask for the same node at once.              *)
(***************************************************************************)
EXTENDS Integers, FiniteSets, Sequences

CONSTANTS Policies,     \* how the host may be known
          Calls,        \* what is called on the adapter
          MaxForwards,  \* the sockets a driver opens
          IdleWindow,   \* the ticks after which a quiet session is reaped
          Nodes, Clients

VARIABLES session,   \* the SSH session
          opening,   \* how far the connection has come
          listener,  \* whether the loopback port accepts
          sockets,   \* the sockets that are forwarded
          holder,    \* who holds the tunnel
          answer,    \* what the caller was answered last
          forwards,  \* redis_route: the forward kept for each node
          live,      \* the forwards whose guard is held
          client     \* how far each of the driver's connections has come

TunnelVars == <<session, opening, listener, sockets, holder, answer>>
RouteVars == <<forwards, live, client>>
TVars == <<session, opening, listener, sockets, holder, answer, forwards, live, client>>

\* In ticks of fifteen seconds.
KEEPALIVE_INTERVAL == 2
KEEPALIVE_MAX == 3
NoSession == [at |-> "none", key |-> "none", policy |-> "none", quiet |-> 0, missed |-> 0,
              gone |-> FALSE]
Told(what, why) == [what |-> what, why |-> why, refused |-> FALSE]

---------------------------------------------------------------------------
(* The host key. *)

\* The policy pins a key, or nothing, or leaves it to a file that knows the
\* host by this key, by another, or not at all.
Keys == {"its own", "another"}

\* A blank pin matches no key.
fingerprint_matches(policy, key) ==
    CASE policy = "pinned" -> key = "its own" [] policy = "blank" -> FALSE

verify(policy, key) ==
    CASE policy \in {"pinned", "blank"} -> fingerprint_matches(policy, key)
      [] policy = "known" -> key = "its own"
      [] policy = "unknown" -> FALSE

gives_up_opening ==
    /\ opening' = "idle"
    /\ session' = NoSession /\ listener' = FALSE /\ holder' = "none"
fails(why) == gives_up_opening /\ answer' = Told("error", why)

\* A key that was refused is told as one.
reason_of(rejected) == IF rejected THEN "host key" ELSE "connect"

connect ==
    /\ opening = "idle" /\ session.at = "none" /\ sockets = 0
    /\ \E policy \in Policies : \E key \in Keys \union {"unreachable"} :
         IF key # "unreachable" /\ verify(policy, key)
         THEN /\ session' = [NoSession EXCEPT !.at = "open", !.key = key, !.policy = policy]
              /\ opening' = "authenticate" /\ holder' = "connect"
              /\ UNCHANGED <<listener, answer>>
         ELSE LET refused == key # "unreachable"
              IN  /\ gives_up_opening
                  /\ answer' = [Told("error", reason_of(refused)) EXCEPT !.refused = refused]
    /\ UNCHANGED <<sockets, RouteVars>>

\* The key file is read, or the password sent; a session that was refused goes.
authenticate ==
    /\ opening = "authenticate"
    /\ \/ opening' = "listen" /\ UNCHANGED <<session, listener, holder, answer>>
       \/ \E why \in {"key load", "auth", "connect"} : fails(why)
    /\ UNCHANGED <<sockets, RouteVars>>

forward ==
    /\ opening = "listen"
    /\ \/ listener' = TRUE /\ opening' = "dial" /\ UNCHANGED <<session, holder, answer>>
       \/ fails("listener")
    /\ UNCHANGED <<sockets, RouteVars>>

forwarding == listener /\ session.at = "open" /\ ~session.gone

\* Mutant: the adapter is handed out by itself.
the_bare_adapter == "none"
wrap == "adapter"

\* The driver dials the forward and pings: the adapter is handed out with the
\* tunnel, or both are dropped.
dial ==
    /\ opening = "dial"
    /\ \/ /\ forwarding /\ sockets' = sockets + 1
          /\ opening' = "done" /\ holder' = wrap /\ listener' = (wrap = "adapter")
          /\ answer' = Told("adapter", "ok")
       \/ /\ answer' = Told("error", "database") /\ opening' = "idle"
          /\ holder' = "none" /\ listener' = FALSE /\ UNCHANGED sockets
    /\ UNCHANGED <<session, RouteVars>>

---------------------------------------------------------------------------
(* A tunnel in use. *)

Delegated == {"id", "capabilities", "ping", "list_tables", "query", "query_read_only",
              "describe_table", "foreign_keys", "table_ddl", "execute",
              "execute_in_transaction", "views", "functions", "auth", "storage",
              "realtime", "history"}

\* What TunneledAdapter does not pass on is answered by the trait's default.
use ==
    /\ opening = "done" /\ holder = "adapter"
    /\ \E m \in Calls :
         answer' = IF m \notin Delegated THEN Told(m, "not supported")
                 ELSE IF forwarding THEN Told(m, "ok") ELSE Told(m, "connection")
    /\ session' = IF forwarding THEN [session EXCEPT !.quiet = 0] ELSE session
    /\ UNCHANGED <<opening, listener, sockets, holder, RouteVars>>

\* accept_loop: a further socket, forwarded while the session opens channels.
accept ==
    /\ listener /\ sockets < MaxForwards
    /\ sockets' = IF forwarding THEN sockets + 1 ELSE sockets
    /\ session' = IF forwarding THEN [session EXCEPT !.quiet = 0] ELSE session
    /\ UNCHANGED <<opening, listener, holder, answer, RouteVars>>

socket_closes ==
    /\ sockets > 0 /\ sockets' = sockets - 1
    /\ UNCHANGED <<session, opening, listener, holder, answer, RouteVars>>

\* Dropping the tunnel ends the accept loop.
aborted == FALSE

\* The last user of the adapter lets go.
adapter_dropped ==
    /\ opening = "done"
    /\ opening' = "idle" /\ holder' = "none" /\ listener' = aborted
    /\ UNCHANGED <<session, sockets, answer, RouteVars>>

\* The session goes with the last that forwards over it.
session_dropped ==
    /\ opening = "idle" /\ ~listener /\ sockets = 0 /\ session.at # "none"
    /\ session' = NoSession
    /\ UNCHANGED <<opening, listener, sockets, holder, answer, RouteVars>>

---------------------------------------------------------------------------
(* Time. *)

gives_up(missed) == missed >= KEEPALIVE_MAX

poked == session.quiet + 1 >= KEEPALIVE_INTERVAL

\* A session that was quiet for the interval is poked, and answers; or it does
\* not, and after the third time it ends.
tick ==
    /\ session.at = "open"
    /\ LET quiet == IF poked THEN 0 ELSE session.quiet + 1
       IN  IF ~session.gone
           THEN /\ session' = [session EXCEPT !.quiet = quiet, !.gone = quiet >= IdleWindow]
                /\ UNCHANGED sockets
           ELSE IF poked /\ gives_up(session.missed)
           THEN session' = [session EXCEPT !.at = "closed"] /\ sockets' = 0
           ELSE /\ session' = [session EXCEPT !.quiet = quiet,
                       !.missed = IF poked /\ @ < KEEPALIVE_MAX THEN @ + 1 ELSE @]
                /\ UNCHANGED sockets
    /\ UNCHANGED <<opening, listener, holder, answer, RouteVars>>

\* The bastion goes away without a word.
bastion_gone ==
    /\ session.at = "open" /\ ~session.gone
    /\ session' = [session EXCEPT !.gone = TRUE, !.quiet = 0]
    /\ UNCHANGED <<opening, listener, sockets, holder, answer, RouteVars>>

---------------------------------------------------------------------------
(* redis_route.rs: a forward for each node of a cluster. *)

NoForward == [node |-> "none", by |-> "none"]
Idle == [at |-> "idle", node |-> "none", address |-> NoForward]

resolve(c) ==
    /\ client[c].at = "idle"
    /\ \E n \in Nodes :
         client' = [client EXCEPT ![c] =
             IF forwards[n] # NoForward
             THEN [at |-> "connected", node |-> n, address |-> forwards[n]]
             ELSE [at |-> "opening", node |-> n, address |-> NoForward]]
    /\ UNCHANGED <<forwards, live, TunnelVars>>

\* SshSession::forward, without the lock.
opened(c) ==
    /\ client[c].at = "opening"
    /\ LET mine == [node |-> client[c].node, by |-> c]
       IN  \/ /\ client' = [client EXCEPT ![c].at = "opened", ![c].address = mine]
              /\ live' = live \union {mine}
           \/ client' = [client EXCEPT ![c] = Idle] /\ UNCHANGED live
    /\ UNCHANGED <<forwards, TunnelVars>>

\* Of two forwards to one node the first stays.
or_insert(kept, mine) == IF kept = NoForward THEN mine ELSE kept

\* The forward that is not kept is dropped.
kept(c) ==
    /\ client[c].at = "opened"
    /\ LET n == client[c].node
           mine == client[c].address
           winner == or_insert(forwards[n], mine)
       IN  /\ forwards' = [forwards EXCEPT ![n] = winner]
           /\ live' = (live \ {mine, forwards[n]}) \union {winner}
           /\ client' = [client EXCEPT ![c] = [@ EXCEPT !.at = "connected", !.address = winner]]
    /\ UNCHANGED TunnelVars

\* The driver's connection ends; it may ask again, for this node or another.
disconnects(c) ==
    /\ client[c].at = "connected"
    /\ client' = [client EXCEPT ![c] = Idle]
    /\ UNCHANGED <<forwards, live, TunnelVars>>

---------------------------------------------------------------------------
TInit ==
    /\ session = NoSession /\ opening = "idle" /\ listener = FALSE /\ sockets = 0
    /\ holder = "none" /\ answer = Told("nothing", "none")
    /\ forwards = [n \in Nodes |-> NoForward] /\ live = {}
    /\ client = [c \in Clients |-> Idle]

TunnelNext ==
    \/ connect \/ authenticate \/ forward \/ dial \/ use \/ accept \/ socket_closes
    \/ adapter_dropped \/ session_dropped \/ tick \/ bastion_gone
ForwardsNext == \E c \in Clients : resolve(c) \/ opened(c) \/ kept(c) \/ disconnects(c)

TNext == TunnelNext \/ ForwardsNext

\* Time passes, what was let go of is dropped, and sockets of an adapter that
\* is gone are closed by their driver.
Fairness == WF_TVars(tick) /\ WF_TVars(session_dropped) /\ WF_TVars(opening = "idle" /\ socket_closes)
TSpec == TInit /\ [][TNext]_TVars /\ Fairness

---------------------------------------------------------------------------
(* What the operator relies on. *)

\* Credentials are only sent over a session whose key the policy names, and a
\* key that was refused is told as that and as nothing else (tunnel.rs verify,
\* error.rs: "must never be reported as a bland connection failure").
KeyComesFirst ==
    /\ opening # "idle" =>
          session.key = "its own" /\ session.policy \in {"pinned", "known"}
    /\ (answer.why = "host key") = answer.refused

\* The loopback port accepts for as long as somebody holds the adapter, and no
\* longer (tunneled.rs: "the forward outlives every query but not the
\* connection").
ForwardLastsAsTheAdapter ==
    /\ opening = "done" => listener /\ holder = "adapter"
    /\ opening = "idle" => ~listener

\* A session nobody queries over stays usable for as long as the bastion does,
\* however short the idle window in between (tunnel.rs KEEPALIVE_INTERVAL);
\* one whose bastion went away is over in the end.
IdleTunnelSurvives == [][(session'.gone /\ ~session.gone) => session'.quiet = 0]_TVars
SilenceIsNoticed == (session.at = "open" /\ session.gone) ~> (session.at # "open")

\* The session of a connection that was let go of goes with its last socket.
NothingStaysBehind ==
    (opening = "idle" /\ session.at # "none") ~> (session.at = "none")
NothingLingers == SilenceIsNoticed /\ NothingStaysBehind

\* Every address that was handed out is a forward to that node which is still
\* held, and no other is (redis_route.rs: "the loser's forward is simply
\* dropped and both use the winner's").
AddressesStayLive ==
    /\ \A c \in Clients :
          client[c].at = "connected" =>
              client[c].address \in live /\ client[c].address.node = client[c].node
    /\ \A f \in live : f = forwards[f.node] \/ \E c \in Clients : client[c].at = "opened" /\ client[c].address = f

================================================================================
