----------------------------- MODULE FirestoreAuth -----------------------------
(***************************************************************************)
(* dbboard-firestore: the access token the calls of a connection share.    *)
(*                                                                         *)
(* A call reads the clock, waits for the lock, and takes the cached token  *)
(* if that one is fresh by the time it read; otherwise it exchanges a      *)
(* signed assertion for a new one, holding the lock all the while.  Times  *)
(* are relative: `lag` is how long ago a call read the clock.              *)
(***************************************************************************)
EXTENDS Integers

CONSTANTS Callers,
          Lifetimes,           \* what the endpoint may say of a token
          DEFAULT_EXPIRY_SECS, \* assumed when it says nothing
          EXPIRY_SKEW_SECS,
          MaxCalls             \* bound: calls of one caller

VARIABLES cached,   \* the token in the cache: what is believed of it, and its life
          lock,     \* who holds the cache
          ask       \* of each caller, its call

AuthVars == <<cached, lock, ask>>

\* `left`: until expires_at_unix by the clock.  `life`: until the endpoint
\* stops honouring it.
NoToken == [left |-> 0, life |-> 0]
NoAsk == [at |-> "idle", lag |-> 0, calls |-> 0]
AuthInit ==
    /\ cached = NoToken /\ lock = "free"
    /\ ask = [c \in Callers |-> NoAsk]

\* A token that would expire within the skew of the moment the call read the
\* clock is retired.
is_fresh(lag) == cached.left + lag > EXPIRY_SKEW_SECS

waiting == {c \in Callers : ask[c].at = "waits"}
exchanging == {c \in Callers : ask[c].at = "exchanges"}

less(n, m) == IF n > m THEN n - m ELSE 0

\* A second passes.  Bound: no call is held up for longer than the skew.
second ==
    /\ \A c \in Callers : ask[c].at \in {"waits", "exchanges"} => ask[c].lag < EXPIRY_SKEW_SECS
    /\ cached' = [left |-> less(cached.left, 1), life |-> less(cached.life, 1)]
    /\ ask' = [c \in Callers |->
         IF ask[c].at \in {"waits", "exchanges"} THEN [ask[c] EXCEPT !.lag = @ + 1] ELSE ask[c]]
    /\ UNCHANGED lock

bearer(c) ==
    /\ ask[c].at \in {"idle", "sent"} /\ ask[c].calls < MaxCalls
    /\ ask' = [ask EXCEPT ![c] = [NoAsk EXCEPT !.at = "waits", !.calls = ask[c].calls + 1]]
    /\ UNCHANGED <<cached, lock>>

\* The lock is held across the exchange.
may_look == lock = "free"

token_at(c) ==
    /\ ask[c].at = "waits" /\ may_look
    /\ IF is_fresh(ask[c].lag)
       THEN /\ ask' = [ask EXCEPT ![c].at = "sent", ![c].lag = 0]
            /\ UNCHANGED lock
       ELSE /\ ask' = [ask EXCEPT ![c].at = "exchanges"]
            /\ lock' = c
    /\ UNCHANGED cached

\* The endpoint issued the token some time since the call read the clock; the
\* cache counts its lifetime from the earlier of the two.
exchange(c) ==
    /\ ask[c].at = "exchanges"
    /\ \E expires_in \in Lifetimes \union {DEFAULT_EXPIRY_SECS} : \E issued \in 0 .. ask[c].lag :
         cached' = [left |-> less(expires_in, ask[c].lag), life |-> less(expires_in, issued)]
    /\ ask' = [ask EXCEPT ![c].at = "sent", ![c].lag = 0]
    /\ lock' = "free"

\* As gives_back, but the lock stays with a call that failed.
keeps_the_lock(c) == lock' = c

\* The guard is dropped with the call.
gives_back(c) == lock' = "free"

\* The endpoint refuses, cannot be reached, or answers no token; or the call
\* is dropped. What was cached stays.
exchange_fails(c) ==
    /\ ask[c].at = "exchanges"
    /\ ask' = [ask EXCEPT ![c].at = "idle", ![c].lag = 0]
    /\ gives_back(c) /\ UNCHANGED cached

AuthNext ==
    \/ second
    \/ \E c \in Callers : bearer(c) \/ token_at(c) \/ exchange(c) \/ exchange_fails(c)

AuthSpec ==
    AuthInit /\ [][AuthNext]_AuthVars
    /\ \A c \in Callers : SF_AuthVars(token_at(c)) /\ WF_AuthVars(exchange(c) \/ exchange_fails(c))

---------------------------------------------------------------------------
(* What the calls rely on. *)

\* The token a call is handed from the cache is still honoured when it is
\* handed over, though others waited, failed and exchanged since the call
\* read the clock (auth.rs, EXPIRY_SKEW_SECS and token_at).
CachedTokenIsAlive ==
    [][\A c \in Callers : ask[c].at = "waits" /\ ask'[c].at = "sent" => cached.life > 0]_AuthVars

\* "a burst of queries on a cold cache should produce one token request, not
\* one per query": nobody asks the endpoint while another is asking, and
\* nobody asks once a token that outlives the skew is in the cache.
OneExchangeForABurst ==
    [][\A c \in Callers : ask[c].at = "waits" /\ ask'[c].at = "exchanges"
         => exchanging = {} /\ cached.left <= EXPIRY_SKEW_SECS]_AuthVars

\* A call that asks for a token is answered, whatever becomes of the exchanges
\* of others: a failed or dropped one gives the lock back.
EveryCallIsAnswered == \A c \in Callers : ask[c].at = "waits" ~> ask[c].at \in {"sent", "idle"}
=============================================================================
