----------------------------- MODULE TokenRefresh -----------------------------
(***************************************************************************)
(* dbboard-postgres: the pool of an Aurora DSQL IAM connection.            *)
(*                                                                         *)
(* A connection to Aurora DSQL is dialled with a token that expires.  A    *)
(* task sleeps, mints a token, opens a pool with it, swaps that pool in    *)
(* and closes the old one; it ends when the adapter is gone.  A call takes *)
(* the pool of the moment, waits for a connection of it, and runs.  Time   *)
(* is counted in ages: of the live pool's token, of the sleep, of a build. *)
(***************************************************************************)
EXTENDS Integers

CONSTANTS Callers,
          expires_secs,      \* the token's lifetime
          MaxBuild,          \* how long opening a pool takes at most
          Mints              \* how an attempt may end: "ok", "fails"

\* A third of a token's lifetime is longer than it takes to open a pool twice.
ExpiresAssumption ==
    /\ expires_secs \in Nat /\ MaxBuild \in Nat
    /\ expires_secs >= 2 /\ expires_secs > 6 * MaxBuild

VARIABLES age,     \* of the live pool's token, counted to its expiry
          missed,  \* an attempt failed since the live pool was swapped in
          loop,    \* the refresh task
          held,    \* whether the adapter is still held by anyone
          call     \* of each caller, the call it is making

RefreshVars == <<age, missed, loop, held, call>>

larger(a, b) == IF a > b THEN a ELSE b
smaller(a, b) == IF a < b THEN a ELSE b

\* Two thirds of the lifetime, and never nothing.
refresh_interval(secs) == larger((secs * 2) \div 3, 1)

Idle == [at |-> "idle", pool |-> "none", end |-> "none"]
Asleep == [at |-> "asleep", for |-> refresh_interval(expires_secs), minted |-> 0]

\* connect_aurora_dsql_iam: the first pool took its time to open, too.
RefreshInit ==
    /\ age \in 0 .. MaxBuild /\ missed = FALSE /\ held = TRUE
    /\ loop = Asleep
    /\ call = [c \in Callers |-> Idle]

\* The task holds the pool weakly: the upgrade fails once nobody else does.
adapter_gone == ~held

\* A unit of time passes: the sleep and the build of a pool have an end.
time_passes ==
    /\ loop.at = "asleep" => loop.for > 0
    /\ loop.at = "building" => loop.minted < MaxBuild
    /\ age' = smaller(age + 1, expires_secs)
    /\ loop' = IF loop.at = "asleep" THEN [loop EXCEPT !.for = @ - 1]
               ELSE IF loop.at = "building" THEN [loop EXCEPT !.minted = @ + 1]
               ELSE loop
    /\ loop.at # "ended" \/ age < expires_secs
    /\ UNCHANGED <<missed, held, call>>

\* The task wakes: it mints and dials, unless there is nothing left to refresh.
wakes ==
    /\ loop.at = "asleep" /\ loop.for = 0
    /\ loop' = IF adapter_gone THEN [loop EXCEPT !.at = "ended"]
               ELSE [loop EXCEPT !.at = "building", !.minted = 0]
    /\ UNCHANGED <<age, missed, held, call>>

\* The new pool is swapped in, and the one it replaces is closed: who waits
\* for a connection of it is refused, who has one keeps it.
build_dsql_pool ==
    /\ loop.at = "building" /\ "ok" \in Mints
    /\ IF ~adapter_gone
       THEN /\ age' = loop.minted /\ missed' = FALSE /\ loop' = Asleep
            /\ call' = [c \in Callers |->
                          IF call[c].pool = "live" THEN [call[c] EXCEPT !.pool = "closed"]
                          ELSE call[c]]
       ELSE loop' = [loop EXCEPT !.at = "ended"] /\ UNCHANGED <<age, missed, call>>
    /\ UNCHANGED held

\* As after_a_failure, but the first failure ends the task.
ends_for_good == [Asleep EXCEPT !.at = "ended"]

\* A mint or a dial that failed is tried again at the next tick.
after_a_failure == Asleep

build_fails ==
    /\ loop.at = "building" /\ "fails" \in Mints
    /\ missed' = TRUE /\ loop' = after_a_failure
    /\ UNCHANGED <<age, held, call>>

\* PoolHandle::current, at the head of every operation.
current(c) ==
    /\ held /\ call[c].at = "idle"
    /\ call' = [call EXCEPT ![c] = [Idle EXCEPT !.at = "acquires", !.pool = "live"]]
    /\ UNCHANGED <<age, missed, loop, held>>

\* A connection of the pool: one that is open, or a new one that is dialled
\* with the pool's token.
acquire(c, open) ==
    /\ call[c].at = "acquires"
    /\ call' = [call EXCEPT ![c] =
         IF @.pool = "closed" THEN [Idle EXCEPT !.end = "pool closed"]
         ELSE IF ~open /\ age >= expires_secs THEN [Idle EXCEPT !.end = "access denied"]
         ELSE [@ EXCEPT !.at = "runs"]]
    /\ UNCHANGED <<age, missed, loop, held>>

finishes(c) ==
    /\ call[c].at = "runs"
    /\ call' = [call EXCEPT ![c] = [Idle EXCEPT !.end = "answered"]]
    /\ UNCHANGED <<age, missed, loop, held>>

\* The connection is switched, or the process ends: no call holds the adapter.
drop_adapter ==
    /\ held /\ \A c \in Callers : call[c].at = "idle"
    /\ held' = FALSE
    /\ UNCHANGED <<age, missed, loop, call>>

refresh_step == time_passes \/ wakes \/ build_dsql_pool
call_step(c) == current(c) \/ finishes(c) \/ \E open \in BOOLEAN : acquire(c, open)

RefreshNext ==
    \/ refresh_step \/ build_fails \/ drop_adapter
    \/ \E c \in Callers : call_step(c)

RefreshFairness == WF_RefreshVars(time_passes) /\ WF_RefreshVars(wakes) /\ WF_RefreshVars(build_dsql_pool)
RefreshSpec == RefreshInit /\ [][RefreshNext]_RefreshVars /\ RefreshFairness

---------------------------------------------------------------------------
(* What the connection relies on. *)

\* While no mint has failed since the last swap, a new connection is dialled
\* with a token that has not expired, however long opening a pool takes: the
\* interval leaves a third of the lifetime for two builds
\* (dsql_auth.rs, refresh_interval).
CurrentWhileMintsSucceed == held /\ ~missed => age < expires_secs

\* A pool whose token has expired is replaced in the end once minting works
\* again: a failure costs a tick, never the task (lib.rs, spawn_token_refresh).
RecoversFromAFailure ==
    <>[][~build_fails]_RefreshVars => [](age = expires_secs => <>(age < expires_secs \/ ~held))

\* The task does not outlive the adapter, whatever it was doing when the
\* adapter was dropped.
TaskEndsWithTheAdapter == ~held ~> loop.at = "ended"
=============================================================================
