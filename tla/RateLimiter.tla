---------------------------- MODULE RateLimiter ----------------------------
(***************************************************************************)
(* RateLimiter of src/router/ratelimit.go for one client: a bucket of      *)
(* requests and a bucket of tokens in Redis, reserved by one Lua script    *)
(* and refunded by another.  A script is atomic, and its clock is Redis's. *)
(* Time and amounts are whole numbers.                                     *)
(***************************************************************************)
EXTENDS Integers

CONSTANTS Cap,       \* bucket -> RequestBurst, TokenBurst
          Rate,      \* bucket -> refill per unit of time
          TTL,       \* IdleTTL
          FailOpen

Buckets == {"req", "tok"}

(* RateLimitConfig.validate. *)
ValidLimits ==
    /\ Cap \in [Buckets -> Nat \ {0}] /\ Rate \in [Buckets -> Nat \ {0}]
    /\ TTL \in Nat \ {0}

(* The last line no code checks: a bucket that Redis may forget has refilled by
   then ("A full bucket is indistinguishable from no bucket", ratelimit.go:108). *)
ASSUME LimitAssumption ==
    /\ ValidLimits
    /\ FailOpen \in BOOLEAN
    /\ \A b \in Buckets : TTL * Rate[b] >= Cap[b]

VARIABLES bucket,    \* bucket -> its hash: the tokens left at time ts
          now,       \* Redis's clock
          redisUp    \* the router reaches Redis

limitVars == <<bucket, now, redisUp>>

AtMost(n, most) == IF n > most THEN most ELSE n

(* No bucket is in Redis yet: one past its expiry is as good as absent. *)
LimitInit ==
    /\ bucket = [b \in Buckets |-> [tokens |-> 0, ts |-> -TTL]]
    /\ now = 0
    /\ redisUp = TRUE

(* The key exists: PEXPIRE restarts at every write. *)
Present(b) == now < bucket[b].ts + TTL

(* refill: what the bucket holds now. *)
Level(b) ==
    IF Present(b)
    THEN AtMost(bucket[b].tokens + (now - bucket[b].ts) * Rate[b], Cap[b])
    ELSE Cap[b]

(* Allow: the script's verdict on a request that may cost n tokens, or Redis
   cannot be reached. *)
Verdict(n) ==
    IF ~redisUp THEN IF FailOpen THEN "degraded" ELSE "unavailable"
    ELSE IF n > Cap["tok"] THEN "permanent"
    ELSE IF Level("req") < 1 \/ Level("tok") < n THEN "retry"
    ELSE "allowed"

Write(reqTokens, tokTokens) ==
    [b \in Buckets |-> [tokens |-> IF b = "req" THEN reqTokens ELSE tokTokens,
                        ts     |-> now]]

(* What the script leaves in Redis: both buckets are charged or neither, and the
   refill is written back even for a request it turns away.  Mutant: the
   request bucket is charged before the token bucket is looked at. *)
ReservedFirst(n) ==
    CASE Verdict(n) = "allowed" -> Write(Level("req") - 1, Level("tok") - n)
      [] Verdict(n) = "retry"   ->
            Write(IF Level("req") < 1 THEN Level("req") ELSE Level("req") - 1, Level("tok"))
      [] OTHER                  -> bucket
Reserved(n) ==
    CASE Verdict(n) = "allowed" -> Write(Level("req") - 1, Level("tok") - n)
      [] Verdict(n) = "retry"   -> Write(Level("req"), Level("tok"))
      [] OTHER                  -> bucket

(* Refund of n tokens, clamped at the capacity; lost when Redis is away. *)
Refunded(n) ==
    IF redisUp /\ n > 0
    THEN [bucket EXCEPT !["tok"] = [tokens |-> AtMost(Level("tok") + n, Cap["tok"]),
                                    ts     |-> now]]
    ELSE bucket

(* Time passes for Redis; the network between it and the router fails or heals. *)
Tick == now' = now + 1 /\ UNCHANGED <<bucket, redisUp>>
RedisFlip == redisUp' = ~redisUp /\ UNCHANGED <<bucket, now>>
=============================================================================
