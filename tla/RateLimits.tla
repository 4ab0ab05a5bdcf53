------------------------------- MODULE RateLimits -------------------------------
(***************************************************************************)
(* The rate limits of the API (rateLimit() of application.ts) over the two *)
(* stores that can count for them: Redis (cache.ts), and the rate_limits   *)
(* collection (repository.ts) when Redis is absent, down or too slow.      *)
(*                                                                         *)
(* One caller's requests to one limited route, so one key.  Time passes in *)
(* ticks, Window of them to a window.  Redis may start with a counter that *)
(* has no expiry, which the comment of windowScript expects.               *)
(***************************************************************************)
EXTENDS Integers, FiniteSets

CONSTANTS Call, Limit, Window, MaxClock

VARIABLES
  clock,
  up, closed, \* client.isReady; close() has been called
  script,     \* whether the server knows the script by its digest
  counter,    \* the key in Redis
  bucket,     \* the documents of rate_limits with the key
  call,       \* the requests
  lost        \* history: a live count was dropped by Redis or split in two by MongoDB

limitVars == <<clock, up, closed, script, counter, bucket, call, lost>>
stores == <<up, closed, script, counter, bucket, lost>>

Never == 100 * MaxClock
NoCounter == [count |-> 0, until |-> 0, opened |-> 0]
Nowhere == [store |-> "none", opened |-> 0]
Waiting == {"evalsha", "eval"}

(* `in` is the window the call was counted in; `sent` the command Redis may *)
(* still execute for it.                                                    *)
LimitsTypeOK ==
  /\ clock \in 0..MaxClock /\ {up, closed, script, lost} \subseteq BOOLEAN
  /\ counter.count \in 0..Cardinality(Call) + 1
  /\ counter.until \in 0..MaxClock + Window \cup {Never}
  /\ \A b \in bucket : b.count \in 1..Cardinality(Call) /\ b.until <= clock + Window
  /\ \A c \in Call :
       /\ call[c].pc \in Waiting \cup {"new", "store", "insert", "counted", "allowed", "limited", "failed"}
       /\ call[c].sent \in Waiting \cup {"nothing"}
       /\ call[c].pc \in Waiting => call[c].sent = call[c].pc
       /\ call[c].pc \in {"counted", "allowed", "limited"} => call[c].in # Nowhere

LimitsInit ==
  /\ clock = 0 /\ up \in BOOLEAN /\ closed = FALSE /\ script = FALSE /\ lost = FALSE
  /\ counter \in {NoCounter, [count |-> 1, until |-> Never, opened |-> 0]}
  /\ bucket = {}
  /\ call = [c \in Call |-> [pc |-> "new", sent |-> "nothing", in |-> Nowhere,
                             count |-> 0, resetAt |-> 0]]

(* A reply of either store.                                                 *)
Counted(c, store, w, others) ==
  [others EXCEPT ![c].pc = "counted", ![c].count = w.count, ![c].resetAt = w.until,
                 ![c].in = [store |-> store, opened |-> w.opened]]
-----------------------------------------------------------------------------
(* RedisCache.command() refuses at once when Redis is known to be down.     *)
Dispatch(c, command, others) ==
  IF closed \/ ~up
  THEN [others EXCEPT ![c].pc = "store", ![c].sent = "nothing"]
  ELSE [others EXCEPT ![c].pc = command, ![c].sent = command]

Arrive(c) ==
  /\ call[c].pc = "new" /\ call' = Dispatch(c, "evalsha", call)
  /\ UNCHANGED <<clock, stores>>

(* windowScript: INCR, then an expiry if there is none.                     *)
Live == IF counter.until <= clock THEN NoCounter ELSE counter
Expiring(k) == k.until = Never \/ k.count = 0
windowScript(k) ==
  [count |-> k.count + 1,
   until |-> IF Expiring(k) THEN clock + Window ELSE k.until,
   opened |-> IF Expiring(k) THEN clock ELSE k.opened]

(* Redis executes a command; the caller may have given up on it.  evaluate()*)
(* sends the script's text when the server does not know its digest.        *)
RedisRuns(c) ==
  LET known == call[c].sent = "eval" \/ script
      w == windowScript(Live)
      taken == [call EXCEPT ![c].sent = "nothing"]
  IN  /\ up /\ call[c].sent # "nothing"
      /\ counter' = IF known THEN w ELSE counter
      /\ script' = (script \/ call[c].sent = "eval")
      /\ call' = IF call[c].pc \notin Waiting THEN taken
                 ELSE IF known THEN Counted(c, "redis", w, taken) ELSE Dispatch(c, "eval", taken)
      /\ UNCHANGED <<clock, up, closed, bucket, lost>>

(* withTimeout(): the caller gives up, the command may still be executed.   *)
Timeout(c) ==
  /\ call[c].pc \in Waiting /\ call' = [call EXCEPT ![c].pc = "store"]
  /\ UNCHANGED <<clock, stores>>

(* The connection drops, with the commands on it, and comes back.           *)
GoesDown ==
  /\ up /\ up' = FALSE
  /\ call' = [c \in Call |-> [call[c] EXCEPT !.sent = "nothing",
                                             !.pc = IF @ \in Waiting THEN "store" ELSE @]]
  /\ UNCHANGED <<clock, closed, script, counter, bucket, lost>>

ComesUp == ~up /\ ~closed /\ up' = TRUE /\ UNCHANGED <<clock, closed, script, counter, bucket, call, lost>>

close ==
  /\ ~closed /\ closed' = TRUE /\ up' = FALSE
  /\ call' = [c \in Call |-> [call[c] EXCEPT !.sent = "nothing",
                                             !.pc = IF @ \in Waiting THEN "store" ELSE @]]
  /\ UNCHANGED <<clock, script, counter, bucket, lost>>

(* Redis forgets its scripts, or evicts the key, or both when it restarts.  *)
Forgets ==
  /\ script' = FALSE /\ counter' \in {counter, NoCounter}
  /\ lost' = (lost \/ counter' # Live)
  /\ <<script, counter>>' # <<script, counter>>
  /\ UNCHANGED <<clock, up, closed, bucket, call>>
-----------------------------------------------------------------------------
(* incrementRateLimit(): the update of whichever document matches, or an    *)
(* insert, which no unique index keeps from happening twice.                *)
Updated(b, c) ==
  IF b.until <= clock THEN [count |-> 1, until |-> clock + Window, opened |-> c]
                      ELSE [b EXCEPT !.count = @ + 1]

StoreCounts(c) ==
  /\ call[c].pc = "store"
  /\ \/ \E b \in bucket :
          /\ bucket' = (bucket \ {b}) \cup {Updated(b, c)}
          /\ call' = Counted(c, "mongo", Updated(b, c), call)
     \/ /\ bucket = {} /\ UNCHANGED bucket
        /\ call' = [call EXCEPT ![c].pc = "insert"]
  /\ UNCHANGED <<clock, up, closed, script, counter, lost>>

StoreInserts(c) ==
  LET fresh == [count |-> 1, until |-> clock + Window, opened |-> c]
  IN  /\ call[c].pc = "insert"
      /\ bucket' = bucket \cup {fresh} /\ lost' = (lost \/ bucket # {})
      /\ call' = Counted(c, "mongo", fresh, call)
      /\ UNCHANGED <<clock, up, closed, script, counter>>

StoreFails(c) ==
  /\ call[c].pc \in {"store", "insert"} /\ call' = [call EXCEPT ![c].pc = "failed"]
  /\ UNCHANGED <<clock, stores>>

(* The TTL index removes what has expired, in its own time.                 *)
Reap ==
  /\ \E b \in bucket : b.until <= clock /\ bucket' = bucket \ {b}
  /\ UNCHANGED <<clock, up, closed, script, counter, call, lost>>
-----------------------------------------------------------------------------
(* rateLimit(): the answer, with a Retry-After of at least one.             *)
Mutant_offByOne(c) == call[c].count > Limit + 1
Exceeds(c) == call[c].count > Limit
Decide(c) ==
  /\ call[c].pc = "counted"
  /\ call' = [call EXCEPT ![c].pc = IF Exceeds(c) THEN "limited" ELSE "allowed"]
  /\ UNCHANGED <<clock, stores>>

Tick == clock < MaxClock /\ clock' = clock + 1 /\ UNCHANGED <<call, stores>>

LimitsNext ==
  \/ \E c \in Call : Arrive(c) \/ RedisRuns(c) \/ Timeout(c) \/ StoreCounts(c) \/ StoreInserts(c)
                     \/ StoreFails(c) \/ Decide(c)
  \/ GoesDown \/ ComesUp \/ close \/ Forgets \/ Reap \/ Tick

-----------------------------------------------------------------------------
(* In no window of either store are more calls let through than the limit,  *)
(* whatever the timeouts, the fallbacks and the late commands did, as long  *)
(* as the store did not itself lose or split the count.                     *)
WindowKeepsLimit ==
  ~lost => \A d \in Call :
    Cardinality({c \in Call : call[c].pc = "allowed" /\ call[c].in = call[d].in}) <= Limit

(* "An un-expiring counter never resets - the affected caller would be      *)
(* locked out permanently": who is refused is told of a window's end that   *)
(* is no further away than a window.                                        *)
NobodyLockedOut ==
  \A c \in Call : call[c].pc = "limited" => call[c].resetAt <= clock + Window
=============================================================================
