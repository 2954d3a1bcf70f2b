----------------------------- MODULE RateLimits ------------------------------
(***************************************************************************)
(* The gateway's two rate limiters (internal/ratelimit): a sliding window  *)
(* per host for /register and a token bucket per username for messages.    *)
(* Registry.Allow holds its mutex around the limiter's own Allow, so a     *)
(* call is one action; it reads the clock twice, and gap is the time that  *)
(* passes between the two readings.                                        *)
(*                                                                         *)
(* The clock is a natural number.  A bucket counts in units that make its  *)
(* refill an integer: a message costs Cost units, a tick brings Rate.      *)
(***************************************************************************)
EXTENDS Integers, Sequences

CONSTANTS Hosts,    \* keys of the registration limiter
          Limit,    \* its limit, 3
          Window,   \* its window, an hour
          Names,    \* keys of the message limiter
          Burst,    \* its maxTokens in units
          Cost,     \* one token in units
          Rate,     \* its refillRate in units per tick
          MaxGap,   \* ticks between two readings of one call
          MaxTime   \* bound on the clock

ASSUME WindowAssumption == Limit \in Nat \ {0} /\ Window \in Nat
ASSUME BucketAssumption ==
    Burst \in Nat /\ Cost \in Nat \ {0} /\ Rate \in Nat /\ Cost <= Burst
ASSUME ClockAssumption == MaxGap \in Nat /\ MaxTime \in Nat

VARIABLES
    now,         \* the clock
    admitted,    \* admitted[h]: the times of the requests allowed to h; the
                 \* array behind SlidingWindow.timestamps
    start,       \* start[h]: how many of them timestamps has sliced off
    refused,     \* history: refused[h] is the time of the last refusal, or -1
    tokens,      \* tokens[u]: TokenBucket.tokens
    lastRefill,  \* lastRefill[u]: TokenBucket.lastRefill
    sent,        \* history: sent[u] is the times of the messages allowed to u
    muted,       \* history: muted[u] is the time of the last refusal, or -1
    lost         \* history: lost[u] is the time lastRefill has skipped

windowVars == <<admitted, start, refused>>
bucketVars == <<tokens, lastRefill, sent, muted, lost>>
vars == <<now, windowVars, bucketVars>>

TypeOK ==
    /\ now \in Nat
    /\ admitted \in [Hosts -> Seq(Nat)]
    /\ start \in [Hosts -> Nat]
    /\ refused \in [Hosts -> Nat \cup {-1}]
    /\ tokens \in [Names -> Nat]
    /\ lastRefill \in [Names -> Nat]
    /\ sent \in [Names -> Seq(Nat)]
    /\ muted \in [Names -> Nat \cup {-1}]
    /\ lost \in [Names -> Nat]

\* A limiter is made by the first Allow of its key.  A window that is not there
\* yet is an empty one, and a bucket a full one that nothing can be added to.
Init ==
    /\ now = 0
    /\ admitted = [h \in Hosts |-> <<>>]
    /\ start = [h \in Hosts |-> 0]
    /\ refused = [h \in Hosts |-> -1]
    /\ tokens = [u \in Names |-> Burst]
    /\ lastRefill = [u \in Names |-> 0]
    /\ sent = [u \in Names |-> <<>>]
    /\ muted = [u \in Names |-> -1]
    /\ lost = [u \in Names |-> 0]

Tick ==
    /\ now < MaxTime
    /\ now' = now + 1
    /\ UNCHANGED <<windowVars, bucketVars>>
------------------------------------------------------------------------------
(***************************************************************************)
(* SlidingWindow.Allow.                                                    *)
(***************************************************************************)

\* An expiry that also takes the timestamp at the very edge of the window.
ExpiresAtEdge(h, i) ==
    /\ i \in start[h] .. Len(admitted[h])
    /\ \A j \in start[h] + 1 .. i : admitted[h][j] <= now - Window
    /\ i < Len(admitted[h]) => admitted[h][i + 1] > now - Window

\* The loop slices off, from the front, what is older than the window; i of all
\* the times are then gone.
Expires(h, i) ==
    /\ i \in start[h] .. Len(admitted[h])
    /\ \A j \in start[h] + 1 .. i : admitted[h][j] < now - Window
    /\ i < Len(admitted[h]) => admitted[h][i + 1] >= now - Window

\* A limiter that counts the times ever allowed and not those in the window.
RefuseForEver(h) ==
    /\ \E i \in 0 .. Len(admitted[h]) :
        /\ Expires(h, i)
        /\ Len(admitted[h]) >= Limit
        /\ start' = [start EXCEPT ![h] = i]
    /\ refused' = [refused EXCEPT ![h] = now]
    /\ UNCHANGED <<now, admitted, bucketVars>>

\* Allow returning false.
Refuse(h) ==
    /\ \E i \in 0 .. Len(admitted[h]) :
        /\ Expires(h, i)
        /\ Len(admitted[h]) - i >= Limit
        /\ start' = [start EXCEPT ![h] = i]
    /\ refused' = [refused EXCEPT ![h] = now]
    /\ UNCHANGED <<now, admitted, bucketVars>>

\* Allow returning true.
Admit(h, gap) ==
    /\ now + gap <= MaxTime
    /\ \E i \in 0 .. Len(admitted[h]) :
        /\ Expires(h, i)
        /\ Len(admitted[h]) - i < Limit
        /\ start' = [start EXCEPT ![h] = i]
    /\ admitted' = [admitted EXCEPT ![h] = Append(@, now + gap)]
    /\ now' = now + gap
    /\ UNCHANGED <<refused, bucketVars>>
------------------------------------------------------------------------------
(***************************************************************************)
(* TokenBucket.Allow.                                                      *)
(***************************************************************************)

\* A refill that forgets the bucket's size.
RefilledUncapped(u) == tokens[u] + Rate * (now - lastRefill[u])

\* The tokens of u after the refill, capped.
Refilled(u) ==
    LET sum == tokens[u] + Rate * (now - lastRefill[u])
    IN  IF sum > Burst THEN Burst ELSE sum

\* The refill, and the second reading of the clock.
Refill(u, gap, left) ==
    /\ now + gap <= MaxTime
    /\ tokens' = [tokens EXCEPT ![u] = left]
    /\ lastRefill' = [lastRefill EXCEPT ![u] = now + gap]
    /\ lost' = [lost EXCEPT ![u] = @ + gap]
    /\ now' = now + gap
    /\ UNCHANGED windowVars

\* A bucket that lets a message through on credit.
SendInDebt(u, gap) ==
    /\ Refilled(u) > 0
    /\ Refill(u, gap, Refilled(u) - Cost)
    /\ sent' = [sent EXCEPT ![u] = Append(@, now + gap)]
    /\ UNCHANGED muted

\* Allow returning true.
Send(u, gap) ==
    /\ Refilled(u) >= Cost
    /\ Refill(u, gap, Refilled(u) - Cost)
    /\ sent' = [sent EXCEPT ![u] = Append(@, now + gap)]
    /\ UNCHANGED muted

\* A refusal that takes what is left in the bucket.
MuteEmpties(u, gap) ==
    /\ Refilled(u) < Cost
    /\ Refill(u, gap, 0)
    /\ muted' = [muted EXCEPT ![u] = now]
    /\ UNCHANGED sent

\* Allow returning false.
Mute(u, gap) ==
    /\ Refilled(u) < Cost
    /\ Refill(u, gap, Refilled(u))
    /\ muted' = [muted EXCEPT ![u] = now]
    /\ UNCHANGED sent
------------------------------------------------------------------------------
Next ==
    \/ Tick
    \/ \E h \in Hosts : Refuse(h) \/ \E gap \in 0 .. MaxGap : Admit(h, gap)
    \/ \E u \in Names, gap \in 0 .. MaxGap : Send(u, gap) \/ Mute(u, gap)

Spec == Init /\ [][Next]_vars
------------------------------------------------------------------------------
\* "Registration: max 3 accounts per IP per hour" (README.md:48): no interval
\* of length Window, its two ends included, has more than Limit requests that
\* SlidingWindow.Allow let through.
WindowRespected ==
    \A h \in Hosts : \A i \in 1 .. Len(admitted[h]) :
        i + Limit <= Len(admitted[h]) =>
            admitted[h][i + Limit] - admitted[h][i] > Window

\* SlidingWindow.Allow refuses only a host that has used its limit up: Limit
\* requests were let through in the window that ends with the refusal.
RefusedMeansFull ==
    \A h \in Hosts : refused[h] >= 0 =>
        \E i \in 1 .. Len(admitted[h]) :
            /\ i + Limit - 1 <= Len(admitted[h])
            /\ admitted[h][i] >= refused[h] - Window
            /\ admitted[h][i + Limit - 1] <= refused[h]

\* "burst" and "sustained" messages "per user" (README.md:49): from any message
\* to any later one TokenBucket.Allow lets through no more than a full bucket
\* and what the time between them refills.
BurstAndRate ==
    \A u \in Names : \A i, j \in 1 .. Len(sent[u]) :
        i <= j => (j - i + 1) * Cost <= Burst + Rate * (sent[u][j] - sent[u][i])

\* TokenBucket.Allow refuses only a user who has spent a full bucket and the
\* refill since, but for the time that passes between its two readings of the
\* clock: calls in vain cost a user nothing else.
MutedMeansSpent ==
    \A u \in Names : muted[u] >= 0 =>
        \E i \in 1 .. Len(sent[u]) :
            (Len(sent[u]) - i + 2) * Cost
                > Burst + Rate * (muted[u] - sent[u][i] - lost[u])
==============================================================================
