-------------------------- MODULE RateLimitsProofs ---------------------------
(***************************************************************************)
(* Proofs about the two rate limiters, for every limit, window, bucket     *)
(* size and rate, any number of keys, and clocks without a bound that      *)
(* matters: MaxTime is any natural number.                                 *)
(***************************************************************************)
EXTENDS RateLimits, TLAPS

(***************************************************************************)
(* The sliding window: its timestamps are ascending, what it has sliced    *)
(* off is older than the window, and what it has left is within the limit. *)
(***************************************************************************)
Ascending(seq) == \A i, j \in 1 .. Len(seq) : i <= j => seq[i] <= seq[j]

WindowInv ==
    \A h \in Hosts :
        /\ Ascending(admitted[h])
        /\ \A i \in 1 .. Len(admitted[h]) : admitted[h][i] <= now
        /\ start[h] \in 0 .. Len(admitted[h])
        /\ \A i \in 1 .. start[h] : admitted[h][i] < now - Window

(***************************************************************************)
(* The token bucket: what it holds and what its user has spent since any   *)
(* message is at most a full bucket and the refill since; and, unless the  *)
(* bucket is full, since some message it is no less, but for lost time.    *)
(* The two products have names, for the provers to reason linearly.        *)
(***************************************************************************)
Worth(k) == k * Cost      \* of k messages
Brings(t) == Rate * t     \* by t ticks

SpentAtMost(u) ==
    \A i \in 1 .. Len(sent[u]) :
        /\ sent[u][i] <= lastRefill[u]
        /\ tokens[u] + Worth(Len(sent[u]) - i + 1)
             <= Burst + Brings(lastRefill[u] - sent[u][i])

SpentAtLeast(u) ==
    \/ tokens[u] = Burst
    \/ \E i \in 1 .. Len(sent[u]) :
        tokens[u] + Worth(Len(sent[u]) - i + 1)
            >= Burst + Brings(lastRefill[u] - sent[u][i] - lost[u])

BucketInv ==
    \A u \in Names :
        /\ tokens[u] <= Burst /\ lastRefill[u] <= now /\ Ascending(sent[u])
        /\ SpentAtMost(u) /\ SpentAtLeast(u)

IInv == /\ TypeOK /\ WindowInv /\ BucketInv
        /\ WindowRespected /\ RefusedMeansFull /\ BurstAndRate /\ MutedMeansSpent

LEMMA InitInv == Init => IInv
  <1> SUFFICES ASSUME Init PROVE IInv
    OBVIOUS
  <1> USE WindowAssumption, BucketAssumption, ClockAssumption DEF Init
  <1>1. TypeOK
    BY DEF TypeOK
  <1>2. \A h \in Hosts : Len(admitted[h]) = 0 /\ start[h] = 0 /\ refused[h] = -1
    OBVIOUS
  <1>3. \A u \in Names : /\ Len(sent[u]) = 0 /\ tokens[u] = Burst
                         /\ lastRefill[u] = now /\ muted[u] = -1
    OBVIOUS
  <1>4. WindowInv /\ WindowRespected /\ RefusedMeansFull
    BY <1>2 DEF WindowInv, Ascending, WindowRespected, RefusedMeansFull
  <1>5. BucketInv /\ BurstAndRate /\ MutedMeansSpent
    BY <1>3 DEF BucketInv, SpentAtMost, SpentAtLeast, Ascending, BurstAndRate, MutedMeansSpent
  <1> QED
    BY <1>1, <1>4, <1>5 DEF IInv
------------------------------------------------------------------------------
(***************************************************************************)
(* A step of one limiter leaves the other's variables alone, and the clock *)
(* only goes on.                                                           *)
(***************************************************************************)
WindowPart == WindowInv /\ WindowRespected /\ RefusedMeansFull
BucketPart == BucketInv /\ BurstAndRate /\ MutedMeansSpent

LEMMA WindowFrame ==
    ASSUME TypeOK, WindowPart, UNCHANGED windowVars, now' \in Nat, now <= now'
    PROVE  WindowPart'
  BY WindowAssumption
     DEF TypeOK, WindowPart, WindowInv, WindowRespected, RefusedMeansFull,
         Ascending, windowVars

LEMMA BucketFrame ==
    ASSUME TypeOK, BucketPart, UNCHANGED bucketVars, now' \in Nat, now <= now'
    PROVE  BucketPart'
  <1> USE BucketAssumption DEF bucketVars
  <1>1. BucketInv'
    <2>1. \A u \in Names : SpentAtMost(u)' /\ SpentAtLeast(u)' /\ Ascending(sent'[u])
      BY DEF BucketPart, BucketInv, SpentAtMost, SpentAtLeast, Ascending
    <2>2. \A u \in Names : tokens'[u] <= Burst /\ lastRefill'[u] <= now'
      BY DEF TypeOK, BucketPart, BucketInv
    <2> QED
      BY <2>1, <2>2 DEF BucketInv
  <1>2. BurstAndRate'
    BY DEF BucketPart, BurstAndRate
  <1>3. MutedMeansSpent'
    BY DEF BucketPart, MutedMeansSpent
  <1> QED
    BY <1>1, <1>2, <1>3 DEF BucketPart

\* What is appended to an ascending sequence comes last.
LEMMA AppendAscending ==
    ASSUME NEW seq \in Seq(Nat), NEW t \in Nat, Ascending(seq),
           \A i \in 1 .. Len(seq) : seq[i] <= t
    PROVE  Ascending(Append(seq, t))
  BY DEF Ascending
------------------------------------------------------------------------------
LEMMA RefuseStep ==
    ASSUME TypeOK, WindowPart, NEW h \in Hosts, Refuse(h)
    PROVE  WindowPart'
  <1> USE WindowAssumption DEF TypeOK, WindowPart
  <1>1. PICK i \in 0 .. Len(admitted[h]) :
          /\ Expires(h, i) /\ Len(admitted[h]) - i >= Limit
          /\ start' = [start EXCEPT ![h] = i]
    BY DEF Refuse
  <1>2. UNCHANGED <<now, admitted>> /\ refused' = [refused EXCEPT ![h] = now]
    BY DEF Refuse
  <1>3. start[h] <= i /\ \A j \in 1 .. i : admitted[h][j] < now - Window
    BY <1>1 DEF Expires, WindowInv
  <1>4. WindowInv'
    BY <1>1, <1>2, <1>3 DEF WindowInv
  <1>5. WindowRespected'
    BY <1>2 DEF WindowRespected
  <1>6. /\ i + 1 \in 1 .. Len(admitted[h]) /\ (i + 1) + Limit - 1 <= Len(admitted[h])
        /\ admitted[h][i + 1] >= now - Window
        /\ admitted[h][(i + 1) + Limit - 1] <= now
    BY <1>1 DEF Expires, WindowInv
  <1>7. RefusedMeansFull'
    BY <1>2, <1>6 DEF RefusedMeansFull
  <1> QED
    BY <1>4, <1>5, <1>7

LEMMA UpToNext ==
    ASSUME NEW a \in Int, NEW b \in Int, a <= b + 1
    PROVE  a <= b \/ a = b + 1
  OBVIOUS

LEMMA AdmitStep ==
    ASSUME TypeOK, WindowPart, NEW h \in Hosts, NEW gap \in 0 .. MaxGap,
           Admit(h, gap)
    PROVE  WindowPart'
  <1> USE WindowAssumption, ClockAssumption DEF TypeOK, WindowPart
  <1> DEFINE n == Len(admitted[h])
  <1>1. PICK i \in 0 .. n :
          /\ Expires(h, i) /\ n - i < Limit /\ start' = [start EXCEPT ![h] = i]
    BY DEF Admit
  <1>2. /\ admitted' = [admitted EXCEPT ![h] = Append(admitted[h], now + gap)]
        /\ now' = now + gap /\ UNCHANGED refused
    BY DEF Admit
  <1>3. \A j \in 1 .. i : admitted[h][j] < now - Window
    BY <1>1 DEF Expires, WindowInv
  <1>4. /\ n \in Nat /\ Len(admitted'[h]) = n + 1 /\ admitted'[h][n + 1] = now + gap
        /\ \A j \in 1 .. n : admitted'[h][j] = admitted[h][j]
        /\ \A g \in Hosts \ {h} : admitted'[g] = admitted[g] /\ start'[g] = start[g]
    BY <1>1, <1>2
  <1>5. WindowInv'
    <2>1. Ascending(admitted'[h])
      <3>1. admitted[h] \in Seq(Nat) /\ now + gap \in Nat
        OBVIOUS
      <3>2. Ascending(admitted[h]) /\ \A j \in 1 .. n : admitted[h][j] <= now + gap
        BY DEF WindowInv
      <3>3. Ascending(Append(admitted[h], now + gap))
        BY <3>1, <3>2, AppendAscending
      <3> QED
        BY <1>2, <3>3
    <2>2. \A g \in Hosts : Ascending(admitted'[g])
      BY <2>1, <1>4 DEF WindowInv
    <2>3. \A g \in Hosts : \A j \in 1 .. Len(admitted'[g]) : admitted'[g][j] <= now'
      BY <1>2, <1>4 DEF WindowInv
    <2>4. start'[h] = i
      BY <1>1
    <2>5. \A g \in Hosts : start'[g] \in 0 .. Len(admitted'[g])
      BY <1>4, <2>4 DEF WindowInv
    <2>6. \A g \in Hosts : \A j \in 1 .. start'[g] : admitted'[g][j] < now' - Window
      <3>1. ASSUME NEW j \in 1 .. i
            PROVE  admitted'[h][j] < now' - Window
        <4>1. j \in 1 .. n /\ admitted[h][j] \in Nat /\ now' >= now /\ now' \in Nat
          BY <1>1, <1>2
        <4> QED
          BY <1>3, <1>4, <4>1
      <3>2. ASSUME NEW g \in Hosts \ {h}, NEW j \in 1 .. start[g]
            PROVE  admitted'[g][j] < now' - Window
        <4>1. j \in 1 .. Len(admitted[g]) /\ admitted[g][j] < now - Window
          BY DEF WindowInv
        <4>2. admitted[g][j] \in Nat /\ now' >= now /\ now' \in Nat
          BY <1>2, <4>1
        <4>3. admitted[g][j] < now' - Window
          BY <4>1, <4>2
        <4> QED
          BY Zenon, <1>4, <4>3
      <3> QED
        BY <1>4, <2>4, <3>1, <3>2
    <2> QED
      BY <2>2, <2>3, <2>5, <2>6 DEF WindowInv
  <1>6. WindowRespected'
    <2>1. ASSUME NEW j \in 1 .. n + 1, j + Limit <= n + 1
          PROVE  admitted'[h][j + Limit] - admitted'[h][j] > Window
      <3>1. CASE j + Limit <= n
        <4>1. j \in 1 .. n /\ j + Limit \in 1 .. n
          BY <1>4, <3>1
        <4>2. admitted[h][j + Limit] - admitted[h][j] > Window
          BY <3>1, <4>1 DEF WindowRespected
        <4> QED
          BY <1>4, <4>1, <4>2
      <3>2. CASE j + Limit = n + 1
        <4>1. j \in 1 .. i /\ j \in 1 .. n
          BY <1>1, <3>2
        <4>2. admitted[h][j] \in Nat /\ admitted[h][j] < now - Window
          BY <1>3, <4>1
        <4>3. (now + gap) - admitted[h][j] > Window
          BY <4>2
        <4>4. admitted'[h][j + Limit] = now + gap /\ admitted'[h][j] = admitted[h][j]
          BY Zenon, <1>4, <3>2, <4>1
        <4> QED
          BY Zenon, <4>3, <4>4
      <3> QED
        <4>1. j + Limit \in Int /\ n \in Int
          BY <1>4
        <4>2. j + Limit <= n \/ j + Limit = n + 1
          BY <2>1, <4>1, UpToNext
        <4> QED
          BY Zenon, <3>1, <3>2, <4>2
    <2> QED
      BY <1>4, <2>1 DEF WindowRespected
  <1>7. RefusedMeansFull'
    <2> SUFFICES ASSUME NEW g \in Hosts, refused[g] >= 0
                 PROVE  \E j \in 1 .. Len(admitted'[g]) :
                            /\ j + Limit - 1 <= Len(admitted'[g])
                            /\ admitted'[g][j] >= refused[g] - Window
                            /\ admitted'[g][j + Limit - 1] <= refused[g]
      BY <1>2 DEF RefusedMeansFull
    <2>1. PICK j \in 1 .. Len(admitted[g]) :
            /\ j + Limit - 1 <= Len(admitted[g])
            /\ admitted[g][j] >= refused[g] - Window
            /\ admitted[g][j + Limit - 1] <= refused[g]
      BY DEF RefusedMeansFull
    <2>2. j + Limit - 1 \in 1 .. Len(admitted[g])
      BY <2>1
    <2>3. CASE g = h
      <3>1. j \in 1 .. n /\ j + Limit - 1 \in 1 .. n
        BY <2>1, <2>2, <2>3
      <3>2. /\ admitted'[g][j] = admitted[g][j]
            /\ admitted'[g][j + Limit - 1] = admitted[g][j + Limit - 1]
        BY <1>4, <2>3, <3>1
      <3>3. j \in 1 .. n + 1 /\ j + Limit - 1 <= n + 1
        BY <1>4, <2>1, <2>3, <3>1
      <3> QED
        BY <1>4, <2>1, <2>3, <3>2, <3>3
    <2>4. CASE g # h
      BY <1>4, <2>1, <2>4
    <2> QED
      BY <2>3, <2>4
  <1> QED
    BY <1>5, <1>6, <1>7
------------------------------------------------------------------------------
(***************************************************************************)
(* The steps of the bucket.  Both refill; only Send takes tokens.          *)
(***************************************************************************)
LEMMA Products ==
    ASSUME NEW a \in Int, NEW b \in Int, NEW c \in Int
    PROVE  /\ a * b \in Int
           /\ a * (b + c) = a * b + a * c
           /\ (b + 1) * a = b * a + a
  OBVIOUS

LEMMA BringsTypes ==
    /\ \A t \in Int : Brings(t) \in Int
    /\ \A t \in Nat : Brings(t) \in Nat
    /\ Brings(0) = 0
  BY BucketAssumption DEF Brings

LEMMA BringsSum ==
    ASSUME NEW s \in Int, NEW t \in Int, NEW r \in Int, r = s + t
    PROVE  Brings(r) = Brings(s) + Brings(t)
  BY BucketAssumption, Products DEF Brings

LEMMA BringsMonotone ==
    ASSUME NEW s \in Int, NEW t \in Int, s <= t
    PROVE  Brings(s) <= Brings(t)
  <1> DEFINE d == t - s
  <1>1. d \in Nat /\ t = s + d
    OBVIOUS
  <1> HIDE DEF d
  <1>2. Brings(t) = Brings(s) + Brings(d)
    BY <1>1, BringsSum
  <1>3. Brings(s) \in Int /\ Brings(d) \in Nat
    BY <1>1, BringsTypes
  <1> QED
    BY <1>2, <1>3

LEMMA WorthType == \A k \in Int : Worth(k) \in Int
  BY BucketAssumption DEF Worth

LEMMA WorthMore ==
    ASSUME NEW k \in Int, NEW l \in Int, l = k + 1
    PROVE  Worth(l) = Worth(k) + Cost
  BY BucketAssumption, Products DEF Worth

\* A bucket is never over its size, and one that is not full after the refill
\* was not full before.
LEMMA RefillTypes ==
    ASSUME TypeOK, BucketPart, NEW u \in Names
    PROVE  /\ Refilled(u) \in Nat /\ Refilled(u) <= Burst
           /\ Refilled(u) <= tokens[u] + Brings(now - lastRefill[u])
           /\ Refilled(u) < Burst =>
                /\ tokens[u] # Burst
                /\ Refilled(u) = tokens[u] + Brings(now - lastRefill[u])
  <1>1. Burst \in Nat
    BY BucketAssumption
  <1>2. tokens[u] \in Nat /\ now - lastRefill[u] \in Nat
    BY DEF TypeOK, BucketPart, BucketInv
  <1>3. Brings(now - lastRefill[u]) \in Nat
    BY <1>2, BringsTypes
  <1>4. Refilled(u) = IF tokens[u] + Brings(now - lastRefill[u]) > Burst THEN Burst
                      ELSE tokens[u] + Brings(now - lastRefill[u])
    BY DEF Refilled, Brings
  <1> QED
    BY <1>1, <1>2, <1>3, <1>4

\* A call costs nothing but lost time: after its refill the bucket stands in
\* the same relation to a message as before.
LEMMA RefillBounds ==
    ASSUME TypeOK, BucketPart, NEW u \in Names, NEW gap \in 0 .. MaxGap,
           NEW i \in 1 .. Len(sent[u])
    PROVE  /\ Refilled(u) + Worth(Len(sent[u]) - i + 1)
                <= Burst + Brings((now + gap) - sent[u][i])
           /\ /\ tokens[u] + Worth(Len(sent[u]) - i + 1)
                   >= Burst + Brings(lastRefill[u] - sent[u][i] - lost[u])
              /\ Refilled(u) < Burst
              => Refilled(u) + Worth(Len(sent[u]) - i + 1)
                   >= Burst + Brings(now - sent[u][i] - lost[u])
  <1> DEFINE s   == sent[u][i]
             w   == Worth(Len(sent[u]) - i + 1)
             R   == Refilled(u)
             add == Brings(now - lastRefill[u])
             was == Brings(lastRefill[u] - s)
             is  == Brings(now - s)
             top == Brings((now + gap) - s)
             Was == Brings(lastRefill[u] - s - lost[u])
             Is  == Brings(now - s - lost[u])
  <1>0. Burst \in Nat
    BY BucketAssumption
  <1>1. s \in Nat /\ Len(sent[u]) - i + 1 \in Int
    BY DEF TypeOK
  <1>2. /\ lastRefill[u] \in Nat /\ now \in Nat /\ lost[u] \in Nat
        /\ tokens[u] \in Nat /\ lastRefill[u] <= now /\ gap \in Nat
    BY ClockAssumption DEF BucketPart, BucketInv, TypeOK
  <1>3. R \in Nat /\ R <= tokens[u] + add /\ (R < Burst => R = tokens[u] + add)
    BY RefillTypes
  <1>4. tokens[u] + w <= Burst + was
    BY DEF BucketPart, BucketInv, SpentAtMost
  <1> HIDE DEF s, w
  <1>5. /\ add \in Int /\ was \in Int /\ is \in Int /\ top \in Int
        /\ Was \in Int /\ Is \in Int /\ w \in Int
    <2>1. w \in Int
      BY <1>1, WorthType DEF w
    <2>2. now - lastRefill[u] \in Int /\ lastRefill[u] - s \in Int
      BY <1>1, <1>2
    <2>3. now - s \in Int /\ (now + gap) - s \in Int
      BY <1>1, <1>2
    <2>4. lastRefill[u] - s - lost[u] \in Int
      BY <1>1, <1>2, <2>2
    <2>5. now - s - lost[u] \in Int
      BY <1>1, <1>2, <2>3
    <2> QED
      BY <2>1, <2>2, <2>3, <2>4, <2>5, BringsTypes
  <1>6. is = was + add
    <2>1. /\ now - s = (lastRefill[u] - s) + (now - lastRefill[u])
          /\ now - s \in Int /\ lastRefill[u] - s \in Int
          /\ now - lastRefill[u] \in Int
      BY <1>1, <1>2
    <2> QED
      BY <2>1, BringsSum
  <1>7. is <= top
    BY <1>1, <1>2, BringsMonotone
  <1>8. Is = Was + add
    <2>1. now - s - lost[u] = (lastRefill[u] - s - lost[u]) + (now - lastRefill[u])
      BY <1>1, <1>2
    <2>2. /\ now - s - lost[u] \in Int /\ lastRefill[u] - s - lost[u] \in Int
          /\ now - lastRefill[u] \in Int
      BY <1>1, <1>2
    <2> QED
      BY <2>1, <2>2, BringsSum
  <1> HIDE DEF R, add, was, is, top, Was, Is
  <1>9. R + w <= Burst + top
    BY <1>0, <1>2, <1>3, <1>4, <1>5, <1>6, <1>7
  <1>10. tokens[u] + w >= Burst + Was /\ R < Burst => R + w >= Burst + Is
    BY <1>0, <1>2, <1>3, <1>5, <1>8
  <1> QED
    BY <1>9, <1>10 DEF R, s, w, top, Was, Is

\* Nothing of another user changes.
LEMMA OtherBuckets ==
    ASSUME TypeOK, BucketPart, NEW u \in Names, NEW v \in Names, u # v,
           NEW gap \in 0 .. MaxGap, NEW left, Refill(u, gap, left),
           sent'[v] = sent[v]
    PROVE  /\ tokens'[v] <= Burst /\ lastRefill'[v] <= now' /\ Ascending(sent'[v])
           /\ SpentAtMost(v)' /\ SpentAtLeast(v)'
  <1>1. /\ tokens'[v] = tokens[v] /\ lastRefill'[v] = lastRefill[v]
        /\ lost'[v] = lost[v] /\ now' = now + gap
    BY DEF Refill, TypeOK
  <1>2. now \in Nat /\ lastRefill[v] \in Nat /\ gap \in Nat
    BY ClockAssumption DEF TypeOK
  <1> QED
    BY <1>1, <1>2 DEF BucketPart, BucketInv, SpentAtMost, SpentAtLeast

LEMMA SendStep ==
    ASSUME TypeOK, BucketPart, NEW u \in Names, NEW gap \in 0 .. MaxGap,
           Send(u, gap)
    PROVE  BucketPart'
  <1> DEFINE n == Len(sent[u])
             R == Refilled(u)
             t == now + gap
             new == sent'[u]
  <1>1. /\ Burst \in Nat /\ Cost \in Nat /\ gap \in Nat /\ now \in Nat /\ t \in Nat
        /\ n \in Nat /\ lost[u] \in Nat /\ lastRefill[u] \in Nat /\ lastRefill[u] <= t
    BY BucketAssumption, ClockAssumption DEF TypeOK, BucketPart, BucketInv
  <1>2. R \in Nat /\ R <= Burst /\ (R < Burst => tokens[u] # Burst) /\ Cost <= R
    BY RefillTypes DEF Send
  <1>3. /\ tokens'[u] = R - Cost /\ lastRefill'[u] = t /\ now' = t
        /\ lost'[u] = lost[u] + gap
    BY DEF Send, Refill, TypeOK
  <1>4. UNCHANGED muted /\ \A v \in Names \ {u} : lost'[v] = lost[v]
    BY DEF Send, Refill, TypeOK
  <1>5. /\ new = Append(sent[u], t)
        /\ \A v \in Names \ {u} : sent'[v] = sent[v]
    BY DEF Send, TypeOK
  <1>6. /\ Len(new) = n + 1 /\ new[n + 1] = t
        /\ \A i \in 1 .. n : new[i] = sent[u][i]
    BY <1>1, <1>5 DEF TypeOK
  <1>7. \A i \in 1 .. n : sent[u][i] \in Nat /\ sent[u][i] <= t
    BY <1>1 DEF TypeOK, BucketPart, BucketInv, SpentAtMost
  <1>8. ASSUME NEW i \in 1 .. n
        PROVE  /\ Worth((n + 1) - i + 1) = Worth(n - i + 1) + Cost
               /\ Worth(n - i + 1) \in Int
    <2>1. n - i + 1 \in Int /\ (n + 1) - i + 1 \in Int /\ (n + 1) - i + 1 = (n - i + 1) + 1
      BY <1>1
    <2> QED
      BY <2>1, WorthMore, WorthType
  <1>9. Worth((n + 1) - (n + 1) + 1) = Cost
    <2>1. (n + 1) - (n + 1) + 1 = 1
      BY <1>1
    <2>2. Worth(1) = Cost
      BY <1>1 DEF Worth
    <2> QED
      BY <2>1, <2>2
  <1>10. ASSUME NEW i \in 1 .. n
         PROVE  R + Worth(n - i + 1) <= Burst + Brings(t - sent[u][i])
    BY RefillBounds
  <1>11. \/ R = Burst
         \/ \E i \in 1 .. n :
              R + Worth(n - i + 1) >= Burst + Brings(now - sent[u][i] - lost[u])
    BY <1>1, <1>2, RefillBounds DEF SpentAtLeast, BucketPart, BucketInv
  <1> HIDE DEF n, R, t, new
  <1>12. SpentAtMost(u)'
    <2>1. ASSUME NEW i \in 1 .. n
          PROVE  /\ new[i] <= t
                 /\ tokens'[u] + Worth((n + 1) - i + 1) <= Burst + Brings(t - new[i])
      <3>1. tokens'[u] + Worth((n + 1) - i + 1) = R + Worth(n - i + 1)
        BY <1>1, <1>2, <1>3, <1>8
      <3> QED
        BY <1>6, <1>7, <1>10, <3>1
    <2>2. /\ new[n + 1] <= t
          /\ tokens'[u] + Worth((n + 1) - (n + 1) + 1) <= Burst + Brings(t - new[n + 1])
      <3>1. t - new[n + 1] = 0 /\ tokens'[u] + Cost = R
        BY <1>1, <1>2, <1>3, <1>6
      <3>2. Brings(0) = 0
        BY BringsTypes
      <3> QED
        BY <1>1, <1>2, <1>6, <1>9, <3>1, <3>2
    <2>3. \A i \in 1 .. n + 1 : i \in 1 .. n \/ i = n + 1
      BY <1>1
    <2>4. \A i \in 1 .. n + 1 :
            /\ new[i] <= t
            /\ tokens'[u] + Worth((n + 1) - i + 1) <= Burst + Brings(t - new[i])
      BY <2>1, <2>2, <2>3
    <2>5. \A i \in 1 .. Len(new) :
            /\ new[i] <= lastRefill'[u]
            /\ tokens'[u] + Worth(Len(new) - i + 1) <= Burst + Brings(lastRefill'[u] - new[i])
      BY Zenon, <1>3, <1>6, <2>4
    <2> QED
      BY Zenon, <2>5 DEF SpentAtMost, new
  <1>13. SpentAtLeast(u)'
    <2>1. CASE R = Burst
      <3>1. t - new[n + 1] - lost'[u] <= 0 /\ t - new[n + 1] - lost'[u] \in Int
        BY <1>1, <1>3, <1>6
      <3>2. Brings(t - new[n + 1] - lost'[u]) <= 0
        BY <3>1, BringsMonotone, BringsTypes
      <3>3. tokens'[u] + Worth((n + 1) - (n + 1) + 1) = Burst
        BY <1>1, <1>3, <1>9, <2>1
      <3>4. Brings(t - new[n + 1] - lost'[u]) \in Int
        BY <3>1, BringsTypes
      <3>5. tokens'[u] + Worth((n + 1) - (n + 1) + 1)
              >= Burst + Brings(t - new[n + 1] - lost'[u])
        BY <1>1, <3>2, <3>3, <3>4
      <3>6. n + 1 \in 1 .. Len(new)
        BY <1>1, <1>6
      <3>7. tokens'[u] + Worth(Len(new) - (n + 1) + 1)
              >= Burst + Brings(lastRefill'[u] - new[n + 1] - lost'[u])
        BY Zenon, <1>3, <1>6, <3>5
      <3> QED
        BY Zenon, <3>6, <3>7 DEF SpentAtLeast, new
    <2>2. CASE R # Burst
      <3>1. PICK i \in 1 .. n :
              R + Worth(n - i + 1) >= Burst + Brings(now - sent[u][i] - lost[u])
        BY <1>11, <2>2
      <3>2. t - new[i] - lost'[u] = now - sent[u][i] - lost[u]
        BY <1>1, <1>3, <1>6, <1>7 DEF t
      <3>3. tokens'[u] + Worth((n + 1) - i + 1) = R + Worth(n - i + 1)
        BY <1>1, <1>2, <1>3, <1>8
      <3>4. tokens'[u] + Worth((n + 1) - i + 1) >= Burst + Brings(t - new[i] - lost'[u])
        BY <3>1, <3>2, <3>3
      <3>5. i \in 1 .. Len(new)
        BY <1>1, <1>6
      <3>6. tokens'[u] + Worth(Len(new) - i + 1)
              >= Burst + Brings(lastRefill'[u] - new[i] - lost'[u])
        BY Zenon, <1>3, <1>6, <3>4
      <3> QED
        BY Zenon, <3>5, <3>6 DEF SpentAtLeast, new
    <2> QED
      BY <2>1, <2>2
  <1>14. Ascending(new)
    <2>1. sent[u] \in Seq(Nat) /\ Ascending(sent[u])
      BY DEF TypeOK, BucketPart, BucketInv
    <2> QED
      BY <1>1, <1>5, <1>7, <2>1, AppendAscending DEF n
  <1>15. BucketInv'
    <2>1. ASSUME NEW v \in Names, v # u
          PROVE  /\ tokens'[v] <= Burst /\ lastRefill'[v] <= now'
                 /\ Ascending(sent'[v]) /\ SpentAtMost(v)' /\ SpentAtLeast(v)'
      BY <1>5, <2>1, OtherBuckets DEF Send
    <2>2. tokens'[u] <= Burst /\ lastRefill'[u] <= now' /\ Ascending(sent'[u])
      BY <1>1, <1>2, <1>3, <1>14 DEF new
    <2> QED
      BY <1>12, <1>13, <2>1, <2>2 DEF BucketInv
  <1>16. BurstAndRate'
    <2>1. ASSUME NEW i \in 1 .. n + 1
          PROVE  Worth((n + 1) - i + 1) <= Burst + Brings(new[n + 1] - new[i])
      <3>1. tokens'[u] + Worth((n + 1) - i + 1) <= Burst + Brings(new[n + 1] - new[i])
        BY Zenon, <1>3, <1>6, <1>12 DEF SpentAtMost, new
      <3>2. tokens'[u] \in Int /\ tokens'[u] >= 0 /\ (n + 1) - i + 1 \in Int
        BY <1>1, <1>2, <1>3
      <3>3. new[n + 1] - new[i] \in Int
        <4>1. i \in 1 .. n \/ i = n + 1
          BY <1>1
        <4> QED
          BY <1>1, <1>6, <1>7, <4>1
      <3>4. Worth((n + 1) - i + 1) \in Int /\ Brings(new[n + 1] - new[i]) \in Int
        BY <3>2, <3>3, WorthType, BringsTypes
      <3> QED
        BY <1>1, <3>1, <3>2, <3>4
    <2>2. ASSUME NEW i \in 1 .. n, NEW j \in 1 .. n, i <= j
          PROVE  Worth(j - i + 1) <= Burst + Brings(new[j] - new[i])
      <3>1. Worth(j - i + 1) <= Burst + Brings(sent[u][j] - sent[u][i])
        BY Zenon, <2>2 DEF BucketPart, BurstAndRate, Worth, Brings, n
      <3> QED
        BY Zenon, <1>6, <3>1
    <2>3. ASSUME NEW i \in 1 .. n + 1, NEW j \in 1 .. n + 1, i <= j
          PROVE  Worth(j - i + 1) <= Burst + Brings(new[j] - new[i])
      <3>1. CASE j = n + 1
        BY <2>1, <3>1
      <3>2. CASE j # n + 1
        <4>1. i \in 1 .. n /\ j \in 1 .. n
          BY <1>1, <2>3, <3>2
        <4> QED
          BY <2>2, <2>3, <4>1
      <3> QED
        BY <3>1, <3>2
    <2>4. \A i, j \in 1 .. Len(sent'[u]) :
            i <= j => (j - i + 1) * Cost <= Burst + Rate * (sent'[u][j] - sent'[u][i])
      BY <1>6, <2>3 DEF Worth, Brings, new
    <2>5. \A v \in Names \ {u} : \A i, j \in 1 .. Len(sent'[v]) :
            i <= j => (j - i + 1) * Cost <= Burst + Rate * (sent'[v][j] - sent'[v][i])
      BY <1>5 DEF BucketPart, BurstAndRate
    <2> QED
      BY <2>4, <2>5 DEF BurstAndRate
  <1>17. MutedMeansSpent'
    <2>1. ASSUME NEW v \in Names, muted[v] >= 0
          PROVE  \E i \in 1 .. Len(sent'[v]) :
                   Worth(Len(sent'[v]) - i + 2)
                     > Burst + Brings(muted[v] - sent'[v][i] - lost'[v])
      <3>1. PICK i \in 1 .. Len(sent[v]) :
              Worth(Len(sent[v]) - i + 2)
                > Burst + Brings(muted[v] - sent[v][i] - lost[v])
        BY Zenon, <2>1 DEF BucketPart, MutedMeansSpent, Worth, Brings
      <3>2. CASE v # u
        BY Zenon, <1>4, <1>5, <3>1, <3>2
      <3>3. CASE v = u
        <4>1. muted[u] \in Int
          BY DEF TypeOK
        <4>2. i \in 1 .. n /\ i \in 1 .. n + 1 /\ new[i] = sent[u][i] /\ sent[u][i] \in Int
          BY <1>1, <1>6, <1>7, <3>3 DEF n
        <4>3. /\ n - i + 2 \in Int /\ (n + 1) - i + 2 \in Int
              /\ (n + 1) - i + 2 = (n - i + 2) + 1
          BY <1>1
        <4>4. Worth((n + 1) - i + 2) = Worth(n - i + 2) + Cost /\ Worth(n - i + 2) \in Int
          BY <4>3, WorthMore, WorthType
        <4>5. /\ muted[u] - new[i] - lost'[u] <= muted[u] - sent[u][i] - lost[u]
              /\ muted[u] - new[i] - lost'[u] \in Int
              /\ muted[u] - sent[u][i] - lost[u] \in Int
          <5>1. /\ lost[u] \in Nat /\ lost'[u] \in Nat /\ lost[u] <= lost'[u]
                /\ new[i] = sent[u][i] /\ sent[u][i] \in Int
            BY <1>1, <1>3, <4>2
          <5> HIDE DEF new
          <5> QED
            BY <4>1, <5>1
        <4>6. /\ Brings(muted[u] - new[i] - lost'[u])
                   <= Brings(muted[u] - sent[u][i] - lost[u])
              /\ Brings(muted[u] - new[i] - lost'[u]) \in Int
              /\ Brings(muted[u] - sent[u][i] - lost[u]) \in Int
          BY <4>5, BringsMonotone, BringsTypes
        <4>7. Worth(n - i + 2) > Burst + Brings(muted[u] - sent[u][i] - lost[u])
          BY <3>1, <3>3 DEF n
        <4>8. Worth((n + 1) - i + 2) > Burst + Brings(muted[u] - new[i] - lost'[u])
          BY <1>1, <4>4, <4>6, <4>7
        <4>9. /\ i \in 1 .. Len(new)
              /\ Worth(Len(new) - i + 2) > Burst + Brings(muted[u] - new[i] - lost'[u])
          BY Zenon, <1>6, <4>2, <4>8
        <4> QED
          BY Zenon, <3>3, <4>9 DEF new
      <3> QED
        BY Zenon, <3>2, <3>3
    <2> QED
      BY <1>4, <2>1 DEF MutedMeansSpent, Worth, Brings
  <1> QED
    BY <1>15, <1>16, <1>17 DEF BucketPart

LEMMA MuteStep ==
    ASSUME TypeOK, BucketPart, NEW u \in Names, NEW gap \in 0 .. MaxGap,
           Mute(u, gap)
    PROVE  BucketPart'
  <1> DEFINE n == Len(sent[u])
             R == Refilled(u)
             t == now + gap
  <1>1. /\ Burst \in Nat /\ Cost \in Nat /\ Cost <= Burst /\ gap \in Nat
        /\ now \in Nat /\ t \in Nat /\ n \in Nat /\ lost[u] \in Nat
        /\ lastRefill[u] \in Nat /\ lastRefill[u] <= t
    BY BucketAssumption, ClockAssumption DEF TypeOK, BucketPart, BucketInv
  <1>2. R \in Nat /\ R < Cost /\ R < Burst /\ tokens[u] # Burst
    BY <1>1, RefillTypes DEF Mute
  <1>3. /\ tokens'[u] = R /\ lastRefill'[u] = t /\ now' = t
        /\ lost'[u] = lost[u] + gap /\ muted'[u] = now
    BY DEF Mute, Refill, TypeOK
  <1>4. /\ UNCHANGED sent
        /\ \A v \in Names \ {u} : lost'[v] = lost[v] /\ muted'[v] = muted[v]
    BY DEF Mute, Refill, TypeOK
  <1>5. \A i \in 1 .. n : sent[u][i] \in Nat /\ sent[u][i] <= t
    BY <1>1 DEF TypeOK, BucketPart, BucketInv, SpentAtMost
  <1>6. \A i \in 1 .. n : R + Worth(n - i + 1) <= Burst + Brings(t - sent[u][i])
    BY RefillBounds
  <1>7. PICK i \in 1 .. n :
          R + Worth(n - i + 1) >= Burst + Brings(now - sent[u][i] - lost[u])
    BY <1>2, RefillBounds DEF SpentAtLeast, BucketPart, BucketInv
  <1>8. t - sent[u][i] - lost'[u] = now - sent[u][i] - lost[u]
    <2>1. sent[u][i] \in Nat
      BY <1>5
    <2> QED
      BY <1>1, <1>3, <2>1
  <1> HIDE DEF R, t
  <1>9. SpentAtMost(u)'
    BY Zenon, <1>3, <1>4, <1>5, <1>6 DEF SpentAtMost
  <1>10. SpentAtLeast(u)'
    <2>1. tokens'[u] + Worth(n - i + 1) >= Burst + Brings(t - sent[u][i] - lost'[u])
      BY Zenon, <1>3, <1>7, <1>8
    <2> QED
      BY Zenon, <1>3, <1>4, <2>1 DEF SpentAtLeast
  <1>11. BucketInv'
    <2>1. ASSUME NEW v \in Names, v # u
          PROVE  /\ tokens'[v] <= Burst /\ lastRefill'[v] <= now'
                 /\ Ascending(sent'[v]) /\ SpentAtMost(v)' /\ SpentAtLeast(v)'
      BY <1>4, <2>1, OtherBuckets DEF Mute
    <2>2. tokens'[u] <= Burst /\ lastRefill'[u] <= now' /\ Ascending(sent'[u])
      BY <1>1, <1>2, <1>3, <1>4 DEF BucketPart, BucketInv
    <2> QED
      BY <1>9, <1>10, <2>1, <2>2 DEF BucketInv
  <1>12. BurstAndRate'
    BY <1>4 DEF BucketPart, BurstAndRate
  <1>13. MutedMeansSpent'
    <2>1. \E j \in 1 .. n : Worth(n - j + 2) > Burst + Brings(now - sent[u][j] - lost'[u])
      <3>0. sent[u][i] \in Nat
        BY <1>5
      <3> HIDE DEF n
      <3>1. /\ n - i + 1 \in Int /\ n - i + 2 \in Int /\ n - i + 2 = (n - i + 1) + 1
            /\ now - sent[u][i] - lost[u] \in Int /\ now - sent[u][i] - lost'[u] \in Int
            /\ now - sent[u][i] - lost'[u] <= now - sent[u][i] - lost[u]
        BY <1>1, <1>3, <3>0
      <3>2. Worth(n - i + 2) = Worth(n - i + 1) + Cost /\ Worth(n - i + 1) \in Int
        BY <3>1, WorthMore, WorthType
      <3>3. /\ Brings(now - sent[u][i] - lost'[u]) <= Brings(now - sent[u][i] - lost[u])
            /\ Brings(now - sent[u][i] - lost'[u]) \in Int
            /\ Brings(now - sent[u][i] - lost[u]) \in Int
        BY <3>1, BringsMonotone, BringsTypes
      <3>4. Worth(n - i + 2) > Burst + Brings(now - sent[u][i] - lost'[u])
        BY <1>1, <1>2, <1>7, <3>2, <3>3
      <3> QED
        BY Zenon, <3>4
    <2>2. \E j \in 1 .. Len(sent'[u]) :
            (Len(sent'[u]) - j + 2) * Cost
                > Burst + Rate * (muted'[u] - sent'[u][j] - lost'[u])
      BY Zenon, <1>3, <1>4, <2>1 DEF Worth, Brings
    <2>3. ASSUME NEW v \in Names, v # u, muted'[v] >= 0
          PROVE  \E j \in 1 .. Len(sent'[v]) :
                   (Len(sent'[v]) - j + 2) * Cost
                     > Burst + Rate * (muted'[v] - sent'[v][j] - lost'[v])
      BY Zenon, <1>4, <2>3 DEF BucketPart, MutedMeansSpent
    <2> QED
      BY Zenon, <2>2, <2>3 DEF MutedMeansSpent
  <1> QED
    BY <1>11, <1>12, <1>13 DEF BucketPart
------------------------------------------------------------------------------
LEMMA TypeStep == TypeOK /\ BucketPart /\ [Next]_vars => TypeOK'
  <1> SUFFICES ASSUME TypeOK, BucketPart, [Next]_vars PROVE TypeOK'
    OBVIOUS
  <1> USE WindowAssumption, ClockAssumption DEF TypeOK
  <1>1. CASE Tick
    BY <1>1 DEF Tick, windowVars, bucketVars
  <1>2. ASSUME NEW h \in Hosts, Refuse(h)
        PROVE  TypeOK'
    BY <1>2 DEF Refuse, bucketVars
  <1>3. ASSUME NEW h \in Hosts, NEW gap \in 0 .. MaxGap, Admit(h, gap)
        PROVE  TypeOK'
    BY <1>3 DEF Admit, bucketVars
  <1>4. ASSUME NEW u \in Names, NEW gap \in 0 .. MaxGap, Send(u, gap)
        PROVE  TypeOK'
    <2>1. Refilled(u) \in Nat /\ Refilled(u) - Cost \in Nat
      <3>1. Refilled(u) \in Nat /\ Refilled(u) >= Cost /\ Cost \in Nat
        BY <1>4, RefillTypes, BucketAssumption DEF Send
      <3> QED
        BY <3>1
    <2> QED
      BY <1>4, <2>1 DEF Send, Refill, windowVars
  <1>5. ASSUME NEW u \in Names, NEW gap \in 0 .. MaxGap, Mute(u, gap)
        PROVE  TypeOK'
    <2>1. Refilled(u) \in Nat
      BY RefillTypes
    <2> QED
      BY <1>5, <2>1 DEF Mute, Refill, windowVars
  <1>6. CASE UNCHANGED vars
    BY <1>6 DEF vars, windowVars, bucketVars
  <1> QED
    BY <1>1, <1>2, <1>3, <1>4, <1>5, <1>6 DEF Next

LEMMA NextInv == IInv /\ [Next]_vars => IInv'
  <1> SUFFICES ASSUME IInv, [Next]_vars PROVE IInv'
    OBVIOUS
  <1>1. TypeOK /\ WindowPart /\ BucketPart
    BY DEF IInv, WindowPart, BucketPart
  <1>2. TypeOK'
    BY <1>1, TypeStep
  <1>3. now \in Nat /\ now' \in Nat /\ \A gap \in 0 .. MaxGap : now <= now + gap
    BY <1>1, <1>2, ClockAssumption DEF TypeOK
  <1>4. WindowPart' /\ BucketPart'
    <2>1. CASE Tick
      BY <1>1, <1>3, <2>1, WindowFrame, BucketFrame DEF Tick
    <2>2. ASSUME NEW h \in Hosts, Refuse(h)
          PROVE  WindowPart' /\ BucketPart'
      <3>1. UNCHANGED <<now, bucketVars>>
        BY <2>2 DEF Refuse
      <3>2. WindowPart'
        BY <1>1, <2>2, RefuseStep
      <3> QED
        BY <1>1, <1>3, <3>1, <3>2, BucketFrame
    <2>3. ASSUME NEW h \in Hosts, NEW gap \in 0 .. MaxGap, Admit(h, gap)
          PROVE  WindowPart' /\ BucketPart'
      <3>1. now' = now + gap /\ UNCHANGED bucketVars
        BY <2>3 DEF Admit
      <3>2. WindowPart'
        BY <1>1, <2>3, AdmitStep
      <3> QED
        BY <1>1, <1>3, <3>1, <3>2, BucketFrame
    <2>4. ASSUME NEW u \in Names, NEW gap \in 0 .. MaxGap, Send(u, gap)
          PROVE  WindowPart' /\ BucketPart'
      BY <1>1, <1>3, <2>4, SendStep, WindowFrame DEF Send, Refill
    <2>5. ASSUME NEW u \in Names, NEW gap \in 0 .. MaxGap, Mute(u, gap)
          PROVE  WindowPart' /\ BucketPart'
      BY <1>1, <1>3, <2>5, MuteStep, WindowFrame DEF Mute, Refill
    <2>6. CASE UNCHANGED vars
      BY <1>1, <1>3, <2>6, WindowFrame, BucketFrame DEF vars
    <2> QED
      BY <2>1, <2>2, <2>3, <2>4, <2>5, <2>6 DEF Next
  <1> QED
    BY <1>2, <1>4 DEF IInv, WindowPart, BucketPart

LEMMA LimitsInv == Spec => []IInv
  BY InitInv, NextInv, PTL DEF Spec

\* Clocks, timestamps and tokens keep their types: in particular no bucket goes
\* below zero.
THEOREM TypeCorrect == Spec => []TypeOK
  BY LimitsInv, PTL DEF IInv

\* No window, wherever it is laid, has more requests than SlidingWindow's limit.
THEOREM Windowed == Spec => []WindowRespected
  BY LimitsInv, PTL DEF IInv

\* SlidingWindow refuses nobody who has not used the limit up.
THEOREM RefusedFull == Spec => []RefusedMeansFull
  BY LimitsInv, PTL DEF IInv

\* TokenBucket lets through no more than a full bucket and the refill since.
THEOREM Bounded == Spec => []BurstAndRate
  BY LimitsInv, PTL DEF IInv

\* TokenBucket refuses nobody who has not spent a full bucket and the refill
\* since, but for the time between its two readings of the clock.
THEOREM MutedSpent == Spec => []MutedMeansSpent
  BY LimitsInv, PTL DEF IInv
==============================================================================
