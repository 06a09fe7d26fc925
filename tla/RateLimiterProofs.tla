-------------------------- MODULE RateLimiterProofs --------------------------
(***************************************************************************)
(* What InMemoryRateLimiter promises, for any rate and any window.         *)
(* BurstBounded is not inductive: a bucket knows only its own beginning,   *)
(* so the invariant says of the requests before it how long ago those are  *)
(* that the bucket before it had no room for.                              *)
(***************************************************************************)
EXTENDS RateLimiter, TLAPS

\* The n requests s of a user agree with a bucket of that count and end.
Agree(s, n, count, resetAt) ==
    /\ 1 <= count /\ count <= PerWindow /\ count <= n
    /\ s[n - count + 1] = resetAt - Window
    /\ \A i, j \in 1 .. n : i <= j => s[i] <= s[j]
    /\ \A i \in 1 .. n : s[i] <= resetAt
    /\ \A i \in 1 .. n - count : s[i] < resetAt - Window
    /\ \A i \in 1 .. n - count - PerWindow + 1 : s[i] + Window < resetAt - Window
    /\ \A i \in 1 .. n - 2 * PerWindow : s[i + 2 * PerWindow] - s[i] > Window

Good(s, count, resetAt) == Agree(s, Len(s), count, resetAt)

Past(s, t) == \A i \in 1 .. Len(s) : s[i] <= t

UserInv(u) ==
    /\ u \in DOMAIN buckets => Good(allowed[u], buckets[u].count, buckets[u].resetAt)
    /\ u \notin DOMAIN buckets => allowed[u] = <<>>
    /\ Past(allowed[u], now)

LInv == TypeOK /\ \A u \in Users : UserInv(u)

-----------------------------------------------------------------------------
(* Requests and buckets. *)

LEMMA PerWindowType == LimitsAssumption => PerWindow \in Nat /\ 1 <= PerWindow /\ Window \in Nat
BY DEF LimitsAssumption, PerWindow

LEMMA Appended ==
  ASSUME NEW s \in Seq(Nat), NEW t \in Nat
  PROVE  /\ Append(s, t) \in Seq(Nat) /\ Len(s) \in Nat /\ Len(Append(s, t)) = Len(s) + 1
         /\ Append(s, t)[Len(s) + 1] = t
         /\ \A i \in 1 .. Len(s) : Append(s, t)[i] = s[i] /\ s[i] \in Nat
OBVIOUS

\* The first bucket of a user.
LEMMA FirstGood ==
  ASSUME LimitsAssumption, NEW t \in Nat
  PROVE  Good(Append(<<>>, t), 1, t + Window)
<1>1. Append(<<>>, t) = <<t>> /\ Len(<<t>>) = 1 /\ <<t>>[1] = t
  OBVIOUS
<1> QED BY <1>1, PerWindowType DEF Good, Agree

\* A bucket after one that has run out.
LEMMA NextGood ==
  ASSUME LimitsAssumption, NEW s \in Seq(Nat), NEW k \in Nat, NEW z \in Nat, NEW t \in Nat,
         Good(s, k, z), t > z
  PROVE  Good(Append(s, t), 1, t + Window)
<1> DEFINE n == Len(s)
           r == Append(s, t)
<1>1. n \in Nat /\ PerWindow \in Nat /\ 1 <= PerWindow /\ Window \in Nat
  BY PerWindowType
<1>2. Len(r) = n + 1 /\ r[n + 1] = t /\ \A i \in 1 .. n : r[i] = s[i] /\ r[i] \in Nat
  BY Appended
<1>3. 1 <= k /\ k <= PerWindow /\ k <= n /\ s[n - k + 1] = z - Window
  BY DEF Good, Agree
<1>4. \A i, j \in 1 .. n : i <= j => s[i] <= s[j]
  BY DEF Good, Agree
<1>5. \A i \in 1 .. n : s[i] <= z
  BY DEF Good, Agree
<1>6. \A i \in 1 .. n - 2 * PerWindow : s[i + 2 * PerWindow] - s[i] > Window
  BY DEF Good, Agree
<1> HIDE DEF n, r
<1>7. \A i \in 1 .. n : r[i] < t
  BY <1>2, <1>5
<1>8. \A i, j \in 1 .. n + 1 : i <= j => r[i] <= r[j]
  BY <1>1, <1>2, <1>4, <1>7
<1>9. \A i \in 1 .. n - PerWindow + 1 : r[i] + Window < t
  <2> SUFFICES ASSUME NEW i \in 1 .. n - PerWindow + 1 PROVE r[i] + Window < t
    OBVIOUS
  <2>1. i \in 1 .. n /\ n - k + 1 \in 1 .. n /\ i <= n - k + 1
    BY <1>1, <1>3
  <2>2. s[i] <= z - Window /\ r[i] = s[i] /\ r[i] \in Nat
    BY <1>2, <1>3, <1>4, <2>1
  <2> QED BY <1>1, <2>2
<1>10. \A i \in 1 .. (n + 1) - 2 * PerWindow : r[i + 2 * PerWindow] - r[i] > Window
  <2> SUFFICES ASSUME NEW i \in 1 .. (n + 1) - 2 * PerWindow PROVE r[i + 2 * PerWindow] - r[i] > Window
    OBVIOUS
  <2>1. i \in Int /\ i \in 1 .. n - PerWindow + 1 /\ i \in 1 .. n
    BY <1>1
  <2>2. CASE i = (n + 1) - 2 * PerWindow
    <3>1. i + 2 * PerWindow = n + 1
      BY <1>1, <2>1, <2>2
    <3>2. r[i] + Window < t /\ r[i] \in Nat
      BY <1>2, <1>9, <2>1
    <3>3. r[i + 2 * PerWindow] = t
      BY <1>2, <3>1
    <3> QED BY <1>1, <3>2, <3>3
  <2>3. CASE i \in 1 .. n - 2 * PerWindow
    <3>1. i + 2 * PerWindow \in 1 .. n
      BY <1>1, <2>1, <2>3
    <3> QED BY <1>2, <1>6, <2>1, <2>3, <3>1
  <2> QED BY <1>1, <2>1, <2>2, <2>3
<1>11. /\ 1 <= 1 /\ 1 <= PerWindow /\ 1 <= n + 1
       /\ r[(n + 1) - 1 + 1] = (t + Window) - Window
  BY <1>1, <1>2
<1>12. /\ \A i \in 1 .. n + 1 : r[i] <= t + Window
       /\ \A i \in 1 .. (n + 1) - 1 : r[i] < (t + Window) - Window
       /\ \A i \in 1 .. (n + 1) - 1 - PerWindow + 1 : r[i] + Window < (t + Window) - Window
  <2>1. \A i \in 1 .. n + 1 : r[i] <= t + Window
    BY <1>1, <1>2, <1>7
  <2>2. (n + 1) - 1 = n /\ (t + Window) - Window = t /\ n - PerWindow + 1 = (n + 1) - 1 - PerWindow + 1
    BY <1>1
  <2> QED BY <1>7, <1>9, <2>1, <2>2
<1>13. Agree(r, n + 1, 1, t + Window)
  <2>1. 1 <= 1 /\ 1 <= PerWindow /\ 1 <= n + 1
    BY <1>11
  <2>2. r[(n + 1) - 1 + 1] = (t + Window) - Window
    BY <1>11
  <2>3. \A i, j \in 1 .. n + 1 : i <= j => r[i] <= r[j]
    BY <1>8
  <2>4. \A i \in 1 .. n + 1 : r[i] <= t + Window
    BY <1>12
  <2>5. \A i \in 1 .. (n + 1) - 1 : r[i] < (t + Window) - Window
    BY <1>12
  <2>6. \A i \in 1 .. (n + 1) - 1 - PerWindow + 1 : r[i] + Window < (t + Window) - Window
    BY <1>12
  <2>7. \A i \in 1 .. (n + 1) - 2 * PerWindow : r[i + 2 * PerWindow] - r[i] > Window
    BY <1>10
  <2> QED BY <2>1, <2>2, <2>3, <2>4, <2>5, <2>6, <2>7, Zenon DEF Agree
<1> QED BY <1>2, <1>13 DEF Good, r

\* A request that the bucket has room for.
LEMMA CountedGood ==
  ASSUME LimitsAssumption, NEW s \in Seq(Nat), NEW k \in Nat, NEW z \in Nat, NEW t \in Nat,
         Good(s, k, z), Past(s, t), t <= z, k < Rate
  PROVE  Good(Append(s, t), k + 1, z)
<1> DEFINE n == Len(s)
           r == Append(s, t)
<1>1. n \in Nat /\ PerWindow \in Nat /\ 1 <= PerWindow /\ Window \in Nat
  BY PerWindowType
<1>2. Len(r) = n + 1 /\ r[n + 1] = t /\ \A i \in 1 .. n : r[i] = s[i] /\ r[i] \in Nat
  BY Appended
<1>3. 1 <= k /\ k + 1 <= PerWindow /\ k <= n /\ s[n - k + 1] = z - Window
  BY DEF Good, Agree, PerWindow, LimitsAssumption
<1>4. \A i, j \in 1 .. n : i <= j => s[i] <= s[j]
  BY DEF Good, Agree
<1>5. \A i \in 1 .. n : s[i] <= z
  BY DEF Good, Agree
<1>6. \A i \in 1 .. n - 2 * PerWindow : s[i + 2 * PerWindow] - s[i] > Window
  BY DEF Good, Agree
<1>7. \A i \in 1 .. n - k : s[i] < z - Window
  BY DEF Good, Agree
<1>8. \A i \in 1 .. n - k - PerWindow + 1 : s[i] + Window < z - Window
  BY DEF Good, Agree
<1>9. \A i \in 1 .. n : r[i] <= t
  BY <1>2 DEF Past
<1> HIDE DEF n, r
<1>10. \A i, j \in 1 .. n + 1 : i <= j => r[i] <= r[j]
  BY <1>1, <1>2, <1>4, <1>9
<1>11. n - k + 1 \in 1 .. n /\ r[n - k + 1] = z - Window /\ z - Window <= t
  <2>1. n - k + 1 \in 1 .. n
    BY <1>1, <1>3
  <2> QED BY <1>2, <1>3, <1>9, <2>1
<1>12. \A i \in 1 .. (n + 1) - 2 * PerWindow : r[i + 2 * PerWindow] - r[i] > Window
  <2> SUFFICES ASSUME NEW i \in 1 .. (n + 1) - 2 * PerWindow PROVE r[i + 2 * PerWindow] - r[i] > Window
    OBVIOUS
  <2>1. i \in Int /\ i \in 1 .. n - k - PerWindow + 1 /\ i \in 1 .. n
    BY <1>1, <1>3
  <2>2. CASE i = (n + 1) - 2 * PerWindow
    <3>1. i + 2 * PerWindow = n + 1
      BY <1>1, <2>1, <2>2
    <3>2. s[i] + Window < z - Window /\ r[i] = s[i] /\ r[i] \in Nat
      BY <1>2, <1>8, <2>1
    <3>3. r[i + 2 * PerWindow] = t
      BY <1>2, <3>1
    <3> QED BY <1>1, <1>11, <3>2, <3>3
  <2>3. CASE i \in 1 .. n - 2 * PerWindow
    <3>1. i + 2 * PerWindow \in 1 .. n
      BY <1>1, <2>1, <2>3
    <3> QED BY <1>2, <1>6, <2>1, <2>3, <3>1
  <2> QED BY <1>1, <2>1, <2>2, <2>3
<1>13. /\ 1 <= k + 1 /\ k + 1 <= PerWindow /\ k + 1 <= n + 1
       /\ r[(n + 1) - (k + 1) + 1] = z - Window
  BY <1>1, <1>3, <1>11
<1>14. /\ \A i \in 1 .. n + 1 : r[i] <= z
       /\ \A i \in 1 .. (n + 1) - (k + 1) : r[i] < z - Window
       /\ \A i \in 1 .. (n + 1) - (k + 1) - PerWindow + 1 : r[i] + Window < z - Window
  <2>1. \A i \in 1 .. n + 1 : r[i] <= z
    BY <1>1, <1>2, <1>5
  <2>2. (n + 1) - (k + 1) = n - k
    BY <1>1
  <2>3. \A i \in 1 .. n - k : i \in 1 .. n /\ r[i] < z - Window
    <3>1. \A i \in 1 .. n - k : i \in 1 .. n
      BY <1>1
    <3> QED BY <1>2, <1>7, <3>1
  <2>4. \A i \in 1 .. n - k - PerWindow + 1 : r[i] + Window < z - Window
    <3>1. \A i \in 1 .. n - k - PerWindow + 1 : i \in 1 .. n
      BY <1>1, <1>3
    <3> QED BY <1>2, <1>8, <3>1
  <2> QED BY <2>1, <2>2, <2>3, <2>4
<1>15. Agree(r, n + 1, k + 1, z)
  BY <1>10, <1>12, <1>13, <1>14, Zenon DEF Agree
<1> QED BY <1>2, <1>15 DEF Good, r

-----------------------------------------------------------------------------
(* Steps. *)

LEMMA LInvInit == Init => LInv
<1> SUFFICES ASSUME Init PROVE LInv
  OBVIOUS
<1>1. now = 0 /\ DOMAIN buckets = {} /\ \A u \in Users : allowed[u] = <<>>
  BY DEF Init
<1>2. <<>> \in Seq(Nat)
  OBVIOUS
<1>3. TypeOK
  BY <1>1, <1>2 DEF TypeOK, Init
<1>4. \A u \in Users : UserInv(u)
  <2>1. Len(<<>>) = 0
    OBVIOUS
  <2>2. Past(<<>>, now)
    BY <2>1 DEF Past
  <2> QED BY <1>1, <2>2 DEF UserInv
<1> QED BY <1>3, <1>4 DEF LInv

\* What an allowed request does to the invariant, given a good bucket for it.
LEMMA AllowPreserves ==
  ASSUME LInv, NEW u \in Users, NEW b \in Bucket, SetBucket(u, b), Admit(u), UNCHANGED now,
         Good(Append(allowed[u], now), b.count, b.resetAt)
  PROVE  LInv'
<1> DEFINE s == allowed[u]
<1>1. now \in Nat /\ s \in Seq(Nat) /\ allowed \in [Users -> Seq(Nat)]
  BY DEF LInv, TypeOK
<1>2. Append(s, now) \in Seq(Nat)
  BY <1>1
<1>3. /\ allowed' \in [Users -> Seq(Nat)]
      /\ allowed'[u] = Append(s, now)
      /\ \A v \in Users \ {u} : allowed'[v] = allowed[v]
  BY <1>1, <1>2 DEF Admit
<1>4. /\ DOMAIN buckets' = DOMAIN buckets \cup {u} /\ buckets'[u] = b
      /\ \A v \in DOMAIN buckets \ {u} : buckets'[v] = buckets[v]
  BY DEF SetBucket
<1>5. TypeOK'
  BY <1>1, <1>3, <1>4 DEF LInv, TypeOK
<1>6. UserInv(u)'
  <2>1. Past(s, now)
    BY DEF LInv, UserInv
  <2>2. /\ Len(s) \in Nat /\ Len(Append(s, now)) = Len(s) + 1
        /\ Append(s, now)[Len(s) + 1] = now
        /\ \A i \in 1 .. Len(s) : Append(s, now)[i] = s[i]
    BY <1>1, Appended
  <2>3. Past(Append(s, now), now)
    BY <1>1, <2>1, <2>2 DEF Past
  <2>4. Past(allowed[u], now)'
    BY <1>3, <2>3
  <2>5. Good(allowed[u], buckets[u].count, buckets[u].resetAt)'
    BY <1>3, <1>4
  <2> QED BY <1>4, <2>4, <2>5 DEF UserInv
<1>7. ASSUME NEW v \in Users \ {u} PROVE UserInv(v)'
  <2>1. UserInv(v) /\ allowed'[v] = allowed[v]
    BY <1>3 DEF LInv
  <2>2. CASE v \in DOMAIN buckets
    BY <1>4, <2>1, <2>2 DEF UserInv
  <2>3. CASE v \notin DOMAIN buckets
    BY <1>4, <2>1, <2>3 DEF UserInv
  <2> QED BY <2>2, <2>3
<1> QED BY <1>5, <1>6, <1>7 DEF LInv

LEMMA OpenPreserves ==
  ASSUME LimitsAssumption, LInv, NEW u \in Users, OpenBucket(u)
  PROVE  LInv'
<1> DEFINE b == [count |-> 1, resetAt |-> now + Window]
<1>1. now \in Nat /\ Window \in Nat /\ allowed[u] \in Seq(Nat) /\ UserInv(u)
  BY DEF LInv, TypeOK, LimitsAssumption
<1>2. b \in Bucket /\ b.count = 1 /\ b.resetAt = now + Window
  BY <1>1 DEF Bucket
<1>3. Good(Append(allowed[u], now), 1, now + Window)
  <2>1. CASE u \notin DOMAIN buckets
    BY <1>1, <2>1, FirstGood DEF UserInv
  <2>2. CASE u \in DOMAIN buckets
    <3> DEFINE k == buckets[u].count
               z == buckets[u].resetAt
    <3>1. k \in Nat /\ z \in Nat
      BY <2>2 DEF LInv, TypeOK, Bucket
    <3>2. Good(allowed[u], k, z) /\ now > z
      BY <1>1, <2>2 DEF UserInv, OpenBucket, NeedsBucket
    <3> HIDE DEF k, z
    <3> QED BY <1>1, <3>1, <3>2, NextGood
  <2> QED BY <2>1, <2>2
<1>4. SetBucket(u, b) /\ Admit(u) /\ UNCHANGED now
  BY DEF OpenBucket
<1> HIDE DEF b
<1>5. Good(Append(allowed[u], now), b.count, b.resetAt)
  BY <1>2, <1>3
<1> QED BY <1>2, <1>4, <1>5, AllowPreserves

LEMMA CountPreserves ==
  ASSUME LimitsAssumption, LInv, NEW u \in Users, CountRequest(u)
  PROVE  LInv'
<1> DEFINE k == buckets[u].count
           z == buckets[u].resetAt
           b == [buckets[u] EXCEPT !.count = @ + 1]
<1>1. u \in DOMAIN buckets /\ ~(now > z) /\ ~(k >= Rate)
  BY DEF CountRequest, NeedsBucket, Limited
<1>2. now \in Nat /\ Rate \in Nat /\ allowed[u] \in Seq(Nat) /\ buckets[u] \in Bucket
  BY <1>1 DEF LInv, TypeOK, LimitsAssumption
<1>3. k \in Nat /\ z \in Nat /\ b \in Bucket /\ b.count = k + 1 /\ b.resetAt = z
  BY <1>2 DEF Bucket
<1>4. Good(allowed[u], k, z) /\ Past(allowed[u], now)
  BY <1>1 DEF LInv, UserInv
<1>5. SetBucket(u, b) /\ Admit(u) /\ UNCHANGED now
  BY DEF CountRequest
<1> HIDE DEF b, k, z
<1>6. now <= z /\ k < Rate
  BY <1>1, <1>2, <1>3
<1>7. Good(Append(allowed[u], now), k + 1, z)
  BY <1>2, <1>3, <1>4, <1>6, CountedGood
<1> QED BY <1>3, <1>5, <1>7, AllowPreserves

LEMMA TickPreserves ==
  ASSUME LInv, Tick
  PROVE  LInv'
<1>1. now \in Nat /\ now' = now + 1 /\ UNCHANGED <<buckets, allowed>>
  BY DEF LInv, TypeOK, Tick
<1>2. TypeOK'
  BY <1>1 DEF LInv, TypeOK
<1>3. ASSUME NEW u \in Users PROVE UserInv(u)'
  <2>1. UserInv(u) /\ allowed[u] \in Seq(Nat)
    BY DEF LInv, TypeOK
  <2>2. \A i \in 1 .. Len(allowed[u]) : allowed[u][i] \in Nat /\ allowed[u][i] <= now
    BY <2>1 DEF UserInv, Past
  <2>3. Past(allowed[u], now)'
    BY <1>1, <2>2 DEF Past
  <2> QED BY <1>1, <2>1, <2>3 DEF UserInv
<1> QED BY <1>2, <1>3 DEF LInv

LEMMA UnchangedPreserves ==
  ASSUME LInv, UNCHANGED vars
  PROVE  LInv'
<1>1. now' = now /\ buckets' = buckets /\ allowed' = allowed
  BY DEF vars
<1>2. TypeOK' /\ \A u \in Users : UserInv(u)'
  BY <1>1 DEF LInv, TypeOK, UserInv, Past
<1> QED BY <1>2 DEF LInv

LEMMA LInvNext ==
  ASSUME LimitsAssumption, LInv, [Next]_vars
  PROVE  LInv'
<1>1. CASE Tick
  BY <1>1, TickPreserves
<1>2. ASSUME NEW u \in Users, Allow(u) PROVE LInv'
  <2>1. CASE OpenBucket(u)
    BY <2>1, OpenPreserves
  <2>2. CASE CountRequest(u)
    BY <2>2, CountPreserves
  <2>3. CASE Deny(u)
    BY <2>3, UnchangedPreserves DEF Deny
  <2> QED BY <1>2, <2>1, <2>2, <2>3 DEF Allow
<1>3. CASE UNCHANGED vars
  BY <1>3, UnchangedPreserves
<1> QED BY <1>1, <1>2, <1>3 DEF Next

-----------------------------------------------------------------------------
(* What the invariant implies. *)

LEMMA BucketFollows ==
  ASSUME LimitsAssumption, LInv
  PROVE  BucketExact
<1> SUFFICES ASSUME NEW u \in DOMAIN buckets
             PROVE  LET b == buckets[u]
                        n == Len(allowed[u])
                    IN  /\ 1 <= b.count /\ b.count <= PerWindow /\ b.count <= n
                        /\ allowed[u][n - b.count + 1] = b.resetAt - Window
                        /\ b.count < n => allowed[u][n - b.count] < b.resetAt - Window
  BY DEF BucketExact
<1> DEFINE s == allowed[u]
           n == Len(s)
           k == buckets[u].count
           z == buckets[u].resetAt
<1>1. u \in Users /\ s \in Seq(Nat) /\ n \in Nat /\ k \in Nat
  BY DEF LInv, TypeOK, Bucket
<1>2. /\ 1 <= k /\ k <= PerWindow /\ k <= n /\ s[n - k + 1] = z - Window
      /\ \A i \in 1 .. n - k : s[i] < z - Window
  BY <1>1 DEF LInv, UserInv, Good, Agree
<1>3. k < n => s[n - k] < z - Window
  <2> SUFFICES ASSUME k < n PROVE s[n - k] < z - Window
    OBVIOUS
  <2> HIDE DEF s, n, k, z
  <2>1. n - k \in 1 .. n - k
    BY <1>1
  <2> QED BY <1>2, <2>1
<1> QED BY <1>2, <1>3

LEMMA DenialFollows ==
  ASSUME LimitsAssumption, LInv
  PROVE  DenialJustified
<1> SUFFICES ASSUME NEW u \in Users, Limited(u), Rate > 0
             PROVE  LET n == Len(allowed[u])
                    IN  n >= Rate /\ now - allowed[u][n - Rate + 1] <= Window
  BY DEF DenialJustified
<1> DEFINE s == allowed[u]
           n == Len(s)
           k == buckets[u].count
           z == buckets[u].resetAt
<1>1. u \in DOMAIN buckets /\ ~(now > z) /\ k >= Rate
  BY DEF Limited, NeedsBucket
<1>2. s \in Seq(Nat) /\ n \in Nat /\ k \in Nat /\ z \in Nat /\ now \in Nat
  BY <1>1 DEF LInv, TypeOK, Bucket
<1>3. Rate \in Nat /\ Window \in Nat /\ PerWindow = Rate
  BY DEF LimitsAssumption, PerWindow
<1>4. k <= PerWindow /\ k <= n /\ s[n - k + 1] = z - Window
  BY <1>1 DEF LInv, UserInv, Good, Agree
<1> HIDE DEF s, n, k, z
<1>5. k = Rate
  BY <1>1, <1>2, <1>3, <1>4
<1>6. n >= Rate /\ now - s[n - Rate + 1] <= Window
  BY <1>1, <1>2, <1>3, <1>4, <1>5
<1> QED BY <1>6 DEF s, n

LEMMA BurstFollows ==
  ASSUME LimitsAssumption, LInv
  PROVE  BurstBounded
<1> SUFFICES ASSUME NEW u \in Users, NEW i \in 1 .. Len(allowed[u]) - 2 * PerWindow
             PROVE  allowed[u][i + 2 * PerWindow] - allowed[u][i] > Window
  BY DEF BurstBounded
<1>1. CASE u \in DOMAIN buckets
  BY <1>1 DEF LInv, UserInv, Good, Agree
<1>2. CASE u \notin DOMAIN buckets
  <2>1. Len(allowed[u]) = 0
    BY <1>2 DEF LInv, UserInv
  <2> QED BY <2>1, PerWindowType
<1> QED BY <1>1, <1>2

LEMMA LInvariant == LimitsAssumption /\ Spec => []LInv
<1> SUFFICES ASSUME LimitsAssumption PROVE Spec => []LInv
  OBVIOUS
<1>1. LInv /\ [Next]_vars => LInv'
  BY LInvNext
<1> QED BY LInvInit, <1>1, PTL DEF Spec

(* No more than twice the rate is allowed in any stretch of time as long   *)
(* as the window, wherever it falls on the buckets (Allow).                *)
THEOREM BurstAtMostTwice == LimitsAssumption => (Spec => []BurstBounded)
<1> SUFFICES ASSUME LimitsAssumption PROVE Spec => []BurstBounded
  OBVIOUS
<1>1. Spec => []LInv
  BY LInvariant
<1>2. LInv => BurstBounded
  BY BurstFollows
<1> QED BY <1>1, <1>2, PTL

(* Count and end of a bucket are those of the requests allowed in it       *)
(* (Allow).                                                                *)
THEOREM BucketsAreExact == LimitsAssumption => (Spec => []BucketExact)
<1> SUFFICES ASSUME LimitsAssumption PROVE Spec => []BucketExact
  OBVIOUS
<1>1. Spec => []LInv
  BY LInvariant
<1>2. LInv => BucketExact
  BY BucketFollows
<1> QED BY <1>1, <1>2, PTL

(* A request is denied only when the rate was used up within the last      *)
(* window (Allow).                                                         *)
THEOREM DenialsAreJustified == LimitsAssumption => (Spec => []DenialJustified)
<1> SUFFICES ASSUME LimitsAssumption PROVE Spec => []DenialJustified
  OBVIOUS
<1>1. Spec => []LInv
  BY LInvariant
<1>2. LInv => DenialJustified
  BY DenialFollows
<1> QED BY <1>1, <1>2, PTL
=============================================================================
