---------------------------- MODULE LimiterProofs ----------------------------
(***************************************************************************)
(* What holds of the limiter for any accounts, addresses and requests, any *)
(* thresholds, any window and any cap of the backoff.                      *)
(***************************************************************************)
EXTENDS LoginLimiter, FiniteSetTheorems, TLAPS

-----------------------------------------------------------------------------
(* Powers of two, by the number of subsets *)

\* A set of n elements has 2 ^ n subsets: what the proofs need of powers.
LEMMA SubsetsOf ==
  ASSUME NEW n \in Nat
  PROVE  IsFiniteSet(SUBSET (1 .. n)) /\ Cardinality(SUBSET (1 .. n)) = 2 ^ n /\ 2 ^ n \in Nat
<1>1. IsFiniteSet(1 .. n) /\ Cardinality(1 .. n) = n
  BY FS_Interval
<1>2. IsFiniteSet(SUBSET (1 .. n)) /\ Cardinality(SUBSET (1 .. n)) = 2 ^ n
  BY <1>1, FS_SUBSET
<1> QED BY <1>2, FS_CardinalityType

\* There is one subset of nothing.
LEMMA PowerOfZero == 2 ^ 0 = 1
<1>1. SUBSET (1 .. 0) = {{}}
  OBVIOUS
<1>2. Cardinality({{}}) = 1
  BY FS_Singleton
<1> QED BY <1>1, <1>2, SubsetsOf

\* A smaller set has fewer subsets.
LEMMA PowersGrow ==
  ASSUME NEW n \in Nat, NEW p \in Nat, n < p
  PROVE  2 ^ n < 2 ^ p
<1>1. SUBSET (1 .. n) \in SUBSET (SUBSET (1 .. p)) /\ p \in 1 .. p /\ p \notin 1 .. n
  OBVIOUS
<1>2. SUBSET (1 .. n) # SUBSET (1 .. p)
  BY <1>1
<1>3. /\ Cardinality(SUBSET (1 .. n)) <= Cardinality(SUBSET (1 .. p))
      /\ Cardinality(SUBSET (1 .. n)) # Cardinality(SUBSET (1 .. p))
  BY <1>1, <1>2, SubsetsOf, FS_Subset
<1> DEFINE a == 2 ^ n
           b == 2 ^ p
<1>4. a = Cardinality(SUBSET (1 .. n)) /\ b = Cardinality(SUBSET (1 .. p)) /\ a \in Nat /\ b \in Nat
  BY SubsetsOf
<1>5. a < b
  <2> HIDE DEF a, b
  <2> QED BY <1>3, <1>4
<1> QED BY <1>5

\* The subsets of n + 1 elements are those without the last and those with it.
LEMMA PowerDoubles ==
  ASSUME NEW n \in Nat
  PROVE  2 ^ (n + 1) = 2 * 2 ^ n
<1> DEFINE A == SUBSET (1 .. n)
           B == {s \cup {n + 1} : s \in A}
           f == [s \in A |-> s \cup {n + 1}]
<1>1. SUBSET (1 .. n + 1) = A \cup B
  <2>1. ASSUME NEW s \in SUBSET (1 .. n + 1) PROVE s \in A \cup B
    <3>1. CASE n + 1 \in s
      <4>1. s \ {n + 1} \in A /\ s = (s \ {n + 1}) \cup {n + 1}
        BY <2>1, <3>1
      <4> QED BY <4>1
    <3>2. CASE n + 1 \notin s
      BY <2>1, <3>2
    <3> QED BY <3>1, <3>2
  <2>2. ASSUME NEW s \in A \cup B PROVE s \in SUBSET (1 .. n + 1)
    <3>1. \A t \in A : t \cup {n + 1} \subseteq 1 .. n + 1
      OBVIOUS
    <3> QED BY <3>1
  <2> QED BY <2>1, <2>2
<1>2. A \cap B = {}
  OBVIOUS
<1>3. IsFiniteSet(B) /\ Cardinality(B) = Cardinality(A)
  <2>1. ASSUME NEW s \in A, NEW t \in A, s \cup {n + 1} = t \cup {n + 1} PROVE s = t
    <3>1. n + 1 \notin s /\ n + 1 \notin t
      OBVIOUS
    <3>2. \A x : x \in s <=> x \in t
      BY <2>1, <3>1
    <3> QED BY <3>2
  <2>2. f \in [A -> B] /\ \A s \in A : f[s] = s \cup {n + 1}
    OBVIOUS
  <2>3. f \in Injection(A, B)
    <3>1. \A s, t \in A : f[s] = f[t] => s = t
      BY <2>1, <2>2
    <3>2. DOMAIN f = A
      OBVIOUS
    <3> QED BY <2>2, <3>1, <3>2 DEF Injection, IsInjective
  <2>4. f \in Surjection(A, B)
    BY <2>2 DEF Surjection
  <2>5. ExistsBijection(A, B)
    BY <2>3, <2>4 DEF ExistsBijection, Bijection
  <2> QED BY <2>5, SubsetsOf, FS_Bijection
<1>4. Cardinality(A \cup B) = Cardinality(A) + Cardinality(B) - Cardinality(A \cap B)
  BY <1>3, SubsetsOf, FS_Union
<1>5. Cardinality(A \cap B) = 0
  BY <1>2, FS_EmptySet
<1> DEFINE a == 2 ^ n
           b == 2 ^ (n + 1)
<1>6. b = Cardinality(SUBSET (1 .. n + 1))
  <2>1. n + 1 \in Nat
    OBVIOUS
  <2> QED BY <2>1, SubsetsOf
<1>7. a = Cardinality(A) /\ a \in Nat
  BY SubsetsOf
<1>8. b = a + a - 0
  BY <1>1, <1>3, <1>4, <1>5, <1>6, <1>7, Zenon
<1>9. b = 2 * a
  <2> HIDE DEF a, b
  <2> QED BY <1>7, <1>8
<1> QED BY <1>9
-----------------------------------------------------------------------------
(* The length of the locks *)

\* A product grows with its factor.
LEMMA Products ==
  ASSUME NEW w \in Nat, w >= 1, NEW a \in Nat, NEW b \in Nat, a < b
  PROVE  /\ w * a \in Nat /\ w * b \in Nat /\ w * a < w * b
         /\ w * (2 * a) = 2 * (w * a)
<1>1. w * (b - a) >= w
  BY SMT
<1>2. w * (b - a) = w * b - w * a
  BY SMT
<1> QED BY <1>1, <1>2

\* The first lock is as long as the window, each one up to the cap twice as long as
\* the one before.
LEMMA Durations ==
  /\ Duration(0) = Window
  /\ \A n \in Nat : Duration(n) \in Nat /\ Window <= Duration(n) /\ Duration(n) <= Duration(MaxShift)
  /\ \A n \in Nat : n < MaxShift =>
       Duration(n + 1) = 2 * Duration(n) /\ Duration(n) < Duration(n + 1) /\ Duration(n) < Duration(MaxShift)
  /\ \A n \in Nat : n >= MaxShift => Duration(n) = Duration(MaxShift)
<1>0. Window \in Nat /\ Window >= 1 /\ MaxShift \in Nat
  BY LimiterAssumption
<1>1. \A n \in Nat : n >= MaxShift => Duration(n) = Duration(MaxShift)
  BY <1>0 DEF Duration
<1>2. ASSUME NEW n \in Nat, NEW p \in Nat, n < p, p <= MaxShift
      PROVE  /\ Duration(n) \in Nat /\ Duration(p) \in Nat /\ Duration(n) < Duration(p)
             /\ p = n + 1 => Duration(p) = 2 * Duration(n)
  <2>1. Duration(n) = Window * 2 ^ n /\ Duration(p) = Window * 2 ^ p
    BY <1>0, <1>2 DEF Duration
  <2>2. 2 ^ n < 2 ^ p /\ 2 ^ n \in Nat /\ 2 ^ p \in Nat
    BY <1>2, PowersGrow, SubsetsOf
  <2>3. p = n + 1 => 2 ^ p = 2 * 2 ^ n
    BY PowerDoubles
  <2> DEFINE a == 2 ^ n
             b == 2 ^ p
  <2>4. Duration(n) = Window * a /\ Duration(p) = Window * b
    BY <2>1
  <2>5. a < b /\ a \in Nat /\ b \in Nat /\ (p = n + 1 => b = 2 * a)
    BY <2>2, <2>3
  <2> HIDE DEF a, b
  <2> QED BY <1>0, <2>4, <2>5, Products
<1>3. Duration(0) = Window
  <2>1. Duration(0) = Window * 2 ^ 0
    BY <1>0 DEF Duration
  <2> QED BY <1>0, <2>1, PowerOfZero
<1>4. \A n \in Nat : n < MaxShift => Duration(n) \in Nat /\ Duration(n) < Duration(MaxShift)
  BY <1>0, <1>2
<1>5. \A n \in Nat : 0 < n /\ n <= MaxShift => Duration(n) \in Nat /\ Window < Duration(n)
  BY <1>2, <1>3
<1>6. \A n \in Nat : Duration(n) \in Nat /\ Window <= Duration(n) /\ Duration(n) <= Duration(MaxShift)
  <2>1. ASSUME NEW n \in Nat, n <= MaxShift PROVE Duration(n) \in Nat /\ Window <= Duration(n)
    BY <1>0, <1>3, <1>5, <2>1
  <2>2. Duration(MaxShift) \in Nat /\ Window <= Duration(MaxShift)
    BY <1>0, <2>1
  <2> QED BY <1>0, <1>1, <1>4, <2>1, <2>2
<1>7. \A n \in Nat : n < MaxShift => Duration(n + 1) = 2 * Duration(n) /\ Duration(n) < Duration(n + 1)
  BY <1>0, <1>2
<1> QED BY <1>1, <1>3, <1>4, <1>6, <1>7

-----------------------------------------------------------------------------
(* What a step does to one key *)

RequestsOK == request \in [Requests -> {Idle} \cup Busy]

\* Every history variable and the map have one value for each key.
Shaped ==
  /\ m = [k \in Keys |-> m[k]]
  /\ wrong = [k \in Keys |-> wrong[k]]
  /\ last = [k \in Keys |-> last[k]]

\* The requests that were let in and whose answer about k is still to come.
InHand(k) ==
  {r \in Requests :
     IF k \in Users THEN request[r].at \in {"address", "judge"} /\ request[r].user = k
                    ELSE request[r].at \in {"judge", "failed"} /\ request[r].address = k}

\* Nothing, or the purge of a stale entry; nobody is let in while k is locked.
Quiet(k) ==
  /\ wrong'[k] = wrong[k]
  /\ \/ m'[k] = m[k] /\ last'[k] = last[k]
     \/ Stale(m[k]) /\ m'[k] = Blank /\ last'[k] = 0
  /\ Locked(k) => InHand(k)' \subseteq InHand(k)

\* r judges a wrong answer about k, whose entry may have been purged just before.
Struck(k, r) ==
  /\ wrong'[k] = Judged(wrong[k])
  /\ \/ /\ m'[k] = Punished(k, Counted(m[k]))
        /\ last'[k] = IF m'[k].count = 0 THEN m'[k].left ELSE last[k]
     \/ /\ Stale(m[k]) /\ m'[k] = Punished(k, Counted(Blank))
        /\ last'[k] = IF m'[k].count = 0 THEN m'[k].left ELSE 0
  /\ r \in InHand(k) /\ InHand(k)' \subseteq InHand(k) \ {r}

\* A sign-in succeeds.
Cleared(k) ==
  /\ wrong'[k] = {} /\ m'[k] = Blank /\ last'[k] = 0
  /\ \E r \in Requests :
       \/ AcceptUser(r) /\ k = request[r].user
       \/ AcceptAddress(r) /\ k = request[r].address

Ticked(k) ==
  /\ m'[k] = [m[k] EXCEPT !.age = IF @ > Window THEN @ ELSE @ + 1,
                          !.left = IF @ < 0 THEN @ ELSE @ - 1]
  /\ wrong'[k] = Aged(wrong[k])
  /\ last'[k] = last[k] /\ InHand(k)' = InHand(k)

\* Requests that move on have the form of requests.
LEMMA Moved ==
  ASSUME RequestsOK, NEW r \in Requests, request[r] # Idle, NEW at \in {"judge", "failed", "accepted"},
         Step(r, at) \/ End(r)
  PROVE  /\ RequestsOK'
         /\ \A q \in Requests \ {r} : request'[q] = request[q]
         /\ request'[r].at = "idle" \/ request'[r] = [at |-> at, user |-> request[r].user, address |-> request[r].address]
<1>1. request[r] \in Busy
  BY DEF RequestsOK
<1>2. CASE Step(r, at)
  <2>1. [request[r] EXCEPT !.at = at] = [at |-> at, user |-> request[r].user, address |-> request[r].address]
    BY <1>1 DEF Busy
  <2>2. [at |-> at, user |-> request[r].user, address |-> request[r].address] \in Busy
    BY <1>1 DEF Busy
  <2> QED BY <1>2, <2>1, <2>2 DEF Step, RequestsOK
<1>3. CASE End(r)
  BY <1>3 DEF End, RequestsOK, Idle
<1> QED BY <1>2, <1>3

\* fail, for the key that failed and for the others.
LEMMA FailSteps ==
  ASSUME m = [k \in Keys |-> m[k]], wrong = [k \in Keys |-> wrong[k]],
         NEW k \in Keys, NEW crowded, Fail(k, crowded), NEW j \in Keys
  PROVE  IF j = k
         THEN /\ wrong'[j] = Judged(wrong[j])
              /\ \/ /\ m'[j] = Punished(j, Counted(m[j]))
                    /\ last'[j] = IF m'[j].count = 0 THEN m'[j].left ELSE last[j]
                 \/ /\ Stale(m[j]) /\ m'[j] = Punished(j, Counted(Blank))
                    /\ last'[j] = IF m'[j].count = 0 THEN m'[j].left ELSE 0
         ELSE /\ wrong'[j] = wrong[j]
              /\ \/ m'[j] = m[j] /\ last'[j] = last[j]
                 \/ Stale(m[j]) /\ m'[j] = Blank /\ last'[j] = 0
<1> DEFINE gone == IF crowded THEN Purged ELSE {}
           before == [i \in Keys |-> IF i \in gone THEN Blank ELSE m[i]]
           after == Punished(k, Counted(before[k]))
<1>1. j \in gone => Stale(m[j])
  BY DEF Purged
<1>2. before[j] = IF j \in gone THEN Blank ELSE m[j]
  OBVIOUS
<1>3. /\ m' = [before EXCEPT ![k] = after]
      /\ wrong' = [wrong EXCEPT ![k] = Judged(@)]
      /\ last' = [i \in Keys |-> IF i = k /\ after.count = 0 THEN after.left
                                  ELSE IF i \in gone THEN 0 ELSE last[i]]
  BY DEF Fail
<1>4. m'[j] = IF j = k THEN after ELSE before[j]
  <2> HIDE DEF gone, after
  <2> QED BY <1>3
<1>5. wrong'[j] = IF j = k THEN Judged(wrong[j]) ELSE wrong[j]
  BY <1>3
<1>6. last'[j] = IF j = k /\ after.count = 0 THEN after.left ELSE IF j \in gone THEN 0 ELSE last[j]
  <2> HIDE DEF gone, after
  <2> QED BY <1>3
<1>7. CASE j = k
  <2>1. m'[j] = after /\ after = Punished(j, Counted(IF j \in gone THEN Blank ELSE m[j]))
    BY <1>2, <1>4, <1>7
  <2> HIDE DEF gone, after, before
  <2> QED BY <1>1, <1>5, <1>6, <1>7, <2>1
<1>8. CASE j # k
  <2> HIDE DEF gone, after, before
  <2> QED BY <1>1, <1>2, <1>4, <1>5, <1>6, <1>8
<1> QED BY <1>7, <1>8

\* A request that moves on is in hand for nobody it was not in hand for before.
LEMMA HandsMove ==
  ASSUME RequestsOK, NEW r \in Requests, request[r] # Idle, NEW at \in {"judge", "failed", "accepted"},
         Step(r, at) \/ End(r), NEW k \in Keys,
         r \in InHand(k)' => r \in InHand(k)
  PROVE  InHand(k)' \subseteq InHand(k) /\ (r \notin InHand(k)' => InHand(k)' \subseteq InHand(k) \ {r})
<1>1. \A q \in Requests \ {r} : request'[q] = request[q]
  BY Moved
<1>2. \A q \in Requests \ {r} : q \in InHand(k)' => q \in InHand(k)
  BY <1>1 DEF InHand
<1>3. InHand(k)' \subseteq Requests
  BY DEF InHand
<1> QED BY <1>2, <1>3

\* A sign-in request starts: the account is not locked.
LEMMA CheckUserSteps ==
  ASSUME RequestsOK, Shaped, NEW r \in Requests, NEW u \in Users, NEW a \in Addresses, CheckUser(r, u, a)
  PROVE  RequestsOK' /\ Shaped' /\ \A k \in Keys : Quiet(k)
<1>1. /\ request[r] = Idle /\ ~Locked(u)
      /\ request' = [request EXCEPT ![r] = [at |-> "address", user |-> u, address |-> a]]
      /\ m' = m /\ wrong' = wrong /\ last' = last
  BY DEF CheckUser
<1>2. RequestsOK'
  BY <1>1 DEF RequestsOK, Busy
<1>3. Shaped'
  BY <1>1 DEF Shaped
<1>4. ASSUME NEW k \in Keys, Locked(k) PROVE InHand(k)' \subseteq InHand(k)
  <2>1. \A q \in Requests \ {r} : request'[q] = request[q]
    BY <1>1 DEF RequestsOK
  <2>2. request'[r] = [at |-> "address", user |-> u, address |-> a]
    BY <1>1 DEF RequestsOK
  <2>3. r \notin InHand(k)'
    BY <1>1, <1>4, <2>2 DEF InHand
  <2>4. InHand(k)' \subseteq Requests
    BY DEF InHand
  <2>5. \A q \in Requests \ {r} : q \in InHand(k)' => q \in InHand(k)
    BY <2>1 DEF InHand
  <2> QED BY <2>3, <2>4, <2>5
<1> QED BY <1>1, <1>2, <1>3, <1>4 DEF Quiet

\* The address is asked about, or the limiter is not told.
LEMMA AskSteps ==
  ASSUME RequestsOK, Shaped, NEW r \in Requests, CheckAddress(r) \/ Pass(r)
  PROVE  RequestsOK' /\ Shaped' /\ \A k \in Keys : Quiet(k)
<1>1. m' = m /\ wrong' = wrong /\ last' = last
  BY DEF CheckAddress, Pass
<1>2. request[r] # Idle /\ (Step(r, "judge") \/ End(r))
  BY DEF CheckAddress, Pass, Idle
<1>3. RequestsOK' /\ (request'[r].at = "idle"
                      \/ request'[r] = [at |-> "judge", user |-> request[r].user, address |-> request[r].address])
  BY <1>2, Moved
<1>4. Shaped'
  BY <1>1 DEF Shaped
<1>5. ASSUME NEW k \in Keys, Locked(k) PROVE InHand(k)' \subseteq InHand(k)
  <2>1. r \in InHand(k)' => r \in InHand(k)
    <3>1. CASE request'[r].at = "idle"
      BY <3>1 DEF InHand
    <3>2. CASE request'[r].at # "idle"
      <4>1. /\ request'[r] = [at |-> "judge", user |-> request[r].user, address |-> request[r].address]
            /\ request[r].at = "address" /\ ~Locked(request[r].address)
        <5>1. ~End(r)
          BY <3>2 DEF End, Idle, RequestsOK
        <5> QED BY <1>3, <3>2, <5>1 DEF CheckAddress, Pass
      <4>2. request'[r].at = "judge" /\ request'[r].user = request[r].user /\ request'[r].address = request[r].address
        BY <4>1
      <4> QED BY <1>5, <4>1, <4>2 DEF InHand
    <3> QED BY <3>1, <3>2
  <2> QED BY <1>2, <2>1, HandsMove
<1> QED BY <1>1, <1>3, <1>4, <1>5 DEF Quiet

\* fail leaves one value for each key.
LEMMA FailShapes ==
  ASSUME Shaped, NEW k \in Keys, NEW crowded, Fail(k, crowded)
  PROVE  Shaped'
<1> DEFINE gone == IF crowded THEN Purged ELSE {}
           before == [i \in Keys |-> IF i \in gone THEN Blank ELSE m[i]]
           after == Punished(k, Counted(before[k]))
<1>1. /\ m' = [before EXCEPT ![k] = after]
      /\ wrong' = [wrong EXCEPT ![k] = Judged(@)]
      /\ last' = [i \in Keys |-> IF i = k /\ after.count = 0 THEN after.left
                                  ELSE IF i \in gone THEN 0 ELSE last[i]]
  BY DEF Fail
<1>2. DOMAIN m' = Keys /\ m' = [i \in Keys |-> m'[i]]
  <2> HIDE DEF gone, after
  <2> QED BY <1>1
<1>3. wrong' = [i \in Keys |-> wrong'[i]]
  BY <1>1 DEF Shaped
<1>4. last' = [i \in Keys |-> last'[i]]
  <2> HIDE DEF gone, after
  <2> QED BY <1>1
<1> QED BY <1>2, <1>3, <1>4 DEF Shaped

\* A wrong answer: one key is struck, with the request's answer about it given.
LEMMA WrongSteps ==
  ASSUME RequestsOK, Shaped, NEW r \in Requests, NEW crowded, FailUser(r, crowded) \/ FailAddress(r, crowded)
  PROVE  RequestsOK' /\ Shaped' /\ \A k \in Keys : Quiet(k) \/ Struck(k, r)
<1>1. request[r] \in Busy /\ request[r] # Idle
  BY DEF FailUser, FailAddress, Idle, RequestsOK
<1>2. request[r].user \in Users /\ request[r].address \in Addresses
  BY <1>1 DEF Busy
<1>3. Step(r, "failed") \/ End(r)
  BY DEF FailUser, FailAddress
<1>4. /\ RequestsOK'
      /\ request'[r].at = "idle"
         \/ request'[r] = [at |-> "failed", user |-> request[r].user, address |-> request[r].address]
  BY <1>1, <1>3, Moved
<1> DEFINE key == IF request[r].at = "judge" THEN request[r].user ELSE request[r].address
<1>5. key \in Keys /\ Fail(key, crowded)
  BY <1>2 DEF FailUser, FailAddress, Keys
<1>6. Shaped'
  BY <1>5, FailShapes
<1>7. ASSUME NEW k \in Keys PROVE Quiet(k) \/ Struck(k, r)
  <2>1. r \in InHand(k)' => r \in InHand(k)
    <3>1. CASE request'[r].at = "idle"
      BY <3>1 DEF InHand
    <3>2. CASE request'[r].at # "idle"
      <4>1. request'[r].at = "failed" /\ request'[r].user = request[r].user /\ request'[r].address = request[r].address
        BY <1>4, <3>2
      <4>2. request[r].at = "judge"
        <5>1. ~End(r)
          BY <3>2 DEF End, Idle, RequestsOK
        <5> QED BY <5>1 DEF FailUser, FailAddress
      <4> QED BY <4>1, <4>2 DEF InHand
    <3> QED BY <3>1, <3>2
  <2>2. InHand(k)' \subseteq InHand(k) /\ (r \notin InHand(k)' => InHand(k)' \subseteq InHand(k) \ {r})
    BY <1>1, <1>3, <2>1, HandsMove
  <2>3. CASE k # key
    <3>1. /\ wrong'[k] = wrong[k]
          /\ \/ m'[k] = m[k] /\ last'[k] = last[k]
             \/ Stale(m[k]) /\ m'[k] = Blank /\ last'[k] = 0
      <4> HIDE DEF key
      <4> QED BY <1>5, <2>3, FailSteps DEF Shaped
    <3> QED BY <2>2, <3>1 DEF Quiet
  <2>4. CASE k = key
    <3>1. /\ wrong'[k] = Judged(wrong[k])
          /\ \/ /\ m'[k] = Punished(k, Counted(m[k]))
                /\ last'[k] = IF m'[k].count = 0 THEN m'[k].left ELSE last[k]
             \/ /\ Stale(m[k]) /\ m'[k] = Punished(k, Counted(Blank))
                /\ last'[k] = IF m'[k].count = 0 THEN m'[k].left ELSE 0
      <4> HIDE DEF key
      <4> QED BY <1>5, <2>4, FailSteps DEF Shaped
    <3>2. r \in InHand(k) /\ r \notin InHand(k)'
      <4>1. Users \cap Addresses = {}
        BY LimiterAssumption
      <4>2. CASE request[r].at = "judge"
        <5>1. Step(r, "failed") /\ k = request[r].user
          BY <2>4, <4>2 DEF FailUser, FailAddress
        <5>2. request'[r].at = "failed"
          BY <1>1, <5>1 DEF Step, RequestsOK, Busy
        <5> QED BY <1>2, <4>2, <5>1, <5>2 DEF InHand
      <4>3. CASE request[r].at # "judge"
        <5>1. End(r) /\ request[r].at = "failed" /\ k = request[r].address
          BY <2>4, <4>3 DEF FailUser, FailAddress
        <5>2. request'[r].at = "idle"
          BY <5>1 DEF End, RequestsOK, Idle
        <5>3. k \notin Users
          BY <1>2, <4>1, <5>1
        <5> QED BY <5>1, <5>2, <5>3 DEF InHand
      <4> QED BY <4>2, <4>3
    <3> QED BY <2>2, <3>1, <3>2 DEF Struck
  <2> QED BY <2>3, <2>4
<1> QED BY <1>4, <1>6, <1>7

\* A complete sign-in: the account is cleared, then the address.
LEMMA RightSteps ==
  ASSUME RequestsOK, Shaped, NEW r \in Requests, AcceptUser(r) \/ AcceptAddress(r)
  PROVE  RequestsOK' /\ Shaped' /\ \A k \in Keys : Quiet(k) \/ Cleared(k)
<1>1. request[r] \in Busy /\ request[r] # Idle
  BY DEF AcceptUser, AcceptAddress, Idle, RequestsOK
<1>2. request[r].user \in Users /\ request[r].address \in Addresses
  BY <1>1 DEF Busy
<1>3. Step(r, "accepted") \/ End(r)
  BY DEF AcceptUser, AcceptAddress
<1>4. /\ RequestsOK'
      /\ request'[r].at = "idle"
         \/ request'[r] = [at |-> "accepted", user |-> request[r].user, address |-> request[r].address]
  BY <1>1, <1>3, Moved
<1> DEFINE key == IF request[r].at = "judge" THEN request[r].user ELSE request[r].address
<1>5. /\ key \in Keys
      /\ m' = [m EXCEPT ![key] = Blank] /\ wrong' = [wrong EXCEPT ![key] = {}] /\ last' = [last EXCEPT ![key] = 0]
  BY <1>2 DEF AcceptUser, AcceptAddress, Keys, Reset
<1>6. Shaped'
  <2> HIDE DEF key
  <2> QED BY <1>5 DEF Shaped
<1>7. ASSUME NEW k \in Keys PROVE Quiet(k) \/ Cleared(k)
  <2>1. CASE k # key
    <3>1. m'[k] = m[k] /\ wrong'[k] = wrong[k] /\ last'[k] = last[k]
      <4> HIDE DEF key
      <4> QED BY <1>5, <2>1 DEF Shaped
    <3>2. request'[r].at \in {"idle", "accepted"}
      BY <1>4
    <3>3. r \notin InHand(k)'
      BY <3>2 DEF InHand
    <3>4. InHand(k)' \subseteq InHand(k)
      BY <1>1, <1>3, <3>3, HandsMove
    <3> QED BY <3>1, <3>4 DEF Quiet
  <2>2. CASE k = key
    <3>1. m'[k] = Blank /\ wrong'[k] = {} /\ last'[k] = 0
      <4> HIDE DEF key
      <4> QED BY <1>5, <2>2 DEF Shaped
    <3>2. (AcceptUser(r) /\ k = request[r].user) \/ (AcceptAddress(r) /\ k = request[r].address)
      BY <2>2 DEF AcceptUser, AcceptAddress
    <3> QED BY <3>1, <3>2 DEF Cleared
  <2> QED BY <2>1, <2>2
<1> QED BY <1>4, <1>6, <1>7

\* Whatever the limiter and its callers do, one of four things happens to a key.
LEMMA KeySteps ==
  ASSUME RequestsOK, Shaped, [Next]_vars
  PROVE  /\ RequestsOK' /\ Shaped'
         /\ \A k \in Keys : Quiet(k) \/ (\E r \in Requests : Struck(k, r)) \/ Cleared(k) \/ Ticked(k)
<1>1. CASE \E r \in Requests, u \in Users, a \in Addresses : CheckUser(r, u, a)
  BY <1>1, CheckUserSteps
<1>2. ASSUME NEW r \in Requests, Handler(r)
      PROVE  /\ RequestsOK' /\ Shaped'
             /\ \A k \in Keys : Quiet(k) \/ Struck(k, r) \/ Cleared(k)
  <2>1. CASE CheckAddress(r) \/ Pass(r)
    BY <2>1, AskSteps
  <2>2. CASE \E crowded \in BOOLEAN : FailUser(r, crowded) \/ FailAddress(r, crowded)
    BY <2>2, WrongSteps
  <2>3. CASE AcceptUser(r) \/ AcceptAddress(r)
    BY <2>3, RightSteps
  <2> QED BY <1>2, <2>1, <2>2, <2>3 DEF Handler
<1>3. CASE Tick
  <2>1. request' = request /\ last' = last
    BY <1>3 DEF Tick
  <2>2. \A k \in Keys : /\ m'[k] = [m[k] EXCEPT !.age = IF @ > Window THEN @ ELSE @ + 1,
                                                 !.left = IF @ < 0 THEN @ ELSE @ - 1]
                        /\ wrong'[k] = Aged(wrong[k])
    BY <1>3 DEF Tick
  <2>3. Shaped' /\ RequestsOK'
    <3>1. m' = [k \in Keys |-> m'[k]] /\ wrong' = [k \in Keys |-> wrong'[k]]
      BY <1>3 DEF Tick
    <3> QED BY <2>1, <3>1 DEF Shaped, RequestsOK
  <2>4. \A k \in Keys : InHand(k)' = InHand(k)
    BY <2>1 DEF InHand
  <2> QED BY <2>1, <2>2, <2>3, <2>4 DEF Ticked
<1>4. CASE UNCHANGED vars
  BY <1>4 DEF vars, RequestsOK, Shaped, Quiet, InHand
<1> QED BY <1>1, <1>2, <1>3, <1>4 DEF Next

-----------------------------------------------------------------------------
(* The inductive invariant *)

\* What is held about a key.
EntryOK(k) ==
  /\ m[k] \in Entry /\ m[k].count < Threshold(k) /\ m[k].left \in -1 .. Duration(MaxShift)
  /\ wrong[k] \subseteq (0 .. Window - 1) \X Nat
  /\ last[k] \in Nat

\* The length of the last lock follows from the number of locks, and what is left
\* of a lock is never more.
LocksKnown(k) ==
  IF m[k].locks = 0 THEN last[k] = 0 /\ m[k].left = -1
                    ELSE last[k] = Duration(m[k].locks - 1) /\ m[k].left <= last[k]

\* Of the wrong answers w about a key with entry e: those that will still be young
\* when its lock ends (all of them, when it is not locked), in the current window
\* and before it.
Alive(w, e) == {x \in w : x[1] + e.left < Window}

Current(w, e) == {x \in Alive(w, e) : x[1] <= e.age}

Earlier(w, e) == {x \in Alive(w, e) : x[1] > e.age}

\* Each window that touches the present holds less than the threshold t.
WindowsOK(w, e, t) ==
  /\ IsFiniteSet(w)
  /\ e.age > Window => \A x \in w : x[1] # 0
  /\ Cardinality(Earlier(w, e)) < t
  /\ IF e.age > Window THEN Cardinality(Current(w, e)) < t
                       ELSE Cardinality(Current(w, e)) <= e.count

\* While k is locked nobody is let in: the answers that are still to come are
\* those of the requests in hand.
LockedOK(k) ==
  Locked(k) => Cardinality(wrong[k]) + Cardinality(InHand(k))
                 <= 2 * Threshold(k) - 1 + Cardinality(Requests) - 1

IndInv ==
  /\ RequestsOK
  /\ Shaped
  /\ \A k \in Keys :
       EntryOK(k) /\ LocksKnown(k) /\ WindowsOK(wrong[k], m[k], Threshold(k)) /\ LockedOK(k)

-----------------------------------------------------------------------------
(* The length of the locks, step by step *)

\* A failure is counted, or makes a lock.
LEMMA EntryStruck ==
  ASSUME NEW k \in Keys, NEW e \in Entry, e.count < Threshold(k), e.left \in -1 .. Duration(MaxShift),
         NEW f, f = Punished(k, Counted(e))
  PROVE  /\ f \in Entry /\ f.count < Threshold(k) /\ f.left \in -1 .. Duration(MaxShift)
         /\ \/ /\ f.count # 0 /\ f.left = e.left /\ f.locks = e.locks
               /\ IF e.age > Window THEN f.count = 1 /\ f.age = 0 ELSE f.count = e.count + 1 /\ f.age = e.age
            \/ /\ f.count = 0 /\ f.left = Duration(e.locks)
               /\ f.locks = IF e.locks > MaxShift THEN e.locks ELSE e.locks + 1
         /\ f.age <= Window
<1>1. Threshold(k) \in Nat /\ Threshold(k) >= 1 /\ Window \in Nat /\ Window >= 1 /\ MaxShift \in Nat
  BY LimiterAssumption DEF Threshold
<1> DEFINE c == Counted(e)
<1>2. /\ c \in Entry /\ c.left = e.left /\ c.locks = e.locks /\ c.count \in Nat \ {0}
      /\ IF e.age > Window THEN c.count = 1 /\ c.age = 0 ELSE c.count = e.count + 1 /\ c.age = e.age
      /\ c.count <= e.count + 1
  <2>1. e.count \in Nat /\ e.age \in 0 .. Window + 1 /\ e.left \in Int /\ e.locks \in 0 .. MaxShift + 1
    BY DEF Entry
  <2>2. c = [count |-> IF e.age > Window THEN 1 ELSE e.count + 1, age |-> IF e.age > Window THEN 0 ELSE e.age,
             left |-> e.left, locks |-> e.locks]
    BY DEF Counted, Entry
  <2> HIDE DEF c
  <2>3. c \in Entry
    BY <1>1, <2>1, <2>2 DEF Entry
  <2> QED BY <1>1, <2>1, <2>2, <2>3
<1>3. e.locks \in 0 .. MaxShift + 1 /\ Duration(e.locks) \in Nat /\ Duration(e.locks) <= Duration(MaxShift)
      /\ Duration(MaxShift) \in Nat
  BY <1>1, Durations DEF Entry
<1>4. f = Punished(k, c)
  OBVIOUS
<1> HIDE DEF c
<1>5. CASE c.count >= Threshold(k)
  <2>1. f = [c EXCEPT !.left = Duration(c.locks), !.count = 0, !.locks = IF @ > MaxShift THEN @ ELSE @ + 1]
    BY <1>4, <1>5 DEF Punished
  <2>2. /\ f = [count |-> 0, age |-> c.age, left |-> Duration(c.locks),
                locks |-> IF c.locks > MaxShift THEN c.locks ELSE c.locks + 1]
        /\ c.age \in 0 .. Window + 1 /\ c.locks \in 0 .. MaxShift + 1
    BY <1>2, <2>1 DEF Entry
  <2>3. f \in Entry
    BY <1>1, <1>2, <1>3, <2>2 DEF Entry
  <2> QED BY <1>1, <1>2, <1>3, <2>2, <2>3
<1>6. CASE ~(c.count >= Threshold(k))
  <2>1. f = c
    BY <1>4, <1>6 DEF Punished
  <2> QED BY <1>1, <1>2, <1>6, <2>1 DEF Entry
<1> QED BY <1>5, <1>6

\* An entry never used is an entry.
LEMMA BlankEntry ==
  ASSUME NEW k \in Keys
  PROVE  /\ Blank \in Entry /\ Blank.count = 0 /\ Blank.left = -1 /\ Blank.locks = 0 /\ Blank.age = Window + 1
         /\ Blank.count < Threshold(k) /\ Blank.left \in -1 .. Duration(MaxShift)
<1>1. Threshold(k) \in Nat /\ Threshold(k) >= 1 /\ Window \in Nat /\ MaxShift \in Nat
  BY LimiterAssumption DEF Threshold
<1>2. Duration(MaxShift) \in Nat
  BY <1>1, Durations
<1> QED BY <1>1, <1>2 DEF Blank, Entry

\* A step leaves a lock alone, shortens it by a tick, lifts it by a sign-in, or sets
\* the next one in the series.
LEMMA LockSteps ==
  ASSUME NEW k \in Keys, EntryOK(k), LocksKnown(k),
         Quiet(k) \/ (\E r \in Requests : Struck(k, r)) \/ Cleared(k) \/ Ticked(k)
  PROVE  /\ m'[k] \in Entry /\ m'[k].count < Threshold(k) /\ m'[k].left \in -1 .. Duration(MaxShift)
         /\ last'[k] \in Nat
         /\ LocksKnown(k)'
         /\ Locked(k) /\ m'[k].left < m[k].left => m'[k].left = m[k].left - 1 \/ Cleared(k)
         /\ m'[k].left > m[k].left =>
              \/ m'[k].left = IF last[k] = 0 THEN Window
                              ELSE IF last[k] = Duration(MaxShift) THEN last[k]
                              ELSE 2 * last[k]
              \/ Stale(m[k]) /\ m'[k].left = Window
<1>0. /\ Window \in Nat /\ Window >= 1 /\ MaxShift \in Nat /\ Duration(MaxShift) \in Nat
      /\ m[k].locks \in 0 .. MaxShift + 1 /\ m[k].left \in -1 .. Duration(MaxShift) /\ m[k].age \in 0 .. Window + 1
      /\ m[k].count \in Nat /\ last[k] \in Nat
  BY LimiterAssumption, Durations DEF EntryOK, Entry
<1>1. CASE m'[k] = m[k] /\ last'[k] = last[k]
  BY <1>0, <1>1 DEF EntryOK, LocksKnown
<1>2. CASE (Stale(m[k]) \/ Cleared(k)) /\ m'[k] = Blank /\ last'[k] = 0
  BY <1>0, <1>2, BlankEntry DEF LocksKnown, Stale, Locked
<1>3. CASE Ticked(k)
  <2>1. m'[k].locks = m[k].locks /\ m'[k].left = (IF m[k].left < 0 THEN m[k].left ELSE m[k].left - 1) /\ last'[k] = last[k]
        /\ m'[k].count = m[k].count
    BY <1>3 DEF Ticked, EntryOK, Entry
  <2>2. m'[k] \in Entry
    <3>1. m'[k] = [count |-> m[k].count, age |-> IF m[k].age > Window THEN m[k].age ELSE m[k].age + 1,
                   left |-> IF m[k].left < 0 THEN m[k].left ELSE m[k].left - 1, locks |-> m[k].locks]
      BY <1>3 DEF Ticked, EntryOK, Entry
    <3> QED BY <1>0, <3>1 DEF Entry
  <2> QED BY <1>0, <2>1, <2>2 DEF EntryOK, LocksKnown
<1>4. CASE m'[k] = Punished(k, Counted(m[k])) /\ last'[k] = IF m'[k].count = 0 THEN m'[k].left ELSE last[k]
  <2>1. /\ m'[k] \in Entry /\ m'[k].count < Threshold(k) /\ m'[k].left \in -1 .. Duration(MaxShift)
        /\ \/ m'[k].count # 0 /\ m'[k].left = m[k].left /\ m'[k].locks = m[k].locks
           \/ /\ m'[k].count = 0 /\ m'[k].left = Duration(m[k].locks)
              /\ m'[k].locks = IF m[k].locks > MaxShift THEN m[k].locks ELSE m[k].locks + 1
    BY <1>4, EntryStruck DEF EntryOK
  <2>2. CASE m'[k].count # 0
    BY <1>0, <1>4, <2>1, <2>2 DEF LocksKnown
  <2>3. CASE m'[k].count = 0
    <3> DEFINE n == m[k].locks
    <3>1. /\ m'[k].left = Duration(n) /\ last'[k] = Duration(n) /\ m'[k].locks = (IF n > MaxShift THEN n ELSE n + 1)
          /\ n \in 0 .. MaxShift + 1 /\ Duration(n) \in Nat /\ Duration(n) >= Window
      BY <1>0, <1>4, <2>1, <2>3, Durations
    <3>2. last'[k] = Duration(m'[k].locks - 1) /\ m'[k].locks # 0
      <4>1. CASE n > MaxShift
        <5>1. n - 1 = MaxShift /\ n \in Nat /\ n >= MaxShift
          BY <1>0, <3>1, <4>1
        <5>2. Duration(n) = Duration(MaxShift)
          BY <5>1, Durations
        <5> QED BY <1>0, <3>1, <4>1, <5>1, <5>2
      <4>2. CASE ~(n > MaxShift)
        <5>1. m'[k].locks - 1 = n
          BY <1>0, <3>1, <4>2
        <5> QED BY <1>0, <3>1, <4>2, <5>1
      <4> QED BY <4>1, <4>2
    <3>3. CASE n = 0
      <4>1. Duration(n) = Window /\ last[k] = 0 /\ m[k].left = -1
        BY <3>3, Durations DEF LocksKnown
      <4> QED BY <1>0, <2>1, <3>1, <3>2, <4>1 DEF LocksKnown, Locked
    <3>4. CASE n # 0
      <4>1. last[k] = Duration(n - 1) /\ m[k].left <= last[k] /\ n - 1 \in Nat /\ n - 1 <= MaxShift
        BY <1>0, <3>4 DEF LocksKnown
      <4>2. last[k] >= Window
        BY <4>1, Durations
      <4>3. CASE n - 1 = MaxShift
        <5>1. Duration(n) = Duration(MaxShift)
          BY <1>0, <3>1, <4>3, Durations
        <5> QED BY <1>0, <2>1, <3>1, <3>2, <4>1, <4>2, <4>3, <5>1 DEF LocksKnown
      <4>4. CASE n - 1 < MaxShift
        <5>1. n = (n - 1) + 1
          BY <1>0
        <5>2. Duration(n) = 2 * Duration(n - 1) /\ Duration(n - 1) < Duration(n) /\ Duration(n - 1) < Duration(MaxShift)
          BY <4>1, <4>4, <5>1, Durations
        <5> QED BY <1>0, <2>1, <3>1, <3>2, <4>1, <4>2, <5>2 DEF LocksKnown
      <4> QED BY <1>0, <4>1, <4>3, <4>4
    <3> QED BY <3>3, <3>4
  <2> QED BY <2>2, <2>3
<1>5. CASE /\ Stale(m[k]) /\ m'[k] = Punished(k, Counted(Blank))
           /\ last'[k] = IF m'[k].count = 0 THEN m'[k].left ELSE 0
  <2>1. /\ m'[k] \in Entry /\ m'[k].count < Threshold(k) /\ m'[k].left \in -1 .. Duration(MaxShift)
        /\ \/ m'[k].count # 0 /\ m'[k].left = Blank.left /\ m'[k].locks = Blank.locks
           \/ /\ m'[k].count = 0 /\ m'[k].left = Duration(Blank.locks)
              /\ m'[k].locks = IF Blank.locks > MaxShift THEN Blank.locks ELSE Blank.locks + 1
    BY <1>5, EntryStruck, BlankEntry
  <2>2. Blank.left = -1 /\ Blank.locks = 0 /\ Duration(0) = Window /\ m[k].left < 0 /\ ~Locked(k)
    BY <1>0, <1>5, BlankEntry, Durations DEF Stale, Locked
  <2> QED BY <1>0, <1>5, <2>1, <2>2 DEF LocksKnown
<1> QED BY <1>1, <1>2, <1>3, <1>4, <1>5 DEF Quiet, Struck, Cleared

-----------------------------------------------------------------------------
(* The number of wrong answers, step by step *)

Answers == (0 .. Window - 1) \X Nat

\* One element makes a set larger by at most one, and the loss of one smaller by one.
LEMMA OneMore ==
  ASSUME NEW s, IsFiniteSet(s), NEW x
  PROVE  /\ Cardinality(s) \in Nat
         /\ IsFiniteSet(s \cup {x}) /\ Cardinality(s \cup {x}) \in Nat
         /\ Cardinality(s \cup {x}) <= Cardinality(s) + 1
         /\ \A d \in SUBSET (s \ {x}) :
              x \in s => IsFiniteSet(d) /\ Cardinality(d) \in Nat /\ Cardinality(d) <= Cardinality(s) - 1
<1> DEFINE a == Cardinality(s)
           b == Cardinality(s \cup {x})
           c == Cardinality(s \ {x})
<1>1. IsFiniteSet(s \cup {x}) /\ (b = a \/ b = a + 1)
  BY FS_AddElement
<1>2. IsFiniteSet(s \ {x}) /\ (x \in s => c = a - 1)
  BY FS_RemoveElement
<1>3. a \in Nat /\ b \in Nat /\ c \in Nat
  BY <1>1, <1>2, FS_CardinalityType
<1>4. b <= a + 1
  <2> HIDE DEF a, b
  <2> QED BY <1>1, <1>3
<1>5. ASSUME NEW d \in SUBSET (s \ {x}), x \in s
      PROVE  IsFiniteSet(d) /\ Cardinality(d) \in Nat /\ Cardinality(d) <= a - 1
  <2>1. IsFiniteSet(d) /\ Cardinality(d) <= c /\ Cardinality(d) \in Nat
    BY <1>2, FS_Subset, FS_CardinalityType
  <2>2. c = a - 1
    BY <1>2, <1>5
  <2> QED BY <2>1, <2>2
<1> QED BY <1>1, <1>3, <1>4, <1>5

\* A number of wrong answers is a number.
LEMMA WindowsFinite ==
  ASSUME NEW w \in SUBSET Answers, IsFiniteSet(w), NEW e \in Entry
  PROVE  /\ IsFiniteSet(Current(w, e)) /\ IsFiniteSet(Earlier(w, e)) /\ IsFiniteSet(Alive(w, e))
         /\ Cardinality(Current(w, e)) \in Nat /\ Cardinality(Earlier(w, e)) \in Nat /\ Cardinality(w) \in Nat
         /\ Alive(w, e) = Current(w, e) \cup Earlier(w, e)
         /\ e.age > Window => Current(w, e) = Alive(w, e)
<1>0. \A x \in w : x[1] \in 0 .. Window - 1
  BY DEF Answers
<1>1. Alive(w, e) \in SUBSET w /\ Current(w, e) \in SUBSET w /\ Earlier(w, e) \in SUBSET w
  BY DEF Alive, Current, Earlier
<1>2. e.age \in 0 .. Window + 1 /\ Window \in Nat
  BY LimiterAssumption DEF Entry
<1>3. Alive(w, e) = Current(w, e) \cup Earlier(w, e)
  <2>1. \A x \in w : x[1] <= e.age \/ x[1] > e.age
    BY <1>0, <1>2
  <2> QED BY <2>1 DEF Alive, Current, Earlier
<1>4. e.age > Window => Current(w, e) = Alive(w, e)
  BY <1>0, <1>2 DEF Alive, Current
<1> QED BY <1>1, <1>3, <1>4, FS_Subset, FS_CardinalityType

\* Who is not locked has at most two windows of wrong answers, none of them full.
LEMMA UnlockedBound ==
  ASSUME NEW w \in SUBSET Answers, NEW e \in Entry, NEW t \in Nat, e.count < t, e.left <= 0,
         WindowsOK(w, e, t)
  PROVE  Cardinality(w) <= 2 * t - 2
<1>1. w = Alive(w, e)
  <2>1. \A x \in w : x[1] \in 0 .. Window - 1
    BY DEF Answers
  <2> QED BY <2>1, LimiterAssumption DEF Alive, Entry
<1>2. /\ IsFiniteSet(Current(w, e)) /\ IsFiniteSet(Earlier(w, e)) /\ Cardinality(w) \in Nat
      /\ Cardinality(Current(w, e)) \in Nat /\ Cardinality(Earlier(w, e)) \in Nat
      /\ w = Current(w, e) \cup Earlier(w, e)
  BY <1>1, WindowsFinite DEF WindowsOK
<1>3. Current(w, e) \cap Earlier(w, e) = {}
  <2>1. \A x \in w : x[1] \in Int /\ e.age \in Int
    BY DEF Answers, Entry
  <2> QED BY <2>1 DEF Current, Earlier, Alive
<1>4. Cardinality(w) = Cardinality(Current(w, e)) + Cardinality(Earlier(w, e))
  <2>1. Cardinality(Current(w, e) \cap Earlier(w, e)) = 0
    BY <1>3, FS_EmptySet
  <2>2. Cardinality(Current(w, e) \cup Earlier(w, e)) =
          Cardinality(Current(w, e)) + Cardinality(Earlier(w, e)) - Cardinality(Current(w, e) \cap Earlier(w, e))
    BY <1>2, FS_Union
  <2> DEFINE c == Cardinality(Current(w, e))
             d == Cardinality(Earlier(w, e))
             b == Cardinality(w)
  <2>3. b = c + d - 0
    BY <1>2, <2>1, <2>2, Zenon
  <2>4. b = c + d
    <3>1. c \in Nat /\ d \in Nat
      BY <1>2
    <3> HIDE DEF b, c, d
    <3> QED BY <2>3, <3>1
  <2> QED BY <2>4
<1>5. e.count \in Nat
  BY DEF Entry
<1> QED BY <1>2, <1>4, <1>5 DEF WindowsOK

\* Answers grow old, and no two become one or one two.
LEMMA AgedFewer ==
  ASSUME NEW w \in SUBSET Answers, NEW s \in SUBSET Aged(w), NEW u, IsFiniteSet(u),
         \A x \in s : <<x[1] - 1, x[2]>> \in u
  PROVE  IsFiniteSet(s) /\ Cardinality(s) <= Cardinality(u)
<1> DEFINE f == [x \in s |-> <<x[1] - 1, x[2]>>]
<1>1. \A x \in s : x[1] \in Int /\ x = <<x[1], x[2]>>
  BY DEF Aged, Answers
<1>2. ASSUME NEW x \in s, NEW y \in s, f[x] = f[y] PROVE x = y
  <2>1. x[1] - 1 = y[1] - 1 /\ x[2] = y[2]
    BY <1>2
  <2> QED BY <1>1, <2>1
<1>3. f \in [s -> u] /\ DOMAIN f = s
  OBVIOUS
<1>4. f \in Injection(s, u)
  BY <1>2, <1>3 DEF Injection, IsInjective
<1> QED BY <1>4, FS_Injection

\* Time takes answers away from every window.
LEMMA TickWindows ==
  ASSUME NEW w \in SUBSET Answers, NEW e \in Entry, NEW f \in Entry, NEW t \in Nat, e.count < t, e.left >= -1,
         WindowsOK(w, e, t),
         f = [e EXCEPT !.age = IF @ > Window THEN @ ELSE @ + 1, !.left = IF @ < 0 THEN @ ELSE @ - 1]
  PROVE  /\ WindowsOK(Aged(w), f, t) /\ Aged(w) \in SUBSET Answers
         /\ Cardinality(Aged(w)) <= Cardinality(w) /\ Cardinality(Aged(w)) \in Nat
<1> DEFINE v == Aged(w)
<1>0. Window \in Nat /\ Window >= 1 /\ IsFiniteSet(w)
  BY LimiterAssumption DEF WindowsOK
<1>1. \A x \in v : x[1] \in 1 .. Window - 1 /\ <<x[1] - 1, x[2]>> \in w /\ x \in Answers
  <2>1. ASSUME NEW y \in w, y[1] + 1 < Window
        PROVE  /\ <<y[1] + 1, y[2]>> \in Answers /\ y[1] + 1 \in 1 .. Window - 1
               /\ <<(y[1] + 1) - 1, y[2]>> \in w
    <3>1. y[1] \in 0 .. Window - 1 /\ y[2] \in Nat /\ y = <<y[1], y[2]>>
      BY DEF Answers
    <3> QED BY <1>0, <2>1, <3>1 DEF Answers
  <2> QED BY <2>1 DEF Aged
<1>2. /\ e.age \in 0 .. Window + 1 /\ e.left \in Int /\ e.count \in Nat /\ f.count = e.count
      /\ f.age = (IF e.age > Window THEN e.age ELSE e.age + 1)
      /\ f.left = (IF e.left < 0 THEN e.left ELSE e.left - 1)
  BY DEF Entry
<1>3. IsFiniteSet(v) /\ Cardinality(v) <= Cardinality(w)
  BY <1>0, <1>1, AgedFewer
<1>4. /\ IsFiniteSet(Current(w, e)) /\ IsFiniteSet(Earlier(w, e)) /\ Cardinality(w) \in Nat
      /\ Cardinality(Current(w, e)) \in Nat /\ Cardinality(Earlier(w, e)) \in Nat
  BY <1>0, WindowsFinite
<1>5. v \in SUBSET Answers /\ Cardinality(v) \in Nat
  BY <1>1, <1>3, FS_CardinalityType
<1>6. /\ Cardinality(Current(v, f)) \in Nat /\ Cardinality(Earlier(v, f)) \in Nat
  <2> HIDE DEF v
  <2> QED BY <1>3, <1>5, WindowsFinite
<1>7. ASSUME NEW x \in Alive(v, f) PROVE <<x[1] - 1, x[2]>> \in Alive(w, e)
  <2>1. x[1] + f.left < Window /\ x[1] \in 1 .. Window - 1 /\ <<x[1] - 1, x[2]>> \in w
    BY <1>1, <1>7 DEF Alive
  <2>2. (x[1] - 1) + e.left < Window
    BY <1>0, <1>2, <2>1
  <2> QED BY <2>1, <2>2 DEF Alive
<1>8. Cardinality(Current(v, f)) <= Cardinality(Current(w, e))
  <2>1. ASSUME NEW x \in Current(v, f) PROVE <<x[1] - 1, x[2]>> \in Current(w, e)
    <3>1. x \in Alive(v, f) /\ x[1] <= f.age /\ x[1] \in 1 .. Window - 1
      BY <1>1, <2>1 DEF Current, Alive
    <3>2. x[1] - 1 <= e.age
      BY <1>0, <1>2, <3>1
    <3> QED BY <1>7, <3>1, <3>2 DEF Current
  <2>2. Current(v, f) \in SUBSET Aged(w)
    BY DEF Current, Alive
  <2> QED BY <1>4, <2>1, <2>2, AgedFewer
<1>9. Cardinality(Earlier(v, f)) <= Cardinality(Earlier(w, e))
  <2>1. ASSUME NEW x \in Earlier(v, f) PROVE <<x[1] - 1, x[2]>> \in Earlier(w, e)
    <3>1. x \in Alive(v, f) /\ x[1] > f.age /\ x[1] \in 1 .. Window - 1
      BY <1>1, <2>1 DEF Earlier, Alive
    <3>2. x[1] - 1 > e.age
      BY <1>0, <1>2, <3>1
    <3> QED BY <1>7, <3>1, <3>2 DEF Earlier
  <2>2. Earlier(v, f) \in SUBSET Aged(w)
    BY DEF Earlier, Alive
  <2> QED BY <1>4, <2>1, <2>2, AgedFewer
<1>10. \A x \in v : x[1] # 0
  <2> SUFFICES ASSUME NEW x \in v PROVE x[1] # 0
    OBVIOUS
  <2> DEFINE i == x[1]
  <2>1. i \in 1 .. Window - 1
    BY <1>1
  <2> HIDE DEF i
  <2>2. i # 0
    BY <1>0, <2>1
  <2> QED BY <2>2 DEF i
<1>11. WindowsOK(v, f, t)
  <2> HIDE DEF v
  <2> QED BY <1>0, <1>2, <1>3, <1>4, <1>6, <1>8, <1>9, <1>10 DEF WindowsOK
<1> QED BY <1>3, <1>5, <1>11

\* One more wrong answer is counted in the current window, or opens one, or makes a
\* lock that outlives them all.
LEMMA StruckWindows ==
  ASSUME NEW w \in SUBSET Answers, NEW e \in Entry, NEW f \in Entry, NEW t \in Nat, e.count < t,
         WindowsOK(w, e, t), f.age <= Window,
         \/ /\ f.count # 0 /\ f.left = e.left
            /\ IF e.age > Window THEN f.count = 1 /\ f.age = 0 ELSE f.count = e.count + 1 /\ f.age = e.age
         \/ f.count = 0 /\ f.left >= Window
  PROVE  /\ WindowsOK(Judged(w), f, t)
         /\ Judged(w) \in SUBSET Answers
         /\ Cardinality(Judged(w)) <= Cardinality(w) + 1 /\ Cardinality(Judged(w)) \in Nat
<1> DEFINE y == <<0, Cardinality({x \in w : x[1] = 0})>>
           v == w \cup {y}
<1>0. Window \in Nat /\ Window >= 1 /\ IsFiniteSet(w) /\ v = Judged(w)
  BY LimiterAssumption DEF WindowsOK, Judged
<1>1. y \in Answers /\ y[1] = 0
  <2>1. {x \in w : x[1] = 0} \in SUBSET w
    OBVIOUS
  <2>2. Cardinality({x \in w : x[1] = 0}) \in Nat
    BY <1>0, <2>1, FS_Subset, FS_CardinalityType
  <2> QED BY <1>0, <2>2 DEF Answers
<1> HIDE DEF y
<1>2. /\ IsFiniteSet(Current(w, e)) /\ IsFiniteSet(Earlier(w, e)) /\ IsFiniteSet(Alive(w, e)) /\ Cardinality(w) \in Nat
      /\ Cardinality(Current(w, e)) \in Nat /\ Cardinality(Earlier(w, e)) \in Nat
  BY <1>0, WindowsFinite
<1>3. IsFiniteSet(v) /\ v \in SUBSET Answers /\ Cardinality(v) \in Nat /\ Cardinality(v) <= Cardinality(w) + 1
  BY <1>0, <1>1, OneMore
<1>4. \A x \in v : x[1] \in 0 .. Window - 1
  BY <1>3 DEF Answers
<1>5. e.count \in Nat /\ e.left \in Int /\ e.age \in 0 .. Window + 1 /\ f.age \in 0 .. Window + 1 /\ f.left \in Int
  BY DEF Entry
<1>6. CASE f.count = 0 /\ f.left >= Window
  <2>1. Alive(v, f) = {}
    BY <1>0, <1>4, <1>5, <1>6 DEF Alive
  <2>2. Current(v, f) = {} /\ Earlier(v, f) = {}
    BY <2>1 DEF Current, Earlier
  <2>3. Cardinality(Current(v, f)) = 0 /\ Cardinality(Earlier(v, f)) = 0
    BY <2>2, FS_EmptySet
  <2> QED BY <1>0, <1>3, <1>5, <1>6, <2>3 DEF WindowsOK
<1>7. CASE f.count # 0 /\ f.left = e.left /\ e.age > Window /\ f.count = 1 /\ f.age = 0
  <2>1. Current(v, f) \in SUBSET {y}
    <3>1. \A x \in w : x[1] # 0 /\ x[1] \in 0 .. Window - 1
      BY <1>4, <1>7 DEF WindowsOK
    <3> QED BY <1>7, <3>1 DEF Current, Alive
  <2>2. Cardinality(Current(v, f)) <= 1 /\ Cardinality(Current(v, f)) \in Nat
    <3>1. IsFiniteSet({y}) /\ Cardinality({y}) = 1
      BY FS_Singleton
    <3> QED BY <2>1, <3>1, FS_Subset, FS_CardinalityType
  <2>3. Earlier(v, f) \in SUBSET Current(w, e)
    <3>1. Earlier(v, f) \in SUBSET Alive(w, e)
      BY <1>1, <1>4, <1>7 DEF Earlier, Alive
    <3> QED BY <1>0, <1>7, <3>1, WindowsFinite
  <2>4. Cardinality(Earlier(v, f)) <= Cardinality(Current(w, e)) /\ Cardinality(Earlier(v, f)) \in Nat
    BY <1>2, <2>3, FS_Subset, FS_CardinalityType
  <2>5. Cardinality(Current(w, e)) < t
    BY <1>7 DEF WindowsOK
  <2>6. Cardinality(Earlier(v, f)) < t /\ Cardinality(Current(v, f)) <= f.count /\ ~(f.age > Window)
    BY <1>0, <1>2, <1>7, <2>2, <2>4, <2>5
  <2> QED BY <1>0, <1>3, <2>6 DEF WindowsOK
<1>8. CASE f.count # 0 /\ f.left = e.left /\ ~(e.age > Window) /\ f.count = e.count + 1 /\ f.age = e.age
  <2>1. Current(v, f) \in SUBSET (Current(w, e) \cup {y})
    BY <1>8 DEF Current, Alive
  <2>2. Cardinality(Current(v, f)) <= Cardinality(Current(w, e)) + 1 /\ Cardinality(Current(v, f)) \in Nat
    <3>1. /\ IsFiniteSet(Current(w, e) \cup {y})
          /\ Cardinality(Current(w, e) \cup {y}) \in Nat
          /\ Cardinality(Current(w, e) \cup {y}) <= Cardinality(Current(w, e)) + 1
      BY <1>2, OneMore
    <3>2. Cardinality(Current(v, f)) <= Cardinality(Current(w, e) \cup {y}) /\ Cardinality(Current(v, f)) \in Nat
      BY <2>1, <3>1, FS_Subset, FS_CardinalityType
    <3> QED BY <1>2, <3>1, <3>2
  <2>3. Earlier(v, f) \in SUBSET Earlier(w, e)
    BY <1>1, <1>5, <1>8 DEF Earlier, Alive
  <2>4. Cardinality(Earlier(v, f)) <= Cardinality(Earlier(w, e)) /\ Cardinality(Earlier(v, f)) \in Nat
    BY <1>2, <2>3, FS_Subset, FS_CardinalityType
  <2>5. Cardinality(Earlier(w, e)) < t /\ Cardinality(Current(w, e)) <= e.count
    BY <1>8 DEF WindowsOK
  <2>6. Cardinality(Earlier(v, f)) < t /\ Cardinality(Current(v, f)) <= f.count /\ ~(f.age > Window)
    BY <1>0, <1>2, <1>5, <1>8, <2>2, <2>4, <2>5
  <2> QED BY <1>0, <1>3, <2>6 DEF WindowsOK
<1> QED BY <1>0, <1>3, <1>6, <1>7, <1>8

\* The purge changes nothing for a stale entry, and a sign-in forgets the answers.
LEMMA BlankWindows ==
  ASSUME NEW t \in Nat, t >= 1
  PROVE  /\ WindowsOK({}, Blank, t)
         /\ \A w \in SUBSET Answers : \A e \in Entry :
              WindowsOK(w, e, t) /\ e.left = -1 /\ e.age > Window => WindowsOK(w, Blank, t)
<1>0. Window \in Nat /\ Blank.left = -1 /\ Blank.age = Window + 1
  BY LimiterAssumption DEF Blank
<1>1. WindowsOK({}, Blank, t)
  <2>1. Current({}, Blank) = {} /\ Earlier({}, Blank) = {}
    BY DEF Current, Earlier, Alive
  <2> QED BY <1>0, <2>1, FS_EmptySet DEF WindowsOK
<1>2. ASSUME NEW w \in SUBSET Answers, NEW e \in Entry, WindowsOK(w, e, t), e.left = -1, e.age > Window
      PROVE  WindowsOK(w, Blank, t)
  <2>1. e.age = Window + 1
    BY <1>0, <1>2 DEF Entry
  <2>2. Alive(w, Blank) = Alive(w, e)
    BY <1>0, <1>2 DEF Alive
  <2>3. Current(w, Blank) = Current(w, e) /\ Earlier(w, Blank) = Earlier(w, e)
    BY <1>0, <2>1, <2>2 DEF Current, Earlier
  <2> QED BY <1>0, <1>2, <2>1, <2>3 DEF WindowsOK
<1> QED BY <1>1, <1>2

\* No step lets a key have more wrong answers than its bound.
LEMMA CountSteps ==
  ASSUME RequestsOK, NEW k \in Keys, EntryOK(k), LocksKnown(k), WindowsOK(wrong[k], m[k], Threshold(k)), LockedOK(k),
         m'[k] \in Entry, m'[k].count < Threshold(k), m'[k].left \in -1 .. Duration(MaxShift),
         Quiet(k) \/ (\E r \in Requests : Struck(k, r)) \/ Cleared(k) \/ Ticked(k)
  PROVE  /\ wrong'[k] \in SUBSET Answers
         /\ WindowsOK(wrong'[k], m'[k], Threshold(k))
         /\ LockedOK(k)'
<1> DEFINE t == Threshold(k)
           w == wrong[k]
           v == wrong'[k]
           e == m[k]
           f == m'[k]
           n == Cardinality(Requests)
           h == Cardinality(InHand(k))
           g == Cardinality(InHand(k)')
<1>0. /\ t \in Nat /\ t >= 1 /\ Window \in Nat /\ Window >= 1 /\ MaxShift \in Nat /\ Duration(MaxShift) \in Nat
      /\ IsFiniteSet(Requests) /\ n \in Nat /\ n >= 1
  <2>1. Cardinality(Requests) # 0 /\ Cardinality(Requests) \in Nat
    BY LimiterAssumption, FS_EmptySet, FS_CardinalityType
  <2> QED BY <2>1, LimiterAssumption, Durations DEF Threshold
<1>1. /\ w \in SUBSET Answers /\ e \in Entry /\ e.count < t /\ e.left \in -1 .. Duration(MaxShift) /\ WindowsOK(w, e, t)
      /\ IsFiniteSet(w) /\ Cardinality(w) \in Nat
  BY FS_CardinalityType DEF EntryOK, Answers, WindowsOK
<1>2. /\ IsFiniteSet(InHand(k)) /\ IsFiniteSet(InHand(k)') /\ h \in Nat /\ g \in Nat /\ h <= n /\ g <= n
  <2>1. InHand(k) \in SUBSET Requests /\ InHand(k)' \in SUBSET Requests
    BY DEF InHand
  <2> QED BY <1>0, <2>1, FS_Subset, FS_CardinalityType
<1>3. InHand(k)' \subseteq InHand(k) => g <= h
  BY <1>2, FS_Subset
<1>4. (LockedOK(k) <=> (e.left > 0 => Cardinality(w) + h <= 2 * t - 1 + n - 1))
      /\ (LockedOK(k)' <=> (f.left > 0 => Cardinality(v) + g <= 2 * t - 1 + n - 1))
  BY DEF LockedOK, Locked
<1>5. f \in Entry /\ f.count < t /\ f.left \in -1 .. Duration(MaxShift)
  OBVIOUS
<1>6. e.left <= 0 => Cardinality(w) <= 2 * t - 2
  BY <1>0, <1>1, UnlockedBound
<1>7. CASE v = w /\ f = e /\ (Locked(k) => InHand(k)' \subseteq InHand(k))
  <2> HIDE DEF t, n, h, g, f, v
  <2>1. LockedOK(k)'
    BY <1>0, <1>1, <1>2, <1>3, <1>4, <1>7 DEF Locked
  <2> QED BY <1>1, <1>7, <2>1 DEF v, f, t
<1>8. CASE Stale(e) /\ v = w /\ f = Blank
  <2>1. e.left = -1 /\ e.age > Window /\ Blank.left = -1
    BY <1>0, <1>1, <1>8 DEF Stale, Blank
  <2>2. WindowsOK(w, Blank, t)
    BY <1>0, <1>1, <2>1, BlankWindows
  <2> QED BY <1>1, <1>4, <1>8, <2>1, <2>2
<1>9. CASE Cleared(k)
  <2>1. v = {} /\ f = Blank /\ Blank.left = -1
    BY <1>9 DEF Cleared, Blank
  <2>2. WindowsOK({}, Blank, t)
    BY <1>0, BlankWindows
  <2> QED BY <1>4, <2>1, <2>2
<1>10. CASE Ticked(k)
  <2>1. /\ v = Aged(w) /\ InHand(k)' = InHand(k)
        /\ f = [e EXCEPT !.age = IF @ > Window THEN @ ELSE @ + 1, !.left = IF @ < 0 THEN @ ELSE @ - 1]
    BY <1>10 DEF Ticked
  <2>2. WindowsOK(v, f, t) /\ v \in SUBSET Answers /\ Cardinality(v) <= Cardinality(w) /\ Cardinality(v) \in Nat
    <3>1. e.left >= -1
      BY <1>0, <1>1
    <3> HIDE DEF t, f, v, e, w
    <3> QED BY <1>0, <1>1, <1>5, <2>1, <3>1, TickWindows
  <2>3. f.left > 0 => e.left > 0
    BY <1>1, <2>1 DEF Entry
  <2>4. g = h
    BY <2>1
  <2>5. LockedOK(k)'
    <3> HIDE DEF t, n, h, g, f, v, e, w
    <3> QED BY <1>0, <1>1, <1>2, <1>4, <2>2, <2>3, <2>4
  <2> QED BY <2>2, <2>5
<1>11. ASSUME NEW r \in Requests, Struck(k, r)
       PROVE  WindowsOK(v, f, t) /\ v \in SUBSET Answers /\ LockedOK(k)'
  <2>1. v = Judged(w) /\ r \in InHand(k) /\ InHand(k)' \subseteq InHand(k) \ {r}
    BY <1>11 DEF Struck
  <2>2. g <= h - 1 /\ g <= n - 1
    <3>2. g <= h - 1
      BY <1>2, <2>1, OneMore
    <3> HIDE DEF g, h, n
    <3> QED BY <1>0, <1>2, <3>2
  <2>3. PICK c \in Entry : /\ f = Punished(k, Counted(c)) /\ c.count < t /\ c.left \in -1 .. Duration(MaxShift)
                           /\ WindowsOK(w, c, t) /\ (c = e \/ (c.left = -1 /\ e.left = -1))
    <3>1. CASE f = Punished(k, Counted(e))
      BY <1>1, <3>1
    <3>2. CASE Stale(e) /\ f = Punished(k, Counted(Blank))
      <4>1. e.left = -1 /\ e.age > Window
        BY <1>0, <1>1, <3>2 DEF Stale
      <4>2. WindowsOK(w, Blank, t)
        BY <1>0, <1>1, <4>1, BlankWindows
      <4> QED BY <3>2, <4>1, <4>2, BlankEntry
    <3> QED BY <1>11, <3>1, <3>2 DEF Struck
  <2>4. /\ f.age <= Window
        /\ \/ /\ f.count # 0 /\ f.left = c.left
              /\ IF c.age > Window THEN f.count = 1 /\ f.age = 0 ELSE f.count = c.count + 1 /\ f.age = c.age
           \/ f.count = 0 /\ f.left >= Window
    <3>1. Duration(c.locks) >= Window
      BY <1>0, Durations DEF Entry
    <3> QED BY <2>3, <3>1, EntryStruck
  <2>5. WindowsOK(v, f, t) /\ v \in SUBSET Answers /\ Cardinality(v) <= Cardinality(w) + 1 /\ Cardinality(v) \in Nat
    BY <1>0, <1>1, <1>5, <2>1, <2>3, <2>4, StruckWindows
  <2>6. LockedOK(k)'
    <3> HIDE DEF t, n, h, g, f, v, e, w
    <3> QED BY <1>0, <1>1, <1>2, <1>4, <1>6, <2>2, <2>5
  <2> QED BY <2>5, <2>6
<1> QED BY <1>7, <1>8, <1>9, <1>10, <1>11 DEF Quiet

-----------------------------------------------------------------------------
(* Theorems *)

\* Nobody has tried to sign in yet.
LEMMA InitInv == Init => IndInv
<1> SUFFICES ASSUME Init PROVE IndInv
  OBVIOUS
<1>1. RequestsOK /\ Shaped
  BY DEF Init, RequestsOK, Shaped
<1>2. ASSUME NEW k \in Keys
      PROVE  EntryOK(k) /\ LocksKnown(k) /\ WindowsOK(wrong[k], m[k], Threshold(k)) /\ LockedOK(k)
  <2>1. m[k] = Blank /\ wrong[k] = {} /\ last[k] = 0
    BY DEF Init
  <2>2. Threshold(k) \in Nat /\ Threshold(k) >= 1
    BY LimiterAssumption DEF Threshold
  <2>3. WindowsOK(wrong[k], m[k], Threshold(k))
    BY <2>1, <2>2, BlankWindows
  <2> QED BY <2>1, <2>3, BlankEntry DEF EntryOK, LocksKnown, LockedOK, Locked
<1> QED BY <1>1, <1>2 DEF IndInv

\* Every step keeps the invariant.
LEMMA NextInv == IndInv /\ [Next]_vars => IndInv'
<1> SUFFICES ASSUME IndInv, [Next]_vars PROVE IndInv'
  OBVIOUS
<1>1. /\ RequestsOK' /\ Shaped'
      /\ \A k \in Keys : Quiet(k) \/ (\E r \in Requests : Struck(k, r)) \/ Cleared(k) \/ Ticked(k)
  BY KeySteps DEF IndInv
<1>2. ASSUME NEW k \in Keys
      PROVE  EntryOK(k)' /\ LocksKnown(k)' /\ WindowsOK(wrong[k], m[k], Threshold(k))' /\ LockedOK(k)'
  <2>1. EntryOK(k) /\ LocksKnown(k) /\ WindowsOK(wrong[k], m[k], Threshold(k)) /\ LockedOK(k) /\ RequestsOK
    BY DEF IndInv
  <2>2. /\ m'[k] \in Entry /\ m'[k].count < Threshold(k) /\ m'[k].left \in -1 .. Duration(MaxShift)
        /\ last'[k] \in Nat /\ LocksKnown(k)'
    BY <1>1, <2>1, LockSteps
  <2>3. wrong'[k] \in SUBSET Answers /\ WindowsOK(wrong'[k], m'[k], Threshold(k)) /\ LockedOK(k)'
    BY <1>1, <2>1, <2>2, CountSteps
  <2> QED BY <2>2, <2>3 DEF EntryOK, Answers
<1> QED BY <1>1, <1>2 DEF IndInv

\* The invariant holds in every state.
LEMMA Inductive == Spec => []IndInv
BY InitInv, NextInv, PTL DEF Spec

\* TypeOK: every entry is well formed, never waits with as many failures counted as its
\* threshold, and is never locked for longer than the cap of the backoff.
THEOREM EntriesAreSound == Spec => []TypeOK
<1>1. IndInv => TypeOK
  <2> SUFFICES ASSUME IndInv PROVE TypeOK
    OBVIOUS
  <2>1. Shaped /\ RequestsOK /\ \A k \in Keys : EntryOK(k)
    BY DEF IndInv
  <2>2. \A k \in Keys : /\ m[k] \in Entry /\ m[k].count < Threshold(k) /\ m[k].left \in -1 .. Duration(MaxShift)
                        /\ wrong[k] \in SUBSET ((0 .. Window - 1) \X Nat) /\ last[k] \in Nat
    BY <2>1 DEF EntryOK
  <2>3. m \in [Keys -> Entry] /\ wrong \in [Keys -> SUBSET ((0 .. Window - 1) \X Nat)] /\ last \in [Keys -> Nat]
    <3>1. m = [k \in Keys |-> m[k]] /\ wrong = [k \in Keys |-> wrong[k]] /\ last = [k \in Keys |-> last[k]]
      BY <2>1 DEF Shaped
    <3> QED BY <2>2, <3>1
  <2> QED BY <2>1, <2>2, <2>3 DEF TypeOK, RequestsOK
<1> QED BY <1>1, Inductive, PTL

\* GuessesBounded (limiter.go:10-13): between two successes, no more wrong answers about a
\* key are judged in the time of a window than two windows and the requests at hand allow.
THEOREM GuessingIsSlow == Spec => []GuessesBounded
<1>1. IndInv => GuessesBounded
  <2> SUFFICES ASSUME IndInv, NEW k \in Keys
               PROVE  Cardinality(wrong[k]) <= 2 * Threshold(k) - 1 + Cardinality(Requests) - 1
    BY DEF GuessesBounded
  <2> DEFINE t == Threshold(k)
             n == Cardinality(Requests)
             c == Cardinality(wrong[k])
             h == Cardinality(InHand(k))
  <2>1. EntryOK(k) /\ WindowsOK(wrong[k], m[k], t) /\ LockedOK(k)
    BY DEF IndInv
  <2>2. t \in Nat /\ n \in Nat /\ n >= 1 /\ c \in Nat /\ h \in Nat
    <3>1. IsFiniteSet(wrong[k]) /\ IsFiniteSet(Requests) /\ InHand(k) \in SUBSET Requests
      BY <2>1, LimiterAssumption DEF WindowsOK, InHand
    <3>2. n # 0 /\ n \in Nat
      BY <3>1, LimiterAssumption, FS_EmptySet, FS_CardinalityType
    <3>3. IsFiniteSet(InHand(k))
      BY <3>1, FS_Subset
    <3>4. c \in Nat /\ h \in Nat
      BY <3>1, <3>3, FS_CardinalityType
    <3> QED BY <3>2, <3>4, LimiterAssumption DEF Threshold
  <2>3. CASE Locked(k)
    <3>1. c + h <= 2 * t - 1 + n - 1
      BY <2>1, <2>3 DEF LockedOK
    <3> HIDE DEF t, n, c, h
    <3> QED BY <2>2, <3>1 DEF t, n, c
  <2>4. CASE ~Locked(k)
    <3>1. c <= 2 * t - 2
      <4>1. m[k].left <= 0 /\ wrong[k] \in SUBSET Answers /\ m[k] \in Entry /\ m[k].count < t
        BY <2>1, <2>4 DEF EntryOK, Locked, Answers, Entry
      <4> QED BY <2>1, <2>2, <4>1, UnlockedBound
    <3> HIDE DEF t, n, c
    <3> QED BY <2>2, <3>1 DEF t, n, c
  <2> QED BY <2>3, <2>4
<1> QED BY <1>1, Inductive, PTL

\* LockHolds: no purge, no failure and nothing that happens to another key shortens a lock.
THEOREM LocksHold == Spec => LockHolds
<1>1. ASSUME IndInv, [Next]_vars, NEW k \in Keys, Locked(k), m'[k].left < m[k].left
      PROVE  \/ m'[k].left = m[k].left - 1
             \/ \E r \in Requests :
                   \/ AcceptUser(r) /\ k = request[r].user
                   \/ AcceptAddress(r) /\ k = request[r].address
  <2>1. EntryOK(k) /\ LocksKnown(k) /\ RequestsOK /\ Shaped
    BY <1>1 DEF IndInv
  <2>2. Quiet(k) \/ (\E r \in Requests : Struck(k, r)) \/ Cleared(k) \/ Ticked(k)
    BY <1>1, <2>1, KeySteps
  <2>3. m'[k].left = m[k].left - 1 \/ Cleared(k)
    BY <1>1, <2>1, <2>2, LockSteps
  <2> QED BY <2>3 DEF Cleared
<1>2. IndInv /\ [Next]_vars =>
        [\A k \in Keys :
          Locked(k) /\ m'[k].left < m[k].left =>
              \/ m'[k].left = m[k].left - 1
              \/ \E r \in Requests :
                    \/ AcceptUser(r) /\ k = request[r].user
                    \/ AcceptAddress(r) /\ k = request[r].address]_vars
  BY <1>1
<1> QED BY <1>2, Inductive, PTL DEF Spec, LockHolds

\* LocksEscalate (limiter.go:95-100): until a success or a purge, each lock of a key is
\* twice as long as the one before, up to the cap.
THEOREM LocksGrow == Spec => LocksEscalate
<1>1. ASSUME IndInv, [Next]_vars, NEW k \in Keys, m'[k].left > m[k].left
      PROVE  \/ m'[k].left = IF last[k] = 0 THEN Window
                             ELSE IF last[k] = Duration(MaxShift) THEN last[k]
                             ELSE 2 * last[k]
             \/ Stale(m[k]) /\ m'[k].left = Window
  <2>1. EntryOK(k) /\ LocksKnown(k) /\ RequestsOK /\ Shaped
    BY <1>1 DEF IndInv
  <2>2. Quiet(k) \/ (\E r \in Requests : Struck(k, r)) \/ Cleared(k) \/ Ticked(k)
    BY <1>1, <2>1, KeySteps
  <2> QED BY <1>1, <2>1, <2>2, LockSteps
<1>2. IndInv /\ [Next]_vars =>
        [\A k \in Keys :
          m'[k].left > m[k].left =>
              \/ m'[k].left = IF last[k] = 0 THEN Window
                              ELSE IF last[k] = Duration(MaxShift) THEN last[k]
                              ELSE 2 * last[k]
              \/ Stale(m[k]) /\ m'[k].left = Window]_vars
  BY <1>1
<1> QED BY <1>2, Inductive, PTL DEF Spec, LocksEscalate

=============================================================================
