---------------------------- MODULE LoginLimiter ----------------------------
(***************************************************************************)
(* The guard against guessing of passwords and codes (auth/limiter.go) and *)
(* the handlers that consult it (HandleLogin, HandleLoginVerify).          *)
(*                                                                         *)
(* A key is an account name or a client address.  The limiter locks and    *)
(* unlocks its mutex at each call, and the handlers make four calls: is    *)
(* the account locked, is the address locked, and, once the answer is      *)
(* judged, one call for each key.  Requests interleave between them.       *)
(*                                                                         *)
(* Times are relative to now, in ticks: the age of a window and what is    *)
(* left of a lock, -1 once its end is past.  An absent entry behaves as an *)
(* entry whose window is over, whose lock is past and that was never       *)
(* locked (Blank).  Whether the map has more than 4096 entries depends on  *)
(* names that are not modelled: the purge may run at any failure.          *)
(***************************************************************************)
EXTENDS Integers, FiniteSets

CONSTANTS Users,         \* account names
          Addresses,     \* client addresses
          Requests,      \* requests that may be in progress at once
          MaxUser,       \* maxFailedAttempts
          MaxAddress,    \* maxIPAttempts
          Window,        \* attemptWindow, in ticks; lockoutDuration is the same
          MaxShift       \* maxBackoffShift

ASSUME LimiterAssumption ==
    /\ Users \cap Addresses = {}
    /\ IsFiniteSet(Requests) /\ Requests # {}
    /\ {MaxUser, MaxAddress, Window} \subseteq Nat \ {0}
    /\ MaxShift \in Nat

VARIABLES m,        \* the entry of every key
          request,  \* the requests in progress
          wrong,    \* history: wrong answers about a key younger than Window, since the last
                    \* success, each <<age, number>>
          last      \* history: length of the last lock of a key, 0 before the first

vars == <<m, request, wrong, last>>

Keys == Users \cup Addresses

Threshold(k) == IF k \in Users THEN MaxUser ELSE MaxAddress

Entry == [count : Nat, age : 0 .. Window + 1, left : Int, locks : 0 .. MaxShift + 1]

Blank == [count |-> 0, age |-> Window + 1, left |-> -1, locks |-> 0]

Idle == [at |-> "idle"]

Busy == [at : {"address", "judge", "failed", "accepted"}, user : Users, address : Addresses]

Step(r, at) == request' = [request EXCEPT ![r].at = at]

End(r) == request' = [request EXCEPT ![r] = Idle]

Init ==
    /\ m = [k \in Keys |-> Blank]
    /\ request = [r \in Requests |-> Idle]
    /\ wrong = [k \in Keys |-> {}]
    /\ last = [k \in Keys |-> 0]

-----------------------------------------------------------------------------
(* The limiter *)

Locked(k) == m[k].left > 0

\* The lock after n earlier ones.
Duration(n) == Window * 2 ^ (IF n > MaxShift THEN MaxShift ELSE n)

\* Mutant: an entry goes as soon as its window is over, locked or not.
StaleByWindow(e) == e.age > Window

Stale(e) == e.left < 0 /\ e.age > Window

\* Mutant: a new window also forgets the earlier locks.
CountedAfresh(e) ==
    IF e.age > Window THEN [e EXCEPT !.count = 1, !.age = 0, !.locks = 0]
                      ELSE [e EXCEPT !.count = @ + 1]

Counted(e) ==
    IF e.age > Window THEN [e EXCEPT !.count = 1, !.age = 0]
                      ELSE [e EXCEPT !.count = @ + 1]

\* Mutant: the lock is set one failure too late.
PunishedLate(k, e) ==
    IF e.count > Threshold(k)
    THEN [e EXCEPT !.left = Duration(e.locks), !.count = 0,
                   !.locks = IF @ > MaxShift THEN @ ELSE @ + 1]
    ELSE e

\* locks counts to the first value that the cap of the shift absorbs.
Punished(k, e) ==
    IF e.count >= Threshold(k)
    THEN [e EXCEPT !.left = Duration(e.locks), !.count = 0,
                   !.locks = IF @ > MaxShift THEN @ ELSE @ + 1]
    ELSE e

Purged == {k \in Keys : Stale(m[k])}

Judged(w) == w \cup {<<0, Cardinality({x \in w : x[1] = 0})>>}

\* fail: the purge, then the failure of k.
Fail(k, crowded) ==
    LET gone   == IF crowded THEN Purged ELSE {}
        before == [j \in Keys |-> IF j \in gone THEN Blank ELSE m[j]]
        after  == Punished(k, Counted(before[k]))
    IN  /\ m' = [before EXCEPT ![k] = after]
        /\ wrong' = [wrong EXCEPT ![k] = Judged(@)]
        /\ last' = [j \in Keys |->
                      IF j = k /\ after.count = 0 THEN after.left
                      ELSE IF j \in gone THEN 0 ELSE last[j]]

Reset(k) ==
    /\ m' = [m EXCEPT ![k] = Blank]
    /\ wrong' = [wrong EXCEPT ![k] = {}]
    /\ last' = [last EXCEPT ![k] = 0]

-----------------------------------------------------------------------------
(* The handlers *)

\* Mutant: the account is not asked about.
CheckUserNot(r, u, a) ==
    /\ request[r] = Idle
    /\ request' = [request EXCEPT ![r] = [at |-> "address", user |-> u, address |-> a]]
    /\ UNCHANGED <<m, wrong, last>>

\* A password or a code arrives for account u from address a.  A locked key
\* answers 429 and changes nothing.
CheckUser(r, u, a) ==
    /\ request[r] = Idle
    /\ ~Locked(u)
    /\ request' = [request EXCEPT ![r] = [at |-> "address", user |-> u, address |-> a]]
    /\ UNCHANGED <<m, wrong, last>>

CheckAddress(r) ==
    /\ request[r].at = "address"
    /\ IF Locked(request[r].address) THEN End(r) ELSE Step(r, "judge")
    /\ UNCHANGED <<m, wrong, last>>

\* The password is right, or the request ends in an error of the server: the
\* limiter is not told.
Pass(r) ==
    /\ request[r].at = "judge"
    /\ End(r)
    /\ UNCHANGED <<m, wrong, last>>

\* A wrong password or a wrong code.
FailUser(r, crowded) ==
    /\ request[r].at = "judge"
    /\ Fail(request[r].user, crowded)
    /\ Step(r, "failed")

FailAddress(r, crowded) ==
    /\ request[r].at = "failed"
    /\ Fail(request[r].address, crowded)
    /\ End(r)

\* The right code: the sign-in is complete.
AcceptUser(r) ==
    /\ request[r].at = "judge"
    /\ Reset(request[r].user)
    /\ Step(r, "accepted")

AcceptAddress(r) ==
    /\ request[r].at = "accepted"
    /\ Reset(request[r].address)
    /\ End(r)

-----------------------------------------------------------------------------
(* Time *)

Aged(w) == {<<x[1] + 1, x[2]>> : x \in {y \in w : y[1] + 1 < Window}}

Tick ==
    /\ m' = [k \in Keys |->
               [m[k] EXCEPT !.age = IF @ > Window THEN @ ELSE @ + 1,
                            !.left = IF @ < 0 THEN @ ELSE @ - 1]]
    /\ wrong' = [k \in Keys |-> Aged(wrong[k])]
    /\ UNCHANGED <<request, last>>

Handler(r) ==
    \/ CheckAddress(r)
    \/ Pass(r)
    \/ \E crowded \in BOOLEAN : FailUser(r, crowded) \/ FailAddress(r, crowded)
    \/ AcceptUser(r)
    \/ AcceptAddress(r)

Next ==
    \/ \E r \in Requests, u \in Users, a \in Addresses : CheckUser(r, u, a)
    \/ \E r \in Requests : Handler(r)
    \/ Tick

\* Time passes and a handler that was started ends.
Fairness == WF_vars(Tick) /\ \A r \in Requests : WF_vars(Handler(r))

Spec == Init /\ [][Next]_vars /\ Fairness

-----------------------------------------------------------------------------
(* Properties *)

\* What every variable may hold, and: a key never waits with as many failures
\* counted as its threshold.
TypeOK ==
    /\ m \in [Keys -> Entry]
    /\ \A k \in Keys :
          /\ m[k].count < Threshold(k)
          /\ m[k].left \in -1 .. Duration(MaxShift)
    /\ request \in [Requests -> {Idle} \cup Busy]
    /\ wrong \in [Keys -> SUBSET ((0 .. Window - 1) \X Nat)]
    /\ last \in [Keys -> Nat]

\* limiter.go:10-13: guessing is slow.  In the time of one window, and without
\* a success in between, at most so many wrong answers are judged about a key:
\* the windows are not sliding, so two of them may touch, and the requests let
\* in before the lock are still judged after it.
GuessesBounded ==
    \A k \in Keys :
        Cardinality(wrong[k]) <= 2 * Threshold(k) - 1 + Cardinality(Requests) - 1

\* A lock is not lifted by anything but the time and the success of a sign-in:
\* neither the purge, nor the failures judged meanwhile, nor what happens to
\* another key makes it shorter.
LockHolds ==
    [][\A k \in Keys :
          Locked(k) /\ m'[k].left < m[k].left =>
              \/ m'[k].left = m[k].left - 1
              \/ \E r \in Requests :
                    \/ AcceptUser(r) /\ k = request[r].user
                    \/ AcceptAddress(r) /\ k = request[r].address]_vars

\* limiter.go:13 and :95-100: until a success, or a purge, every lock of a key
\* is twice as long as the one before, up to the cap.
LocksEscalate ==
    [][\A k \in Keys :
          m'[k].left > m[k].left =>
              \/ m'[k].left = IF last[k] = 0 THEN Window
                              ELSE IF last[k] = Duration(MaxShift) THEN last[k]
                              ELSE 2 * last[k]
              \/ Stale(m[k]) /\ m'[k].left = Window]_vars

\* A lock ends, since no request is let in that could prolong it.  Wrong guesses
\* may lock the key again at once: nothing is promised to its owner in between.
LockEnds == \A k \in Keys : Locked(k) ~> ~Locked(k)
=============================================================================
