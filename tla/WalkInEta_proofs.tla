-------------------------- MODULE WalkInEta_proofs --------------------------
(* Proofs about WalkInEta, for every call, every queue and every set of rows. *)
EXTENDS WalkInEta, OrderLemmas, TLAPS

-----------------------------------------------------------------------------
(* The algorithm's helpers                                                 *)

\* Using a bay at one instant and at a later one: whoever holds a bay at u and
\* had it already at an earlier checkpoint c was counted there.
LEMMA UsageCarries ==
    ASSUME NEW ivs \in SUBSET Interval, IsFiniteSet(ivs),
           NEW c \in Nat, NEW u \in Nat, InUse(ivs, u) \subseteq InUse(ivs, c)
    PROVE  UsageAt(ivs, u) \in Nat /\ UsageAt(ivs, c) \in Nat /\ UsageAt(ivs, u) <= UsageAt(ivs, c)
<1>1. IsFiniteSet(InUse(ivs, c)) /\ IsFiniteSet(InUse(ivs, u))
  BY FS_Subset DEF InUse
<1> QED
  BY <1>1, FS_Subset, FS_CardinalityType DEF UsageAt

\* _fits is right: if a bay is free at the checkpoints, one is free throughout.
LEMMA CheckpointsCoverPeaks ==
    ASSUME NEW ivs \in SUBSET Interval, IsFiniteSet(ivs),
           NEW start \in Nat, NEW end \in Nat, NEW capacity \in Nat,
           Fits(ivs, start, end, capacity),
           NEW u \in Nat, start <= u, u < end
    PROVE  UsageAt(ivs, u) < capacity
<1> DEFINE C == {c \in Checkpoints(ivs, start, end) : c <= u}
<1>1. C \subseteq 0..u /\ start \in C
  BY DEF Checkpoints, Interval
<1>2. PICK c \in C : \A d \in C : d <= c
  BY <1>1, GreatestBelow
<1>3. c \in Nat
  BY <1>1, <1>2
<1>4. InUse(ivs, u) \subseteq InUse(ivs, c)
  <2> SUFFICES ASSUME NEW b \in InUse(ivs, u) PROVE b \in InUse(ivs, c)
    OBVIOUS
  <2>1. b \in Interval /\ b \in ivs /\ b.start \in Nat /\ b.end \in Nat /\ b.start <= u /\ u < b.end
    BY DEF InUse, Interval
  <2>2. b.start <= c
    <3>1. CASE b.start <= start
      BY <3>1, <2>1, <1>1, <1>2, <1>3
    <3>2. CASE ~(b.start <= start)
      <4>1. b.start \in C
        BY <3>2, <2>1 DEF Checkpoints
      <4> QED
        BY <4>1, <1>2
    <3> QED
      BY <3>1, <3>2
  <2> QED
    BY <2>1, <2>2, <1>1, <1>2, <1>3 DEF InUse
<1>5. UsageAt(ivs, u) <= UsageAt(ivs, c) /\ UsageAt(ivs, u) \in Nat /\ UsageAt(ivs, c) \in Nat
  BY <1>3, <1>4, UsageCarries
<1>6. UsageAt(ivs, c) < capacity
  BY <1>2 DEF Fits
<1> QED
  BY <1>5, <1>6

\* The converse: a job for which a bay is free throughout passes _fits.
LEMMA FreeThroughoutFits ==
    ASSUME NEW ivs \in SUBSET Interval,
           NEW start \in Nat, NEW end \in Nat, start < end, NEW capacity \in Nat,
           \A u \in start..(end - 1) : UsageAt(ivs, u) < capacity
    PROVE  Fits(ivs, start, end, capacity)
<1> SUFFICES ASSUME NEW c \in Checkpoints(ivs, start, end) PROVE UsageAt(ivs, c) < capacity
  BY DEF Fits
<1>1. c \in start..(end - 1)
  BY DEF Checkpoints, Interval
<1> QED
  BY <1>1

\* Candidates are instants, none of them before notBefore, and finitely many.
LEMMA CandidatesType ==
    ASSUME NEW ivs \in SUBSET Interval, IsFiniteSet(ivs), NEW notBefore \in Nat
    PROVE  /\ Candidates(ivs, notBefore) \subseteq Nat
           /\ \A t \in Candidates(ivs, notBefore) : notBefore <= t
           /\ notBefore \in Candidates(ivs, notBefore)
           /\ IsFiniteSet(Candidates(ivs, notBefore))
<1> DEFINE late == {b \in ivs : b.end > notBefore}
           ends == {b.end : b \in late}
           f == [b \in late |-> b.end]
<1>1. IsFiniteSet(late)
  BY FS_Subset
<1>2. f \in Surjection(late, ends)
  BY DEF Surjection
<1>3. IsFiniteSet(ends)
  BY <1>1, <1>2, FS_Surjection
<1>4. Candidates(ivs, notBefore) = ends \union {notBefore}
  BY DEF Candidates
<1> HIDE DEF late, ends, f
<1>5. IsFiniteSet(Candidates(ivs, notBefore))
  BY <1>3, <1>4, FS_AddElement
<1>6. /\ Candidates(ivs, notBefore) \subseteq Nat
      /\ \A t \in Candidates(ivs, notBefore) : notBefore <= t
      /\ notBefore \in Candidates(ivs, notBefore)
  BY DEF Candidates, Interval
<1> QED
  BY <1>5, <1>6

\* "The latest end always works": with at least one bay there is always a
\* candidate at which the job fits, so the last line of _earliest_start is
\* never reached.
THEOREM SomeStartIsGood ==
    ASSUME NEW ivs \in SUBSET Interval, IsFiniteSet(ivs), NEW notBefore \in Nat,
           NEW minutes \in Nat \ {0}, NEW capacity \in Nat \ {0}
    PROVE  Good(ivs, notBefore, minutes, capacity) # {}
<1>1. PICK t \in Candidates(ivs, notBefore) : \A u \in Candidates(ivs, notBefore) : u <= t
  BY CandidatesType, GreatestOfFinite
<1>2. t \in Nat /\ notBefore <= t
  BY CandidatesType
<1>3. \A b \in ivs : b.end \in Nat /\ b.end <= t
  <2> TAKE b \in ivs
  <2>1. b.end \in Nat
    BY DEF Interval
  <2>2. CASE b.end > notBefore
    <3>1. b.end \in Candidates(ivs, notBefore)
      BY <2>2 DEF Candidates
    <3> QED
      BY <3>1, <1>1, <2>1
  <2>3. CASE ~(b.end > notBefore)
    BY <2>1, <2>3, <1>2
  <2> QED
    BY <2>1, <2>2, <2>3
<1>4. \A u \in t..(t + minutes - 1) : UsageAt(ivs, u) = 0
  <2> TAKE u \in t..(t + minutes - 1)
  <2>1. InUse(ivs, u) = {}
    BY <1>2, <1>3 DEF InUse
  <2> QED
    BY <2>1, FS_EmptySet DEF UsageAt
<1>5. Fits(ivs, t, t + minutes, capacity)
  BY <1>2, <1>4, FreeThroughoutFits
<1> QED
  BY <1>5 DEF Good

\* What _earliest_start returns: an instant not before notBefore at which a bay
\* is free throughout, and no instant from notBefore on that has this property
\* is earlier - not only no candidate.
THEOREM EarliestStartIsEarliest ==
    ASSUME NEW ivs \in SUBSET Interval, IsFiniteSet(ivs), NEW notBefore \in Nat,
           NEW minutes \in Nat \ {0}, NEW capacity \in Nat \ {0}
    PROVE  LET s == EarliestStart(ivs, notBefore, minutes, capacity)
           IN  /\ s \in Nat /\ notBefore <= s
               /\ \A u \in s..(s + minutes - 1) : UsageAt(ivs, u) < capacity
               /\ \A t \in Nat : /\ notBefore <= t
                                 /\ \A u \in t..(t + minutes - 1) : UsageAt(ivs, u) < capacity
                                 => s <= t
<1> DEFINE s == EarliestStart(ivs, notBefore, minutes, capacity)
           good == Good(ivs, notBefore, minutes, capacity)
<1>1. good \subseteq Nat /\ good # {} /\ \A t \in good : notBefore <= t
  BY CandidatesType, SomeStartIsGood DEF Good
<1>2. s \in good /\ \A t \in good : s <= t
  <2>1. \E t \in good : \A u \in good : t <= u
    BY <1>1, LeastExists
  <2>2. s = CHOOSE t \in good : \A u \in good : t <= u
    BY <1>1 DEF EarliestStart
  <2> QED
    BY <2>1, <2>2
<1>3. s \in Nat /\ notBefore <= s
  BY <1>1, <1>2
<1>4. \A u \in s..(s + minutes - 1) : UsageAt(ivs, u) < capacity
  <2> TAKE u \in s..(s + minutes - 1)
  <2>1. Fits(ivs, s, s + minutes, capacity)
    BY <1>2 DEF Good
  <2>2. u \in Nat /\ s <= u /\ u < s + minutes
    BY <1>3
  <2> QED
    BY <1>3, <2>1, <2>2, CheckpointsCoverPeaks
<1>5. ASSUME NEW t \in Nat, notBefore <= t,
             \A u \in t..(t + minutes - 1) : UsageAt(ivs, u) < capacity
      PROVE  s <= t
  <2> DEFINE C == {c \in Candidates(ivs, notBefore) : c <= t}
  <2>1. C \subseteq 0..t /\ notBefore \in C
    BY <1>5, CandidatesType
  <2>2. PICK c \in C : \A d \in C : d <= c
    BY <2>1, GreatestBelow
  <2>3. c \in Nat /\ c <= t /\ c \in Candidates(ivs, notBefore)
    BY <2>1, <2>2
  <2>4. \A u \in c..(c + minutes - 1) : UsageAt(ivs, u) < capacity
    <3> TAKE u \in c..(c + minutes - 1)
    <3>1. CASE t <= u
      BY <3>1, <1>5, <2>3
    <3>2. CASE ~(t <= u)
      <4>1. InUse(ivs, u) \subseteq InUse(ivs, t)
        <5> SUFFICES ASSUME NEW b \in InUse(ivs, u) PROVE b \in InUse(ivs, t)
          OBVIOUS
        <5>1. b \in ivs /\ b.start \in Nat /\ b.end \in Nat /\ b.start <= u /\ u < b.end
          BY DEF InUse, Interval
        <5>2. b.end > notBefore
          BY <5>1, <2>3, <2>1, <2>2
        <5>3. ~(b.end <= t)
          <6>1. b.end \in Candidates(ivs, notBefore)
            BY <5>1, <5>2 DEF Candidates
          <6> QED
            BY <6>1, <5>1, <2>2, <2>3
        <5> QED
          BY <5>1, <5>3, <3>2, <2>3 DEF InUse
      <4>2. UsageAt(ivs, u) \in Nat /\ UsageAt(ivs, t) \in Nat
            /\ UsageAt(ivs, u) <= UsageAt(ivs, t)
        <5>1. u \in Nat
          BY <2>3
        <5> QED
          BY <4>1, <5>1, UsageCarries
      <4>3. UsageAt(ivs, t) < capacity
        BY <1>5
      <4> QED
        BY <4>2, <4>3
    <3> QED
      BY <3>1, <3>2
  <2>5. Fits(ivs, c, c + minutes, capacity)
    BY <2>3, <2>4, FreeThroughoutFits
  <2>6. c \in good
    BY <2>3, <2>5 DEF Good
  <2> QED
    BY <2>6, <2>3, <1>2, <1>3
<1> QED
  BY <1>3, <1>4, <1>5

-----------------------------------------------------------------------------
(* The loop                                                                *)

Floor0 == Later(call.now, call.opens)

\* The strengthening: the loop's intervals are exactly the rows still to come
\* and the jobs placed so far, its floor is the last start, and it blocks
\* exactly when the day is closed or somebody was turned away.
LoopInv ==
    /\ TypeOK
    /\ intervals = {b \in BusyIntervals(call) : StillBusy(b, Floor0)} \union {Job(i) : i \in Placed}
    /\ floor = Floor0 \/ \E i \in Placed : estimates[i] = floor
    /\ Floor0 <= floor
    /\ \A i \in Placed : Floor0 <= estimates[i] /\ estimates[i] <= floor
    /\ ~blocked => ~Closed(call) /\ Placed = 1..Len(estimates)
    /\ blocked => Closed(call) \/ \E i \in 1..Len(estimates) : i \notin Placed

IInv == /\ LoopInv
        /\ StartsInOrder
        /\ WithinHours
        /\ BaysRespected
        /\ NoEarlierStart
        /\ TurnedAwayOnlyIfFull

\* The types of a call's fields.
LEMMA CallType ==
    ASSUME NEW c \in Inputs
    PROVE  /\ c.now \in Nat /\ c.opens \in Nat /\ c.closes \in Nat /\ c.capacity \in Nat
           /\ c.open \in BOOLEAN
           /\ c.rows \subseteq Row /\ IsFiniteSet(c.rows)
           /\ c.queue \in Seq(Nat \ {0})
           /\ Later(c.now, c.opens) \in Nat
           /\ c.now <= Later(c.now, c.opens) /\ c.opens <= Later(c.now, c.opens)
           /\ ~Closed(c) => c.capacity \in Nat \ {0}
<1>1. c \in Call /\ IsFiniteSet(c.rows)
  BY InputsAreCalls
<1> QED
  BY <1>1 DEF Call, Later, Closed

\* Every row that is not over is a nonempty interval, and there are finitely many.
LEMMA BusyType ==
    ASSUME NEW c \in Inputs
    PROVE  BusyIntervals(c) \subseteq Interval /\ IsFiniteSet(BusyIntervals(c))
<1> DEFINE live == {q \in c.rows : q.status # "FINISHED"}
           f == [r \in live |-> BusyOf(c, r)]
<1>1. IsFiniteSet(live)
  BY CallType, FS_Subset
<1>2. f \in Surjection(live, BusyIntervals(c))
  BY DEF Surjection, BusyIntervals
<1>3. IsFiniteSet(BusyIntervals(c))
  BY <1>1, <1>2, FS_Surjection
<1>4. \A r \in live : BusyOf(c, r) \in Interval
  <2> TAKE r \in live
  <2>1. /\ r.id \in Nat /\ r.start \in Nat /\ r.end \in Nat /\ r.start < r.end
        /\ r.status \in RowStatus /\ c.now \in Nat
    BY CallType DEF Row
  <2>2. /\ StartOf(c, r) \in Nat /\ EndOf(c, r) \in Nat /\ StartOf(c, r) < EndOf(c, r)
    <3>1. CASE r.status = "CALLED"
      BY <3>1, <2>1 DEF StartOf, EndOf
    <3>2. CASE r.status = "IN_PROGRESS"
      BY <3>2, <2>1, GraceIsTime DEF StartOf, EndOf, Later
    <3>3. CASE r.status # "CALLED" /\ r.status # "IN_PROGRESS"
      BY <3>3, <2>1 DEF StartOf, EndOf
    <3> QED
      BY <3>1, <3>2, <3>3
  <2> QED
    BY <2>1, <2>2 DEF BusyOf, Interval
<1> QED
  BY <1>3, <1>4 DEF BusyIntervals

\* From the first instant of the day that matters on, the intervals the loop
\* keeps are all that hold a bay: dropping the rows that are over loses nothing.
LEMMA HoldersAreInUse ==
    ASSUME LoopInv, NEW t \in Nat, Floor0 <= t
    PROVE  Holders(Next1, t) = InUse(intervals, t)
<1>1. Next1 = Len(estimates) + 1 /\ Len(estimates) \in Nat
  BY DEF Next1, LoopInv, TypeOK
<1>2. {j \in Placed : j < Next1} = Placed
  BY <1>1 DEF Placed
<1>3. BusyIntervals(call) \subseteq Interval /\ Floor0 \in Nat
  BY BusyType, CallType DEF LoopInv, TypeOK, Floor0
<1>4. \A b \in BusyIntervals(call) : b.start <= t /\ t < b.end => StillBusy(b, Floor0)
  BY <1>3 DEF StillBusy, Interval
<1>5. intervals = {b \in BusyIntervals(call) : StillBusy(b, Floor0)} \union {Job(i) : i \in Placed}
  BY DEF LoopInv
<1> QED
  BY <1>2, <1>4, <1>5 DEF Holders, InUse

\* The loop starts right.
LEMMA InitSound == Init => IInv
<1> SUFFICES ASSUME Init PROVE IInv
  OBVIOUS
<1>1. Len(estimates) = 0 /\ Placed = {} /\ call \in Inputs
  BY DEF Init, Placed
<1>2. floor = Floor0 /\ Floor0 \in Nat
  BY <1>1, CallType DEF Init, Floor0
<1>3. intervals = {b \in BusyIntervals(call) : StillBusy(b, Floor0)}
  BY <1>2 DEF Init
<1>4. intervals \subseteq Interval /\ IsFiniteSet(intervals)
  BY <1>1, <1>3, BusyType, FS_Subset
<1>5. TypeOK
  BY <1>1, <1>2, <1>4, CallType DEF Init, TypeOK, Closed
<1>6. LoopInv
  BY <1>1, <1>2, <1>3, <1>5 DEF LoopInv, Init
<1>7. StartsInOrder /\ WithinHours /\ BaysRespected /\ NoEarlierStart /\ TurnedAwayOnlyIfFull
  BY <1>1 DEF StartsInOrder, WithinHours, BaysRespected, NoEarlierStart, TurnedAwayOnlyIfFull
<1> QED
  BY <1>6, <1>7 DEF IInv

\* What the next start is while nobody has been turned away: an instant at
\* which the next person could start, and the first such instant.
LEMMA NextStartIsRight ==
    ASSUME LoopInv, Next1 <= Len(call.queue), ~blocked
    PROVE  /\ NextStart \in Nat /\ floor <= NextStart
           /\ \A u \in NextStart..(NextStart + call.queue[Next1] - 1) :
                  UsageAt(intervals, u) < call.capacity
           /\ \A t \in Nat : CouldStart(Next1, t) => NextStart <= t
<1>1. /\ Next1 \in 1..Len(call.queue) /\ call.queue[Next1] \in Nat \ {0}
      /\ call.capacity \in Nat \ {0} /\ floor \in Nat /\ Floor0 \in Nat
      /\ intervals \in SUBSET Interval /\ IsFiniteSet(intervals)
  BY CallType DEF LoopInv, TypeOK, Next1, Floor0
<1>2. /\ NextStart \in Nat /\ floor <= NextStart
      /\ \A u \in NextStart..(NextStart + call.queue[Next1] - 1) :
             UsageAt(intervals, u) < call.capacity
      /\ \A t \in Nat : /\ floor <= t
                        /\ \A u \in t..(t + call.queue[Next1] - 1) :
                               UsageAt(intervals, u) < call.capacity
                        => NextStart <= t
  BY <1>1, EarliestStartIsEarliest DEF NextStart
<1>3. ASSUME NEW t \in Nat, CouldStart(Next1, t) PROVE NextStart <= t
  <2>1. Floor0 <= t
    BY <1>3, CallType DEF CouldStart, Floor0, Later, LoopInv, TypeOK
  <2>2. \A i \in Placed : i < Next1
    BY DEF Placed, Next1, LoopInv, TypeOK
  <2>3. floor <= t
    BY <1>3, <2>1, <2>2 DEF CouldStart, LoopInv
  <2>4. \A u \in t..(t + call.queue[Next1] - 1) : UsageAt(intervals, u) < call.capacity
    <3> TAKE u \in t..(t + call.queue[Next1] - 1)
    <3>1. u \in Nat /\ Floor0 <= u
      BY <1>1, <2>1
    <3>2. Cardinality(Holders(Next1, u)) < call.capacity
      BY <1>3 DEF CouldStart
    <3> QED
      BY <3>1, <3>2, HoldersAreInUse DEF UsageAt
  <2> QED
    BY <1>2, <2>3, <2>4
<1> QED
  BY <1>2, <1>3

\* What Place changes, and what it leaves alone: nobody ahead is moved.
LEMMA PlaceEffect ==
    ASSUME LoopInv, Place, NEW n, n = Next1, NEW s, s = NextStart, NEW m, m = call.queue[n]
    PROVE  /\ n \in 1..Len(call.queue) /\ call' = call /\ call \in Inputs
           /\ m \in Nat \ {0} /\ s \in Nat
           /\ Len(estimates) \in Nat /\ Len(estimates') = n /\ n = Len(estimates) + 1
           /\ estimates'[n] = s
           /\ \A i \in 1..Len(estimates) : estimates'[i] = estimates[i]
           /\ Placed = 1..Len(estimates) /\ Placed' = 1..n
           /\ \A i \in Placed : estimates[i] \in Nat /\ Job(i)' = Job(i)
           /\ Job(n)' = JobInterval(n, s, m)
           /\ intervals' = intervals \union {JobInterval(n, s, m)}
           /\ Floor0' = Floor0 /\ Floor0 \in Nat /\ floor' = s
           /\ ~blocked /\ ~blocked' /\ ~Closed(call)
           /\ \A k \in 1..n, t \in Nat : Holders(k, t)' = Holders(k, t)
           /\ \A t \in Nat : Holders(n + 1, t)' =
                  Holders(n, t) \union
                      (IF s <= t /\ t < s + m
                       THEN {JobInterval(n, s, m)} ELSE {})
<1>1. /\ n \in 1..Len(call.queue) /\ call' = call /\ call \in Inputs
      /\ Len(estimates) \in Nat /\ n = Len(estimates) + 1
      /\ m \in Nat \ {0}
  BY CallType DEF LoopInv, TypeOK, Place, Next1
<1>2. s \in Nat
  BY NextStartIsRight DEF Place
<1>3. /\ Len(estimates') = n /\ estimates'[n] = s
      /\ \A i \in 1..Len(estimates) : estimates'[i] = estimates[i]
  BY <1>1 DEF Place, LoopInv, TypeOK
<1>4. Placed = 1..Len(estimates) /\ ~Closed(call)
  BY DEF LoopInv, Place
<1>5. \A i \in Placed : estimates[i] \in Nat
  BY <1>1 DEF Placed, LoopInv, TypeOK
<1>6. Placed' = 1..n
  <2>1. s # NoStart
    BY <1>2, NoStartIsNoTime
  <2> QED
    BY <1>1, <1>3, <1>4, <2>1 DEF Placed
<1>7. /\ \A i \in Placed : Job(i)' = Job(i)
      /\ Job(n)' = JobInterval(n, s, m)
  BY <1>1, <1>3, <1>4 DEF Job
<1>8. Floor0' = Floor0 /\ Floor0 \in Nat
  BY <1>1, CallType DEF Floor0
<1>9. /\ floor' = s /\ ~blocked /\ ~blocked'
      /\ intervals' = intervals \union {JobInterval(n, s, m)}
  BY DEF Place, NextFloor
<1>10. \A k \in 1..n : {Job(i)' : i \in {j \in Placed' : j < k}} = {Job(i) : i \in {j \in Placed : j < k}}
  <2> TAKE k \in 1..n
  <2>1. {j \in Placed' : j < k} = {j \in Placed : j < k}
    BY <1>1, <1>4, <1>6
  <2> QED
    BY <2>1, <1>7
<1>11. \A k \in 1..n, t \in Nat : Holders(k, t)' = Holders(k, t)
  BY <1>1, <1>10 DEF Holders
<1>12. ASSUME NEW t \in Nat
       PROVE  Holders(n + 1, t)' =
                  Holders(n, t) \union
                      (IF s <= t /\ t < s + m
                       THEN {JobInterval(n, s, m)} ELSE {})
  <2>1. {j \in Placed' : j < n + 1} = {j \in Placed : j < n} \union {n}
    BY <1>1, <1>4, <1>6
  <2>2. {Job(i)' : i \in {j \in Placed' : j < n + 1}} =
            {Job(i) : i \in {j \in Placed : j < n}}
                \union {JobInterval(n, s, m)}
    BY <2>1, <1>7
  <2>3. Holders(n + 1, t)' =
            Holders(n, t) \union InUse({JobInterval(n, s, m)}, t)
    <3>1. Holders(n + 1, t)' =
            InUse(BusyIntervals(call) \union {Job(i)' : i \in {j \in Placed' : j < n + 1}}, t)
      BY <1>1 DEF Holders
    <3> QED
      BY <3>1, <2>2 DEF Holders, InUse
  <2> QED
    BY <2>3 DEF InUse, JobInterval
<1> QED
  BY <1>1, <1>2, <1>3, <1>4, <1>5, <1>6, <1>7, <1>8, <1>9, <1>11, <1>12

\* Placing somebody keeps the strengthening.
LEMMA PlaceLoop ==
    ASSUME LoopInv, Place
    PROVE  LoopInv'
<1>0. PICK n, s, m : n = Next1 /\ s = NextStart /\ m = call.queue[n]
  OBVIOUS
<1>1. /\ n \in 1..Len(call.queue) /\ call' = call /\ call \in Inputs
      /\ m \in Nat \ {0} /\ s \in Nat
      /\ Len(estimates) \in Nat /\ Len(estimates') = n /\ n = Len(estimates) + 1
      /\ estimates'[n] = s
      /\ \A i \in 1..Len(estimates) : estimates'[i] = estimates[i]
      /\ Placed = 1..Len(estimates) /\ Placed' = 1..n
      /\ \A i \in Placed : estimates[i] \in Nat /\ Job(i)' = Job(i)
      /\ Job(n)' = JobInterval(n, s, m)
      /\ intervals' = intervals \union {JobInterval(n, s, m)}
      /\ Floor0' = Floor0 /\ Floor0 \in Nat /\ floor' = s
      /\ ~blocked' /\ ~Closed(call)
  BY <1>0, PlaceEffect
<1>2. floor <= s /\ floor \in Nat
  BY <1>0, NextStartIsRight DEF Place, LoopInv, TypeOK
<1>3. JobInterval(n, s, m) \in Interval
  BY <1>1 DEF JobInterval, Interval
<1>4. TypeOK'
  <2>1. estimates' \in Seq(Nat \union {NoStart})
    BY <1>0, <1>1 DEF Place, LoopInv, TypeOK
  <2>2. intervals \subseteq Interval /\ IsFiniteSet(intervals)
    BY DEF LoopInv, TypeOK
  <2>3. intervals' \subseteq Interval
    BY <1>1, <1>3, <2>2
  <2>4. IsFiniteSet(intervals')
    BY <1>1, <2>2, FS_AddElement
  <2>5. call' \in Inputs /\ Len(estimates') <= Len(call.queue) /\ floor' \in Nat
    BY <1>1, CallType
  <2>6. blocked' \in BOOLEAN
    BY DEF Place, LoopInv, TypeOK
  <2> QED
    BY <1>1, <2>1, <2>3, <2>4, <2>5, <2>6 DEF TypeOK
<1>5. intervals' = {b \in BusyIntervals(call) : StillBusy(b, Floor0)}
                     \union {Job(i)' : i \in Placed'}
  <2>1. {Job(i)' : i \in Placed'} = {Job(i) : i \in Placed} \union {JobInterval(n, s, m)}
    BY <1>1
  <2> QED
    BY <1>1, <2>1 DEF LoopInv
<1>6. floor' = Floor0' \/ \E i \in Placed' : estimates'[i] = floor'
  BY <1>1
<1>7. Floor0' <= floor'
  BY <1>1, <1>2 DEF LoopInv
<1>8. \A i \in Placed' : Floor0' <= estimates'[i] /\ estimates'[i] <= floor'
  <2> TAKE i \in Placed'
  <2>1. CASE i = n
    BY <2>1, <1>1, <1>2 DEF LoopInv
  <2>2. CASE i # n
    <3>1. i \in Placed /\ estimates'[i] = estimates[i]
      BY <2>2, <1>1
    <3>2. Floor0 <= estimates[i] /\ estimates[i] <= floor /\ estimates[i] \in Nat
      BY <3>1, <1>1 DEF LoopInv
    <3> QED
      BY <3>1, <3>2, <1>1, <1>2
  <2> QED
    BY <2>1, <2>2
<1>9. ~Closed(call)' /\ Placed' = 1..Len(estimates')
  BY <1>1
<1> QED
  BY <1>1, <1>4, <1>5, <1>6, <1>7, <1>8, <1>9 DEF LoopInv

\* Placing somebody keeps every property.
LEMMA PlaceSound ==
    ASSUME IInv, Place
    PROVE  IInv'
<1>0. PICK n, s, m : n = Next1 /\ s = NextStart /\ m = call.queue[n]
  OBVIOUS
<1>1. LoopInv /\ LoopInv'
  BY PlaceLoop DEF IInv
<1>2. /\ n \in 1..Len(call.queue) /\ call' = call /\ call \in Inputs
      /\ m \in Nat \ {0} /\ s \in Nat
      /\ Len(estimates) \in Nat /\ Len(estimates') = n /\ n = Len(estimates) + 1
      /\ estimates'[n] = s
      /\ \A i \in 1..Len(estimates) : estimates'[i] = estimates[i]
      /\ Placed = 1..Len(estimates) /\ Placed' = 1..n
      /\ \A i \in Placed : estimates[i] \in Nat
      /\ Floor0 \in Nat /\ ~Closed(call)
  BY <1>0, <1>1, PlaceEffect
<1>3. /\ \A k \in 1..n, t \in Nat : Holders(k, t)' = Holders(k, t)
      /\ \A t \in Nat : Holders(n + 1, t)' =
             Holders(n, t) \union
                 (IF s <= t /\ t < s + m THEN {JobInterval(n, s, m)} ELSE {})
  BY <1>0, <1>1, PlaceEffect
<1>4. /\ floor <= s /\ floor \in Nat /\ Floor0 <= floor
      /\ \A u \in s..(s + m - 1) : UsageAt(intervals, u) < call.capacity
      /\ \A t \in Nat : CouldStart(n, t) => s <= t
  BY <1>0, <1>1, NextStartIsRight DEF Place, LoopInv, TypeOK
<1>5. \A i \in Placed : Floor0 <= estimates[i] /\ estimates[i] <= floor
  BY <1>1 DEF LoopInv
<1>6. StartsInOrder'
  <2> SUFFICES ASSUME NEW i \in 1..n, NEW j \in 1..n, i < j
               PROVE  estimates'[i] <= estimates'[j]
    BY <1>2 DEF StartsInOrder
  <2>1. i \in Placed /\ estimates'[i] = estimates[i] /\ estimates[i] \in Nat
    BY <1>2
  <2>2. CASE j = n
    BY <2>1, <2>2, <1>2, <1>4, <1>5
  <2>3. CASE j # n
    BY <2>1, <2>3, <1>2 DEF IInv, StartsInOrder
  <2> QED
    BY <2>2, <2>3
<1>7. WithinHours'
  <2> SUFFICES ASSUME NEW i \in 1..n
               PROVE  /\ call.now <= estimates'[i] /\ call.opens <= estimates'[i]
                      /\ estimates'[i] + call.queue[i] <= call.closes
    BY <1>2 DEF WithinHours
  <2>1. CASE i = n
    <3>1. s + m <= call.closes
      BY <1>0 DEF Place, FitsToday
    <3>2. call.now <= Floor0 /\ call.opens <= Floor0 /\ call.now \in Nat /\ call.opens \in Nat
      BY <1>2, CallType DEF Floor0
    <3> QED
      BY <2>1, <3>1, <3>2, <1>0, <1>2, <1>4
  <2>2. CASE i # n
    BY <2>2, <1>2 DEF IInv, WithinHours
  <2> QED
    BY <2>1, <2>2
<1>8. BaysRespected'
  <2>1. (Len(estimates) + 1)' = n + 1
    BY <1>2
  <2> SUFFICES ASSUME NEW i \in 1..n, NEW t \in estimates'[i]..(estimates'[i] + call.queue[i] - 1)
               PROVE  Cardinality(Holders(n + 1, t)') <= call.capacity
    <3>1. \A t : Holders(n + 1, t)' = Holders(Len(estimates) + 1, t)'
      BY <2>1 DEF Holders
    <3> QED
      BY <3>1, <1>2 DEF BaysRespected
  <2>2. t \in Nat /\ Floor0 <= t /\ call.capacity \in Nat /\ call.queue[i] \in Nat
    <3>1. estimates'[i] \in Nat /\ Floor0 <= estimates'[i]
      BY <1>2, <1>4, <1>5
    <3>2. call.capacity \in Nat /\ call.queue[i] \in Nat
      BY <1>2, CallType
    <3> QED
      BY <3>1, <3>2, <1>2
  <2>3. Holders(n, t) = InUse(intervals, t) /\ IsFiniteSet(Holders(n, t))
    <3>1. Holders(n, t) = InUse(intervals, t)
      BY <1>0, <1>1, <2>2, HoldersAreInUse
    <3>2. IsFiniteSet(InUse(intervals, t))
      BY <1>1, FS_Subset DEF LoopInv, TypeOK, InUse
    <3> QED
      BY <3>1, <3>2
  <2>4. Cardinality(Holders(n, t)) \in Nat
    BY <2>3, FS_CardinalityType
  <2>5. CASE s <= t /\ t < s + m
    <3>1. Cardinality(Holders(n, t)) < call.capacity
      BY <2>2, <2>3, <2>5, <1>2, <1>4 DEF UsageAt
    <3>2. Holders(n + 1, t)' = Holders(n, t) \union {JobInterval(n, s, m)}
      BY <2>2, <2>5, <1>3
    <3>3. Cardinality(Holders(n + 1, t)') <= Cardinality(Holders(n, t)) + 1
      BY <3>2, <2>3, <2>4, FS_AddElement
    <3>4. Cardinality(Holders(n + 1, t)') \in Nat
      BY <3>2, <2>3, FS_AddElement, FS_CardinalityType
    <3> QED
      BY <3>1, <3>3, <3>4, <2>2, <2>4
  <2>6. CASE ~(s <= t /\ t < s + m)
    <3>1. Holders(n + 1, t)' = Holders(n, t)
      BY <2>2, <2>6, <1>3
    <3>2. i # n
      BY <2>6, <1>0, <1>2
    <3>3. i \in Placed /\ estimates'[i] = estimates[i]
      BY <3>2, <1>2
    <3>4. Cardinality(Holders(n, t)) <= call.capacity
      BY <3>3, <1>2 DEF IInv, BaysRespected
    <3> QED
      BY <3>1, <3>4
  <2> QED
    BY <2>5, <2>6
<1>9. \A k \in 1..n, t \in Nat : CouldStart(k, t)' <=> CouldStart(k, t)
  <2> TAKE k \in 1..n, t \in Nat
  <2>1. \A i : i \in Placed' /\ i < k <=> i \in Placed /\ i < k
    BY <1>2
  <2>2. \A i \in Placed : estimates'[i] = estimates[i]
    BY <1>2
  <2>3. call.queue[k] \in Nat
    BY <1>2, CallType
  <2>4. \A u \in t..(t + call.queue[k] - 1) : Holders(k, u)' = Holders(k, u)
    BY <1>3, <2>3
  <2> QED
    BY <1>2, <2>1, <2>2, <2>4 DEF CouldStart
<1>10. NoEarlierStart'
  <2> SUFFICES ASSUME NEW k \in 1..n, NEW t \in 0..(estimates'[k] - 1)
               PROVE  ~CouldStart(k, t)'
    BY <1>2 DEF NoEarlierStart
  <2>1. t \in Nat /\ estimates'[k] \in Nat /\ t < estimates'[k]
    BY <1>2
  <2>2. CASE k = n
    BY <2>1, <2>2, <1>2, <1>4, <1>9
  <2>3. CASE k # n
    <3>1. k \in Placed /\ t \in 0..(estimates[k] - 1)
      BY <2>3, <1>2
    <3> QED
      BY <3>1, <2>1, <1>9 DEF IInv, NoEarlierStart
  <2> QED
    BY <2>2, <2>3
<1>11. TurnedAwayOnlyIfFull'
  BY <1>2 DEF TurnedAwayOnlyIfFull
<1> QED
  BY <1>1, <1>6, <1>7, <1>8, <1>10, <1>11 DEF IInv

\* Turning somebody away keeps every property.
LEMMA TurnAwaySound ==
    ASSUME IInv, TurnAway
    PROVE  IInv'
<1>0. PICK n : n = Next1
  OBVIOUS
<1>1. /\ n \in 1..Len(call.queue) /\ call' = call /\ call \in Inputs
      /\ Len(estimates) \in Nat /\ Len(estimates') = n /\ n = Len(estimates) + 1
      /\ estimates'[n] = NoStart /\ blocked'
      /\ \A i \in 1..Len(estimates) : estimates'[i] = estimates[i]
      /\ intervals' = intervals /\ floor' = floor
      /\ LoopInv
  BY <1>0 DEF TurnAway, Next1, IInv, LoopInv, TypeOK
<1>2. Placed' = Placed /\ n \notin Placed /\ Placed \subseteq 1..Len(estimates)
  BY <1>1 DEF Placed
<1>3. \A i \in Placed : estimates'[i] = estimates[i] /\ Job(i)' = Job(i)
  BY <1>1, <1>2 DEF Job
<1>4. Floor0' = Floor0
  BY <1>1 DEF Floor0
<1>5. \A k, t : Holders(k, t)' = Holders(k, t)
  <2> TAKE k, t
  <2>1. {Job(i)' : i \in {j \in Placed' : j < k}} = {Job(i) : i \in {j \in Placed : j < k}}
    BY <1>2, <1>3
  <2> QED
    BY <2>1, <1>1 DEF Holders
<1>6. \A k, t : CouldStart(k, t)' <=> CouldStart(k, t)
  BY <1>1, <1>2, <1>3, <1>5 DEF CouldStart
<1>7. LoopInv'
  <2>1. TypeOK'
    <3>1. estimates' \in Seq(Nat \union {NoStart})
      BY DEF TurnAway, IInv, LoopInv, TypeOK
    <3> QED
      BY <3>1, <1>1 DEF LoopInv, TypeOK
  <2>2. {Job(i)' : i \in Placed'} = {Job(i) : i \in Placed}
    BY <1>2, <1>3
  <2> QED
    BY <2>1, <2>2, <1>1, <1>2, <1>3, <1>4 DEF LoopInv
<1>8. StartsInOrder' /\ WithinHours'
  <2>1. StartsInOrder'
    <3> SUFFICES ASSUME NEW i \in 1..n, NEW j \in 1..n, i < j, j \in Placed
                 PROVE  i \in Placed /\ estimates'[i] <= estimates'[j]
      BY <1>1, <1>2 DEF StartsInOrder
    <3> QED
      BY <1>1, <1>2, <1>3 DEF IInv, StartsInOrder
  <2>2. WithinHours'
    BY <1>1, <1>2, <1>3 DEF IInv, WithinHours
  <2> QED
    BY <2>1, <2>2
<1>9. BaysRespected'
  <2>1. \A t : Holders(Len(estimates) + 1, t)' = Holders(n, t)
    <3> TAKE t
    <3>1. \A j \in Placed : j < n + 1 /\ j < n
      BY <1>1, <1>2
    <3>2. Holders(Len(estimates) + 1, t)' = Holders(n + 1, t)'
      BY <1>1 DEF Holders
    <3>3. Holders(n + 1, t) = Holders(n, t)
      BY <3>1 DEF Holders
    <3> QED
      BY <3>2, <3>3, <1>5
  <2> QED
    BY <2>1, <1>1, <1>2, <1>3 DEF IInv, BaysRespected
<1>10. NoEarlierStart'
  BY <1>1, <1>2, <1>3, <1>6 DEF IInv, NoEarlierStart
<1>11. TurnedAwayOnlyIfFull'
  <2> SUFFICES ASSUME NEW k \in 1..n, k \notin Placed
               PROVE  \E i \in 1..k : /\ i \notin Placed
                                      /\ \A t \in 0..call.closes :
                                          t + call.queue[i] <= call.closes => ~CouldStart(i, t)
    BY <1>1, <1>2, <1>6 DEF TurnedAwayOnlyIfFull
  <2>1. CASE k # n
    <3>1. k \in (1..Len(estimates)) \ Placed
      BY <2>1, <1>1
    <3> QED
      BY <3>1 DEF IInv, TurnedAwayOnlyIfFull
  <2>2. CASE k = n
    <3>1. CASE blocked
      <4>1. CASE Closed(call)
        BY <4>1, <2>2, <1>1, <1>2 DEF CouldStart
      <4>2. CASE \E i \in 1..Len(estimates) : i \notin Placed
        <5>1. PICK i \in (1..Len(estimates)) \ Placed : TRUE
          BY <4>2
        <5>2. PICK j \in 1..i : /\ j \notin Placed
                                /\ \A t \in 0..call.closes :
                                    t + call.queue[j] <= call.closes => ~CouldStart(j, t)
          BY <5>1 DEF IInv, TurnedAwayOnlyIfFull
        <5> QED
          BY <5>1, <5>2, <2>2, <1>1
      <4> QED
        BY <3>1, <4>1, <4>2, <1>1 DEF LoopInv
    <3>2. CASE ~blocked
      <4>1. ~(NextStart + call.queue[n] <= call.closes)
        BY <3>2, <1>0 DEF TurnAway, FitsToday
      <4>2. NextStart \in Nat /\ \A t \in Nat : CouldStart(n, t) => NextStart <= t
        BY <3>2, <1>0, <1>1, NextStartIsRight DEF TurnAway
      <4>3. call.queue[n] \in Nat /\ call.closes \in Nat
        BY <1>1, CallType
      <4>4. \A t \in 0..call.closes : t + call.queue[n] <= call.closes => ~CouldStart(n, t)
        BY <4>1, <4>2, <4>3
      <4> QED
        BY <4>4, <2>2, <1>1, <1>2
    <3> QED
      BY <3>1, <3>2
  <2> QED
    BY <2>1, <2>2
<1> QED
  BY <1>7, <1>8, <1>9, <1>10, <1>11 DEF IInv

\* Every reachable state satisfies the strengthening and all properties.
THEOREM Invariant == Spec => []IInv
<1>1. ASSUME IInv, UNCHANGED vars PROVE IInv'
  <2>1. /\ call' = call /\ estimates' = estimates /\ intervals' = intervals
        /\ floor' = floor /\ blocked' = blocked
    BY <1>1 DEF vars
  <2>2. Placed' = Placed /\ Floor0' = Floor0 /\ \A i : Job(i)' = Job(i)
    BY <2>1 DEF Placed, Floor0, Job
  <2>3. \A k, t : Holders(k, t)' = Holders(k, t)
    BY <2>1, <2>2 DEF Holders
  <2>4. \A k, t : CouldStart(k, t)' <=> CouldStart(k, t)
    BY <2>1, <2>2, <2>3 DEF CouldStart
  <2>5. LoopInv'
    BY <1>1, <2>1, <2>2 DEF IInv, LoopInv, TypeOK
  <2>6. StartsInOrder' /\ WithinHours'
    BY <1>1, <2>1, <2>2 DEF IInv, StartsInOrder, WithinHours
  <2>7. BaysRespected'
    BY <1>1, <2>1, <2>2, <2>3 DEF IInv, BaysRespected
  <2>8. NoEarlierStart' /\ TurnedAwayOnlyIfFull'
    BY <1>1, <2>1, <2>2, <2>4 DEF IInv, NoEarlierStart, TurnedAwayOnlyIfFull
  <2> QED
    BY <2>5, <2>6, <2>7, <2>8 DEF IInv
<1>2. IInv /\ [Next]_vars => IInv'
  BY <1>1, PlaceSound, TurnAwaySound DEF Next
<1> QED
  BY <1>2, InitSound, PTL DEF Spec

\* The loop's state has its types whatever the call.
THEOREM TypeCorrect == Spec => []TypeOK
<1>1. IInv => TypeOK
  BY DEF IInv, LoopInv
<1> QED
  BY <1>1, Invariant, PTL

\* For every garage, day and queue: what the customers are told can be kept.
THEOREM EstimatesCanBeKept == Spec => []EstimatesHold
<1>1. IInv => EstimatesHold
  BY DEF IInv, EstimatesHold
<1> QED
  BY <1>1, Invariant, PTL

\* For every garage, day and queue: no estimate is later than it must be, and
\* nobody is turned away who could be served in turn.
THEOREM EstimatesAreEarliest == Spec => []EarliestPossible
<1>1. IInv => EarliestPossible
  BY DEF IInv, EarliestPossible
<1> QED
  BY <1>1, Invariant, PTL
=============================================================================
