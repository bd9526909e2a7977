--------------------------- MODULE SessionProofs ---------------------------
(***************************************************************************)
(* Proofs about the running-state accumulator and the prove-session        *)
(* command.  The history of a session is shown to be the history it        *)
(* started with followed by one link per step; everything a verifier can   *)
(* conclude from equal digests follows from that.                          *)
(***************************************************************************)
EXTENDS SessionCommand, WellFoundedInduction, TLAPS

(***************************************************************************)
(* A set of naturals that contains 0 and is closed under successor is Nat. *)
(***************************************************************************)
LEMMA SetInduction ==
  ASSUME NEW T \in SUBSET Nat, 0 \in T, \A n \in T : n + 1 \in T
  PROVE  T = Nat
<1>1. SUFFICES ASSUME T # Nat PROVE FALSE
  OBVIOUS
<1> DEFINE U == Nat \ T
           R == OpToRel(<, Nat)
<1>2. U # {} /\ U \subseteq Nat
  BY <1>1
<1>3. \E x \in U : \A y \in U : ~(<<y, x>> \in R)
  <2> HIDE DEF U, R
  <2>1. IsWellFoundedOn(R, Nat)
    BY NatLessThanWellFounded DEF R
  <2>2. QED
    BY <2>1, <1>2, WFMin
<1>4. PICK x \in U : \A y \in U : ~(<<y, x>> \in R)
  BY <1>3
<1>5. x \in Nat /\ x # 0
  BY <1>4
<1>6. x - 1 \in Nat /\ x - 1 < x /\ (x - 1) + 1 = x
  BY <1>5
<1>7. <<x - 1, x>> \in R
  BY <1>5, <1>6 DEF OpToRel
<1>8. x - 1 \in T
  BY <1>4, <1>6, <1>7
<1>9. QED
  BY <1>4, <1>6, <1>8

----------------------------------------------------------------------------
(***************************************************************************)
(* Vectors of anything: their length, and what push_back does.             *)
(***************************************************************************)
LEMMA VectorLength ==
  ASSUME NEW s, IsVector(s)
  PROVE  Len(s) \in Nat /\ DOMAIN s = 1..Len(s)
  BY DEF IsVector

LEMMA EmptyVector == IsVector(<< >>) /\ Len(<< >>) = 0
<1>1. << >> \in Seq({<< >>[i] : i \in DOMAIN << >>})
  OBVIOUS
<1>2. QED
  BY <1>1 DEF IsVector

LEMMA VectorOf ==
  ASSUME NEW S, NEW s \in Seq(S)
  PROVE  IsVector(s)
<1> DEFINE V == {s[i] : i \in DOMAIN s}
<1>1. \A i \in 1..Len(s) : s[i] \in V
  OBVIOUS
<1>2. Len(s) \in Nat /\ s = [i \in 1..Len(s) |-> s[i]]
  OBVIOUS
<1>3. s \in Seq(V)
  <2> HIDE DEF V
  <2>1. [i \in 1..Len(s) |-> s[i]] \in Seq(V)
    BY <1>1, <1>2
  <2>2. QED
    BY <2>1, <1>2
<1>4. QED
  BY <1>3 DEF IsVector

LEMMA AppendVector ==
  ASSUME NEW s, IsVector(s), NEW e
  PROVE  /\ IsVector(Append(s, e))
         /\ Len(Append(s, e)) = Len(s) + 1
         /\ \A i \in 1..Len(s) : Append(s, e)[i] = s[i]
         /\ Append(s, e)[Len(s) + 1] = e
<1> DEFINE V == {s[i] : i \in DOMAIN s} \cup {e}
<1>1. s \in Seq(V) /\ e \in V
  <2>1. s \in Seq({s[i] : i \in DOMAIN s})
    BY DEF IsVector
  <2> DEFINE W == {s[i] : i \in DOMAIN s}
  <2>2. W \subseteq V /\ e \in V /\ s \in Seq(W)
    BY <2>1
  <2> HIDE DEF V, W
  <2>3. QED
    BY <2>2
<1> HIDE DEF V
<1>2. Append(s, e) \in Seq(V)
  BY <1>1
<1>3. IsVector(Append(s, e))
  BY <1>2, VectorOf
<1>4. QED
  BY <1>1, <1>3

LEMMA VectorEquality ==
  ASSUME NEW s, IsVector(s), NEW t, IsVector(t), Len(s) = Len(t),
         \A i \in 1..Len(s) : s[i] = t[i]
  PROVE  s = t
<1>1. s = [i \in 1..Len(s) |-> s[i]] /\ t = [i \in 1..Len(t) |-> t[i]]
  BY DEF IsVector
<1>2. QED
  BY <1>1

----------------------------------------------------------------------------
(***************************************************************************)
(* The accumulator: a history is the history before the session and then   *)
(* one link for each step, in order.                                       *)
(***************************************************************************)
Link(inputs) == <<inputs.header, inputs.price, inputs.volume>>

Rolling(p, h, ss, n) ==
  p = [k \in 0..n |-> IF k = 0 THEN h ELSE HistoryHash(p[k - 1], ss[k].inputs)]

Extends(r, h, ss, n) ==
  /\ IsVector(r)
  /\ Len(r) = Len(h) + n
  /\ \A i \in 1..Len(h) : r[i] = h[i]
  /\ \A i \in 1..n : r[Len(h) + i] = Link(ss[i].inputs)

LEMMA RollingExists ==
  ASSUME NEW N \in Nat, NEW h, NEW ss
  PROVE  \E p : Rolling(p, h, ss, N)
<1> DEFINE T == {n \in Nat : \E p : Rolling(p, h, ss, n)}
<1>1. 0 \in T
  <2> DEFINE z == [k \in 0..0 |-> h]
  <2>1. z = [k \in 0..0 |-> IF k = 0 THEN h ELSE HistoryHash(z[k - 1], ss[k].inputs)]
    OBVIOUS
  <2>2. Rolling(z, h, ss, 0)
    BY <2>1 DEF Rolling
  <2>3. QED
    BY <2>2
<1>2. ASSUME NEW n \in T PROVE n + 1 \in T
  <2>1. PICK p : Rolling(p, h, ss, n)
    OBVIOUS
  <2> DEFINE e == HistoryHash(p[n], ss[n + 1].inputs)
             q == [k \in 0..(n + 1) |-> IF k = n + 1 THEN e ELSE p[k]]
  <2>2. n \in Nat
    OBVIOUS
  <2>3. \A k \in 0..n : p[k] = IF k = 0 THEN h ELSE HistoryHash(p[k - 1], ss[k].inputs)
    BY <2>1 DEF Rolling
  <2>4. ASSUME NEW k \in 0..(n + 1)
        PROVE  q[k] = IF k = 0 THEN h ELSE HistoryHash(q[k - 1], ss[k].inputs)
    <3>1. CASE k = n + 1
      <4>1. q[k] = e /\ q[k - 1] = p[n] /\ k # 0
        BY <2>2, <3>1
      <4>2. QED
        BY <4>1, <3>1
    <3>2. CASE k # n + 1 /\ k # 0
      <4>1. q[k] = p[k] /\ q[k - 1] = p[k - 1] /\ k \in 0..n
        BY <2>2, <3>2
      <4>2. QED
        BY <4>1, <3>2, <2>3
    <3>3. CASE k = 0
      <4>1. q[k] = p[k] /\ k \in 0..n
        BY <2>2, <3>3
      <4>2. QED
        BY <4>1, <3>3, <2>3
    <3>4. QED
      BY <3>1, <3>2, <3>3
  <2>5. Rolling(q, h, ss, n + 1)
    <3>1. DOMAIN q = 0..(n + 1) /\ q = [k \in 0..(n + 1) |-> q[k]]
      OBVIOUS
    <3> HIDE DEF q
    <3>2. QED
      BY <3>1, <2>4 DEF Rolling
  <2>6. QED
    BY <2>2, <2>5
<1>3. T = Nat
  <2> HIDE DEF T
  <2>1. T \in SUBSET Nat
    BY DEF T
  <2>2. QED
    BY <2>1, <1>1, <1>2, SetInduction
<1>4. N \in T
  BY <1>3
<1>5. QED
  BY <1>4

LEMMA ExtendsByOne ==
  ASSUME NEW n \in Nat, NEW r, NEW h, IsVector(h), NEW ss, Extends(r, h, ss, n)
  PROVE  Extends(HistoryHash(r, ss[n + 1].inputs), h, ss, n + 1)
<1> DEFINE e == Link(ss[n + 1].inputs)
           t == Append(r, e)
<1>1. HistoryHash(r, ss[n + 1].inputs) = t
  BY DEF HistoryHash, Link
<1>2. IsVector(r) /\ Len(r) = Len(h) + n
  BY DEF Extends
<1>3. Len(h) \in Nat
  BY VectorLength
<1>4. /\ IsVector(t)
      /\ Len(t) = Len(r) + 1
      /\ \A i \in 1..Len(r) : t[i] = r[i]
      /\ t[Len(r) + 1] = e
  <2> HIDE DEF e
  <2>1. QED
    BY <1>2, AppendVector
<1>5. ASSUME NEW i \in 1..Len(h) PROVE t[i] = h[i]
  <2>1. r[i] = h[i] /\ i \in 1..Len(r)
    BY <1>2, <1>3 DEF Extends
  <2> HIDE DEF t
  <2>2. QED
    BY <2>1, <1>4
<1>6. ASSUME NEW i \in 1..(n + 1) PROVE t[Len(h) + i] = Link(ss[i].inputs)
  <2>1. CASE i = n + 1
    <3> HIDE DEF t
    <3>1. Len(h) + i = Len(r) + 1
      BY <2>1, <1>2, <1>3
    <3>2. QED
      BY <3>1, <2>1, <1>4
  <2>2. CASE i # n + 1
    <3> HIDE DEF t
    <3>1. i \in 1..n /\ Len(h) + i \in 1..Len(r)
      BY <2>2, <1>2, <1>3
    <3>2. r[Len(h) + i] = Link(ss[i].inputs)
      BY <3>1 DEF Extends
    <3>3. QED
      BY <3>1, <3>2, <1>4
  <2>3. QED
    BY <2>1, <2>2
<1>7. Len(t) = Len(h) + (n + 1)
  <2> HIDE DEF t
  <2>1. QED
    BY <1>2, <1>3, <1>4
<1>8. Extends(t, h, ss, n + 1)
  <2> HIDE DEF t
  <2>1. QED
    BY <1>4, <1>5, <1>6, <1>7 DEF Extends
<1>9. QED
  BY <1>1, <1>8

\* What the accumulator of verify_session computes.
LEMMA HistoryIsItsLinks ==
  ASSUME NEW h, IsVector(h), NEW ss, Len(ss) \in Nat
  PROVE  Extends(RollingHistory(h, ss), h, ss, Len(ss))
<1> DEFINE N == Len(ss)
           r == CHOOSE p : p = [k \in 0..N |-> IF k = 0 THEN h
                                  ELSE HistoryHash(p[k - 1], ss[k].inputs)]
<1>1. RollingHistory(h, ss) = r[N]
  BY DEF RollingHistory
<1>2. Rolling(r, h, ss, N)
  <2>1. PICK q : Rolling(q, h, ss, N)
    BY RollingExists
  <2> DEFINE P(p) == p = [k \in 0..N |-> IF k = 0 THEN h
                                   ELSE HistoryHash(p[k - 1], ss[k].inputs)]
  <2>2. P(q)
    BY <2>1 DEF Rolling
  <2>3. r = [k \in 0..N |-> IF k = 0 THEN h
                            ELSE HistoryHash(r[k - 1], ss[k].inputs)]
    <3>1. P(CHOOSE p : P(p))
      BY <2>2
    <3>2. QED
      BY <3>1
  <2>4. QED
    BY <2>3 DEF Rolling
<1> HIDE DEF r
<1>3. N \in Nat
  OBVIOUS
<1> HIDE DEF N
<1> DEFINE T == {n \in Nat : n <= N => Extends(r[n], h, ss, n)}
<1>4. 0 \in T
  <2>1. r[0] = h
    BY <1>2, <1>3 DEF Rolling
  <2>2. Extends(h, h, ss, 0)
    BY VectorLength DEF Extends
  <2>3. QED
    BY <2>1, <2>2
<1>5. ASSUME NEW n \in T PROVE n + 1 \in T
  <2>1. SUFFICES ASSUME n + 1 <= N PROVE Extends(r[n + 1], h, ss, n + 1)
    OBVIOUS
  <2>2. n \in Nat /\ Extends(r[n], h, ss, n) /\ n + 1 \in 0..N
    BY <2>1, <1>3
  <2>3. r[n + 1] = HistoryHash(r[n], ss[n + 1].inputs)
    <3>1. \A k \in 0..N : r[k] = IF k = 0 THEN h
                                 ELSE HistoryHash(r[k - 1], ss[k].inputs)
      BY <1>2 DEF Rolling
    <3>2. n + 1 # 0 /\ (n + 1) - 1 = n
      BY <2>2
    <3>3. QED
      BY <3>1, <3>2, <2>2
  <2>4. Extends(HistoryHash(r[n], ss[n + 1].inputs), h, ss, n + 1)
    BY <2>2, ExtendsByOne
  <2>5. QED
    BY <2>3, <2>4
<1>6. T = Nat
  <2> HIDE DEF T
  <2>1. T \in SUBSET Nat
    BY DEF T
  <2>2. QED
    BY <2>1, <1>4, <1>5, SetInduction
<1>7. N \in T
  BY <1>3, <1>6
<1>8. QED
  BY <1>1, <1>3, <1>7 DEF N

LEMMA HistoryStart ==
  ASSUME NEW h, IsVector(h)
  PROVE  RollingHistory(h, << >>) = h
<1> DEFINE r == RollingHistory(h, << >>)
<1>1. Extends(r, h, << >>, 0)
  BY EmptyVector, HistoryIsItsLinks
<1> HIDE DEF r
<1>2. IsVector(r) /\ Len(r) = Len(h) + 0 /\ \A i \in 1..Len(h) : r[i] = h[i]
  BY <1>1 DEF Extends
<1>3. Len(h) \in Nat
  BY VectorLength
<1>4. r = h
  BY <1>2, <1>3, VectorEquality
<1>5. QED
  BY <1>4 DEF r

\* Two histories that extend the same one by the same links are the same.
LEMMA LinksDetermineHistory ==
  ASSUME NEW h, IsVector(h), NEW n \in Nat, NEW ss, NEW tt,
         \A i \in 1..n : ss[i].inputs = tt[i].inputs,
         NEW r, Extends(r, h, ss, n), NEW s, Extends(s, h, tt, n)
  PROVE  r = s
<1>1. Len(h) \in Nat
  BY VectorLength
<1>2. /\ IsVector(r) /\ Len(r) = Len(h) + n
      /\ IsVector(s) /\ Len(s) = Len(h) + n
  BY DEF Extends
<1>3. ASSUME NEW i \in 1..Len(r) PROVE r[i] = s[i]
  <2>1. CASE i \in 1..Len(h)
    BY <2>1 DEF Extends
  <2>2. CASE i \notin 1..Len(h)
    <3> DEFINE j == i - Len(h)
    <3>1. j \in 1..n /\ Len(h) + j = i
      BY <2>2, <1>1, <1>2
    <3> HIDE DEF j
    <3>2. r[Len(h) + j] = Link(ss[j].inputs) /\ s[Len(h) + j] = Link(tt[j].inputs)
      BY <3>1 DEF Extends
    <3>3. QED
      BY <3>1, <3>2
  <2>3. QED
    BY <2>1, <2>2
<1>4. QED
  BY <1>2, <1>3, VectorEquality

LEMMA HistoryAppend ==
  ASSUME NEW h, IsVector(h), NEW ss, IsVector(ss), NEW e
  PROVE  RollingHistory(h, Append(ss, e)) = HistoryHash(RollingHistory(h, ss), e.inputs)
<1> DEFINE tt == Append(ss, e)
           r  == RollingHistory(h, ss)
           n  == Len(ss)
<1>1. n \in Nat
  BY VectorLength
<1>2. /\ IsVector(tt)
      /\ Len(tt) = n + 1
      /\ \A i \in 1..n : tt[i] = ss[i]
      /\ tt[n + 1] = e
  BY AppendVector
<1>3. Extends(r, h, ss, n)
  BY <1>1, HistoryIsItsLinks
<1>4. Extends(RollingHistory(h, tt), h, tt, n + 1)
  <2> HIDE DEF tt, n
  <2>1. Len(tt) \in Nat
    BY <1>1, <1>2
  <2>2. QED
    BY <2>1, <1>2, HistoryIsItsLinks
<1> HIDE DEF tt, r, n
<1>5. Extends(r, h, tt, n)
  BY <1>1, <1>2, <1>3 DEF Extends
<1>6. Extends(HistoryHash(r, tt[n + 1].inputs), h, tt, n + 1)
  BY <1>1, <1>5, ExtendsByOne
<1>7. n + 1 \in Nat /\ \A i \in 1..(n + 1) : tt[i].inputs = tt[i].inputs
  BY <1>1
<1>8. RollingHistory(h, tt) = HistoryHash(r, tt[n + 1].inputs)
  BY <1>4, <1>6, <1>7, LinksDetermineHistory
<1>9. QED
  BY <1>2, <1>8 DEF tt, r

\* Equal digests: as many steps, of the same batches and outcomes.
LEMMA SameHistory ==
  ASSUME NEW h, IsVector(h), NEW ss, Len(ss) \in Nat, NEW tt, Len(tt) \in Nat,
         RollingHistory(h, ss) = RollingHistory(h, tt)
  PROVE  /\ Len(ss) = Len(tt)
         /\ \A k \in 1..Len(ss) : /\ ss[k].inputs.header = tt[k].inputs.header
                                  /\ ss[k].inputs.price = tt[k].inputs.price
                                  /\ ss[k].inputs.volume = tt[k].inputs.volume
<1> DEFINE r == RollingHistory(h, ss)
<1>1. Extends(r, h, ss, Len(ss))
  BY HistoryIsItsLinks
<1>2. Extends(r, h, tt, Len(tt))
  BY HistoryIsItsLinks
<1> HIDE DEF r
<1>3. Len(h) \in Nat
  BY VectorLength
<1>4. Len(r) = Len(h) + Len(ss) /\ Len(r) = Len(h) + Len(tt)
  BY <1>1, <1>2 DEF Extends
<1>5. Len(ss) = Len(tt)
  BY <1>3, <1>4
<1>6. ASSUME NEW k \in 1..Len(ss)
      PROVE  Link(ss[k].inputs) = Link(tt[k].inputs)
  <2>1. r[Len(h) + k] = Link(ss[k].inputs)
    BY <1>1 DEF Extends
  <2>2. r[Len(h) + k] = Link(tt[k].inputs)
    BY <1>2, <1>5 DEF Extends
  <2>3. QED
    BY <2>1, <2>2
<1>7. ASSUME NEW a, NEW b, Link(a) = Link(b)
      PROVE  a.header = b.header /\ a.price = b.price /\ a.volume = b.volume
  BY <1>7 DEF Link
<1>8. QED
  BY <1>5, <1>6, <1>7

----------------------------------------------------------------------------
(***************************************************************************)
(* Ids wrap with the word that holds them.                                 *)
(***************************************************************************)
LEMMA SmallId ==
  ASSUME NEW x \in Nat, NEW M \in Nat, x < M
  PROVE  x % M = x
  OBVIOUS

LEMMA NextId ==
  ASSUME NEW x \in Nat, NEW M \in Nat, M > 0
  PROVE  ((x % M) + 1) % M = (x + 1) % M
<1> DEFINE q == x \div M
           r == x % M
           y == x + 1
           p == y \div M
           s == y % M
<1>1. q \in Nat /\ r \in Nat /\ r < M /\ x = q * M + r
  <2>1. q \in Nat /\ r \in Nat /\ r < M
    OBVIOUS
  <2>2. x = q * M + r
    BY Z3
  <2>3. QED
    BY <2>1, <2>2
<1>2. p \in Nat /\ s \in Nat /\ s < M /\ y = p * M + s
  <2>1. y \in Nat
    OBVIOUS
  <2> HIDE DEF y
  <2>2. p \in Nat /\ s \in Nat /\ s < M
    BY <2>1
  <2>3. y = p * M + s
    BY <2>1, Z3
  <2>4. QED
    BY <2>2, <2>3
<1>3. y = x + 1
  OBVIOUS
<1>4. (r + 1) % M = s
  <2> HIDE DEF q, r, y, p, s
  <2>1. CASE r + 1 < M
    <3>1. (r + 1) % M = r + 1
      BY <1>1, <2>1
    <3>2. p * M + s = q * M + (r + 1)
      BY <1>1, <1>2, <1>3
    <3>3. p = q
      <4>1. ~(p > q)
        <5>1. ASSUME p > q PROVE FALSE
          <6>1. p * M >= q * M + M
            BY <5>1, <1>1, <1>2
          <6>2. QED
            BY <6>1, <3>2, <2>1, <1>1, <1>2
        <5>2. QED
          BY <5>1
      <4>2. ~(p < q)
        <5>1. ASSUME p < q PROVE FALSE
          <6>1. q * M >= p * M + M
            BY <5>1, <1>1, <1>2
          <6>2. QED
            BY <6>1, <3>2, <2>1, <1>1, <1>2
        <5>2. QED
          BY <5>1
      <4>3. QED
        BY <4>1, <4>2, <1>1, <1>2
    <3>4. QED
      BY <3>1, <3>2, <3>3, <1>1, <1>2
  <2>2. CASE ~(r + 1 < M)
    <3>1. r + 1 = M
      BY <2>2, <1>1
    <3>2. (r + 1) % M = 0
      BY <3>1
    <3>3. p * M + s = q * M + M
      BY <1>1, <1>2, <1>3, <3>1
    <3>4. s = 0
      <4>1. ~(p > q + 1)
        <5>1. ASSUME p > q + 1 PROVE FALSE
          <6>1. p * M >= (q + 2) * M
            BY <5>1, <1>1, <1>2
          <6>2. (q + 2) * M = q * M + M + M /\ q * M \in Nat /\ p * M \in Nat
            BY <1>1, <1>2
          <6>3. QED
            BY <6>1, <6>2, <3>3, <1>1, <1>2
        <5>2. QED
          BY <5>1
      <4>2. ~(p < q + 1)
        <5>1. ASSUME p < q + 1 PROVE FALSE
          <6>1. q * M >= p * M
            BY <5>1, <1>1, <1>2
          <6>2. QED
            BY <6>1, <3>3, <1>1, <1>2
        <5>2. QED
          BY <5>1
      <4>3. p = q + 1
        BY <4>1, <4>2, <1>1, <1>2
      <4>4. p * M = q * M + M
        BY <4>3, <1>1, <1>2
      <4>5. QED
        BY <4>4, <3>3, <1>1, <1>2
    <3>5. QED
      BY <3>2, <3>4
  <2>3. QED
    BY <2>1, <2>2
<1>5. QED
  BY <1>4 DEF r, s, y

----------------------------------------------------------------------------
(***************************************************************************)
(* The inductive invariant of the session: where it started, that the      *)
(* proofs are for the record, and what has been published and received.    *)
(***************************************************************************)
StartOK == initial.batch_id \in 0..MaxId /\ IsVector(initial.history)

RecordOK ==
  /\ IsVector(proofs)
  /\ \A k \in 1..Len(proofs) : proofs[k].version = 1 /\ proofs[k].well_formed = TRUE

PublicationOK ==
  stage \in {"published", "delivered", "accepted", "rejected"} =>
    /\ published = [made |-> TRUE, version |-> 1, num_batches |-> Len(proofs),
                    initial |-> initial, final |-> state, steps |-> proofs]
    /\ proofs # << >>
    /\ stage # "published" => IsVector(received.steps)
    /\ stage = "accepted" => VerifySession(initial, state, received)
    /\ stage = "rejected" => ~VerifySession(initial, state, received)

SessionIInv ==
  /\ StartOK
  /\ RecordOK
  /\ state.instrument = initial.instrument
  /\ stage \in {"building", "failed"} => proofs = << >>
  /\ FoldedStepsAreOneChain
  /\ PublicationOK

\* A session that has folded nothing yet.
LEMMA FreshSession ==
  ASSUME NEW s, s.batch_id \in 0..MaxId, IsVector(s.history)
  PROVE  /\ s.batch_id = (s.batch_id + Len(<< >>)) % (MaxId + 1)
         /\ s.ledger_root = LastLedgerRoot(s, s, << >>, Len(<< >>))
         /\ s.history = RollingHistory(s.history, << >>)
<1>1. s.batch_id = (s.batch_id + Len(<< >>)) % (MaxId + 1)
  BY EmptyVector, IdWidth
<1>2. s.ledger_root = LastLedgerRoot(s, s, << >>, Len(<< >>))
  BY EmptyVector DEF LastLedgerRoot
<1>3. s.history = RollingHistory(s.history, << >>)
  BY HistoryStart
<1>4. QED
  BY <1>1, <1>2, <1>3

LEMMA FreshInvariant ==
  ASSUME StartOK, state = initial, proofs = << >>,
         stage \notin {"published", "delivered", "accepted", "rejected"}
  PROVE  SessionIInv
<1>1. RecordOK /\ PublicationOK
  BY EmptyVector DEF RecordOK, PublicationOK
<1>2. FoldedStepsAreOneChain
  <2>1. 1..Len(proofs) = {}
    BY EmptyVector
  <2>2. /\ initial.batch_id = (initial.batch_id + Len(<< >>)) % (MaxId + 1)
        /\ initial.ledger_root = LastLedgerRoot(initial, initial, << >>, Len(<< >>))
        /\ initial.history = RollingHistory(initial.history, << >>)
    BY FreshSession DEF StartOK
  <2>3. QED
    BY <2>1, <2>2 DEF FoldedStepsAreOneChain
<1>3. QED
  BY <1>1, <1>2 DEF SessionIInv

LEMMA SessionInitOK ==
  ASSUME SessionInit
  PROVE  SessionIInv
<1>1. StartOK
  BY InitialStatesOK DEF SessionInit, StartOK
<1>2. QED
  BY <1>1, FreshInvariant DEF SessionInit

\* fold_step and the proof for the record extend the chain by one.
LEMMA FoldStepOK ==
  ASSUME SessionIInv, NEW offered, FoldStep(offered)
  PROVE  SessionIInv'
<1> USE DEF SessionIInv
<1>1. PICK step \in offered :
        /\ Folds(state, step)
        /\ state' = Fold(state, step)
        /\ proofs' = Append(proofs, [version |-> 1, inputs |-> step.inputs,
                                     well_formed |-> TRUE])
  BY DEF FoldStep
<1>2. /\ stage = "folding"
      /\ UNCHANGED <<stage, initial, published, received>>
  BY DEF FoldStep
<1> DEFINE e == [version |-> 1, inputs |-> step.inputs, well_formed |-> TRUE]
           n == Len(proofs)
           M == MaxId + 1
<1>3. IsVector(proofs) /\ n \in Nat
  BY VectorLength DEF RecordOK
<1>4. /\ IsVector(proofs')
      /\ Len(proofs') = n + 1
      /\ \A i \in 1..n : proofs'[i] = proofs[i]
      /\ proofs'[n + 1] = e
  <2> HIDE DEF e
  <2>1. QED
    BY <1>1, <1>3, AppendVector DEF e
<1>5. StartOK'
  BY <1>2 DEF StartOK
<1>6. RecordOK'
  <2>1. ASSUME NEW k \in 1..(n + 1)
        PROVE  proofs'[k].version = 1 /\ proofs'[k].well_formed = TRUE
    <3>1. CASE k = n + 1
      BY <3>1, <1>4
    <3>2. CASE k # n + 1
      <4>1. k \in 1..n
        BY <3>2, <1>3
      <4>2. QED
        BY <4>1, <1>4 DEF RecordOK
    <3>3. QED
      BY <3>1, <3>2
  <2>2. QED
    BY <2>1, <1>4 DEF RecordOK
<1>7. PublicationOK' /\ (stage \in {"building", "failed"} => proofs = << >>)'
  BY <1>2 DEF PublicationOK
<1>8. state'.instrument = initial'.instrument
  BY <1>1, <1>2 DEF Fold
<1>9. /\ e.inputs.header[1] = (initial.batch_id + (n + 1)) % M
      /\ state'.batch_id = (initial.batch_id + (n + 1)) % M
  <2>1. state.batch_id = (initial.batch_id + n) % M
    BY DEF FoldedStepsAreOneChain
  <2>2. step.witness.batch.id = (state.batch_id + 1) % M
    BY <1>1 DEF Folds
  <2>3. e.inputs.header[1] = step.witness.batch.id
    BY <1>1 DEF Folds, Proves, HeaderHash
  <2>4. state'.batch_id = step.witness.batch.id
    BY <1>1 DEF Fold
  <2>5. initial.batch_id + n \in Nat /\ M \in Nat /\ M > 0
        /\ initial.batch_id + (n + 1) = (initial.batch_id + n) + 1
    BY <1>3, IdWidth DEF StartOK
  <2> DEFINE x == initial.batch_id + n
  <2> HIDE DEF x, M
  <2>6. ((x % M) + 1) % M = (x + 1) % M
    BY <2>5, NextId DEF x
  <2>7. QED
    BY <2>1, <2>2, <2>3, <2>4, <2>5, <2>6 DEF x
<1> DEFINE root == IF n + 1 = 1 THEN initial.ledger_root ELSE proofs[n].inputs.post
           outcome == Execution(root[1], e.inputs.header[4])
<1>10. /\ e.inputs.header[2] = initial.instrument
       /\ e.inputs.pre = root
       /\ e.inputs.post = RootOf(outcome.post, initial.instrument)
       /\ e.inputs.price = outcome.price
       /\ e.inputs.volume = outcome.volume
  <2>1. state.ledger_root = root
    BY <1>3 DEF FoldedStepsAreOneChain, LastLedgerRoot
  <2>2. /\ step.witness.batch.instrument = initial.instrument
        /\ step.inputs.pre = root
        /\ Proves(step.inputs, step.witness)
    BY <2>1, <1>1 DEF Folds
  <2>3. /\ step.inputs.header[2] = initial.instrument
        /\ step.inputs.header[4] = step.witness.batch.orders
    BY <2>2 DEF Proves, HeaderHash
  <2>4. root[1] = step.witness.pre
    BY <2>2 DEF Proves, RootOf
  <2> HIDE DEF root
  <2>5. QED
    BY <2>2, <2>3, <2>4 DEF Proves
<1>11. state'.ledger_root = LastLedgerRoot(initial', state', proofs', n + 1)
  <2>1. state'.ledger_root = step.inputs.post
    BY <1>1 DEF Fold
  <2>2. QED
    BY <2>1, <1>3, <1>4 DEF LastLedgerRoot
<1>12. state'.history = RollingHistory(initial'.history, proofs')
  <2>1. state'.history = HistoryHash(state.history, step.inputs)
    BY <1>1 DEF Fold
  <2>2. state.history = RollingHistory(initial.history, proofs)
    BY DEF FoldedStepsAreOneChain
  <2>3. e.inputs = step.inputs /\ proofs' = Append(proofs, e)
    BY <1>1
  <2> HIDE DEF e
  <2>4. IsVector(initial.history)
    BY DEF StartOK
  <2>5. RollingHistory(initial.history, Append(proofs, e))
          = HistoryHash(RollingHistory(initial.history, proofs), e.inputs)
    BY <2>4, <1>3, HistoryAppend
  <2>6. QED
    BY <2>1, <2>2, <2>3, <2>5, <1>2
<1>13. ASSUME NEW k \in 1..(n + 1)
       PROVE  LET inputs == proofs'[k].inputs
                  before == IF k = 1 THEN initial.ledger_root ELSE proofs'[k - 1].inputs.post
                  out == Execution(before[1], inputs.header[4])
              IN  /\ inputs.header[1] = (initial.batch_id + k) % (MaxId + 1)
                  /\ inputs.header[2] = initial.instrument
                  /\ inputs.pre = before
                  /\ inputs.post = RootOf(out.post, initial.instrument)
                  /\ inputs.price = out.price
                  /\ inputs.volume = out.volume
  <2>1. CASE k = n + 1
    <3>1. k = 1 \/ (k - 1 \in 1..n /\ k - 1 = n)
      BY <2>1, <1>3
    <3>2. (IF k = 1 THEN initial.ledger_root ELSE proofs'[k - 1].inputs.post) = root
      BY <2>1, <3>1, <1>4
    <3>3. proofs'[k] = e
      BY <2>1, <1>4
    <3> HIDE DEF e, root
    <3>4. QED
      BY <2>1, <3>2, <3>3, <1>9, <1>10
  <2>2. CASE k # n + 1
    <3>1. k \in 1..n /\ (k = 1 \/ k - 1 \in 1..n)
      BY <2>2, <1>3
    <3>2. proofs'[k] = proofs[k] /\ (k # 1 => proofs'[k - 1] = proofs[k - 1])
      BY <3>1, <1>4
    <3> HIDE DEF n
    <3>3. k \in 1..Len(proofs)
      BY <3>1 DEF n
    <3>4. QED
      BY <3>2, <3>3 DEF FoldedStepsAreOneChain
  <2>3. QED
    BY <2>1, <2>2
<1>14. FoldedStepsAreOneChain'
  <2> HIDE DEF e, n, M
  <2>1. state'.batch_id = (initial'.batch_id + Len(proofs')) % (MaxId + 1)
    BY <1>2, <1>4, <1>9 DEF M
  <2>2. state'.ledger_root = LastLedgerRoot(initial', state', proofs', Len(proofs'))
    BY <1>4, <1>11
  <2>3. initial' = initial /\ Len(proofs') = n + 1
    BY <1>2, <1>4
  <2>4. QED
    BY <2>1, <2>2, <2>3, <1>12, <1>13 DEF FoldedStepsAreOneChain
<1>15. QED
  BY <1>2, <1>5, <1>6, <1>7, <1>8, <1>14

LEMMA RefuseSessionOK ==
  ASSUME SessionIInv, NEW offered, RefuseSession(offered)
  PROVE  SessionIInv'
<1>1. /\ stage' = "refused" /\ state' = initial /\ proofs' = << >>
      /\ initial' = initial
  BY DEF RefuseSession
<1>2. StartOK'
  BY <1>1 DEF SessionIInv, StartOK
<1>3. RecordOK' /\ PublicationOK'
  BY <1>1, EmptyVector DEF RecordOK, PublicationOK
<1>4. FoldedStepsAreOneChain'
  <2>1. 1..Len(proofs') = {}
    BY <1>1, EmptyVector
  <2>2. /\ initial.batch_id = (initial.batch_id + Len(<< >>)) % (MaxId + 1)
        /\ initial.ledger_root = LastLedgerRoot(initial, initial, << >>, Len(<< >>))
        /\ initial.history = RollingHistory(initial.history, << >>)
    BY FreshSession DEF StartOK, SessionIInv
  <2>3. QED
    BY <2>1, <2>2, <1>1 DEF FoldedStepsAreOneChain
<1>5. QED
  BY <1>1, <1>2, <1>3, <1>4 DEF SessionIInv

\* What only moves the stage leaves the chain as it is.
LEMMA ChainUnchanged ==
  ASSUME SessionIInv, UNCHANGED <<initial, state, proofs>>
  PROVE  /\ StartOK'
         /\ RecordOK'
         /\ state'.instrument = initial'.instrument
         /\ FoldedStepsAreOneChain'
<1>1. initial' = initial /\ state' = state /\ proofs' = proofs
  OBVIOUS
<1>2. StartOK' /\ RecordOK' /\ state'.instrument = initial'.instrument
  BY <1>1 DEF SessionIInv, StartOK, RecordOK
<1>3. FoldedStepsAreOneChain'
  BY <1>1 DEF SessionIInv, FoldedStepsAreOneChain
<1>4. QED
  BY <1>2, <1>3

LEMMA PublishSessionOK ==
  ASSUME SessionIInv, PublishSession
  PROVE  SessionIInv'
<1>1. /\ stage' = "published" /\ proofs # << >>
      /\ UNCHANGED <<initial, state, proofs>>
      /\ published' = [made |-> TRUE, version |-> 1, num_batches |-> Len(proofs),
                       initial |-> initial, final |-> state, steps |-> proofs]
  BY DEF PublishSession
<1>2. PublicationOK'
  BY <1>1 DEF PublicationOK
<1>3. QED
  BY <1>1, <1>2, ChainUnchanged DEF SessionIInv

LEMMA DeliverSessionOK ==
  ASSUME SessionIInv, NEW others, DeliverSession(others)
  PROVE  SessionIInv'
<1>1. /\ stage = "published" /\ stage' = "delivered"
      /\ UNCHANGED <<initial, state, proofs, published>>
      /\ received' \in {published} \cup {s \in others : IsVector(s.steps)}
  BY DEF DeliverSession
<1>2. published = [made |-> TRUE, version |-> 1, num_batches |-> Len(proofs),
                   initial |-> initial, final |-> state, steps |-> proofs]
      /\ proofs # << >> /\ IsVector(proofs)
  BY <1>1 DEF SessionIInv, PublicationOK, RecordOK
<1>3. IsVector(received'.steps)
  <2>1. published.steps = proofs
    BY <1>2
  <2>2. QED
    BY <2>1, <1>1, <1>2
<1>4. PublicationOK'
  BY <1>1, <1>2, <1>3 DEF PublicationOK
<1>5. QED
  BY <1>1, <1>4, ChainUnchanged DEF SessionIInv

LEMMA VerifyReceivedOK ==
  ASSUME SessionIInv, VerifyReceived
  PROVE  SessionIInv'
<1>1. /\ stage = "delivered" /\ stage' \in {"accepted", "rejected"}
      /\ UNCHANGED <<initial, state, proofs, published, received>>
      /\ stage' = "accepted" <=> VerifySession(published.initial, published.final, received)
  BY DEF VerifyReceived
<1>2. /\ published = [made |-> TRUE, version |-> 1, num_batches |-> Len(proofs),
                      initial |-> initial, final |-> state, steps |-> proofs]
      /\ proofs # << >> /\ IsVector(received.steps)
  BY <1>1 DEF SessionIInv, PublicationOK
<1>3. published.initial = initial /\ published.final = state
  BY <1>2
<1>4. stage' = "accepted" <=> VerifySession(initial, state, received)
  BY <1>1, <1>3
<1>5. VerifySession(initial, state, received)' <=> VerifySession(initial, state, received)
  BY <1>1 DEF VerifySession
<1>6. PublicationOK'
  BY <1>1, <1>2, <1>4, <1>5 DEF PublicationOK
<1>7. QED
  BY <1>1, <1>6, ChainUnchanged DEF SessionIInv

LEMMA StageOK ==
  ASSUME SessionIInv, UNCHANGED <<initial, state, proofs, published, received>>,
         stage = "building", stage' \in {"building", "failed", "folding"}
  PROVE  SessionIInv'
<1>1. PublicationOK'
  BY DEF PublicationOK
<1>2. QED
  BY <1>1, ChainUnchanged DEF SessionIInv

LEMMA LoadManifestOK ==
  ASSUME SessionIInv, LoadManifest
  PROVE  SessionIInv'
<1>1. stage = "folding" /\ proofs = << >> /\ proofs' = proofs
  BY DEF LoadManifest
<1>2. CASE stage' = "failed" /\ UNCHANGED <<initial, state>>
  <2>1. PublicationOK'
    BY <1>2 DEF PublicationOK
  <2>2. QED
    BY <1>1, <1>2, <2>1, ChainUnchanged DEF SessionIInv
<1>3. CASE /\ stage' = "building"
           /\ LET instrument == manifest'.batches[1].instrument
              IN  initial' = Genesis(RootOf(ledger, instrument), instrument)
           /\ state' = initial'
  <2>1. initial'.batch_id = 0 /\ initial'.history = << >>
    BY <1>3 DEF Genesis, Zero
  <2>2. StartOK'
    BY <2>1, IdWidth, EmptyVector DEF StartOK
  <2>3. RecordOK' /\ PublicationOK'
    BY <1>1, <1>3, EmptyVector DEF RecordOK, PublicationOK
  <2>4. FoldedStepsAreOneChain'
    <3>1. 1..Len(proofs') = {}
      BY <1>1, EmptyVector
    <3> DEFINE s == initial'
    <3>2. s.batch_id \in 0..MaxId /\ IsVector(s.history)
      BY <2>2 DEF StartOK
    <3>3. /\ s.batch_id = (s.batch_id + Len(<< >>)) % (MaxId + 1)
          /\ s.ledger_root = LastLedgerRoot(s, s, << >>, Len(<< >>))
          /\ s.history = RollingHistory(s.history, << >>)
      <4> HIDE DEF s
      <4>1. QED
        BY <3>2, FreshSession
    <3>4. QED
      BY <3>1, <3>3, <1>1, <1>3 DEF FoldedStepsAreOneChain
  <2>5. QED
    BY <1>1, <1>3, <2>2, <2>3, <2>4 DEF SessionIInv
<1>4. QED
  BY <1>2, <1>3 DEF LoadManifest

LEMMA SessionUnchanged ==
  ASSUME SessionIInv, UNCHANGED sessionVars
  PROVE  SessionIInv'
<1>1. UNCHANGED <<stage, initial, state, proofs, published, received>>
  BY DEF sessionVars
<1>2. VerifySession(initial, state, received)' <=> VerifySession(initial, state, received)
  BY <1>1 DEF VerifySession
<1>3. PublicationOK'
  BY <1>1, <1>2 DEF PublicationOK, SessionIInv
<1>4. QED
  BY <1>1, <1>3, ChainUnchanged DEF SessionIInv

LEMMA SessionInductive ==
  ASSUME SessionIInv, [CommandNext]_commandVars
  PROVE  SessionIInv'
<1>1. CASE LoadManifest
  BY <1>1, LoadManifestOK
<1>2. CASE BuildStep
  <2>1. /\ UNCHANGED <<initial, state, proofs, published, received>>
        /\ stage = "building" /\ stage' \in {"building", "failed"}
    BY <1>2 DEF BuildStep
  <2>2. QED
    BY <2>1, StageOK
<1>3. CASE CallProver
  <2>1. /\ UNCHANGED <<initial, state, proofs, published, received>>
        /\ stage = "building" /\ stage' = "folding"
    BY <1>3 DEF CallProver
  <2>2. QED
    BY <2>1, StageOK
<1>4. CASE Running /\ ProveManifest
  <2>1. \/ \E next : FoldStep(next) \/ RefuseSession(next)
        \/ PublishSession \/ DeliverSession({}) \/ VerifyReceived
    BY <1>4 DEF ProveManifest
  <2>2. QED
    BY <2>1, FoldStepOK, RefuseSessionOK, PublishSessionOK, DeliverSessionOK,
       VerifyReceivedOK
<1>5. CASE ~Running /\ UseLibrary
  BY <1>5, FoldStepOK, RefuseSessionOK, PublishSessionOK, DeliverSessionOK,
     VerifyReceivedOK DEF UseLibrary, LibraryNext
<1>6. CASE UNCHANGED commandVars
  BY <1>6, SessionUnchanged DEF commandVars
<1>7. QED
  BY <1>1, <1>2, <1>3, <1>4, <1>5, <1>6 DEF CommandNext

LEMMA SessionInvariance == CommandSpec => []SessionIInv
<1>1. CommandInit => SessionIInv
  BY SessionInitOK DEF CommandInit
<1>2. SessionIInv /\ [CommandNext]_commandVars => SessionIInv'
  BY SessionInductive
<1>3. QED
  BY <1>1, <1>2, PTL DEF CommandSpec

----------------------------------------------------------------------------
(***************************************************************************)
(* prove_session: whatever steps it is handed, and whether by a caller of  *)
(* the library or by the command, the steps it has folded are one chain of *)
(* executions with consecutive ids, and the running state is its end.      *)
(***************************************************************************)
THEOREM OneChain == CommandSpec => []FoldedStepsAreOneChain
<1>1. SessionIInv => FoldedStepsAreOneChain
  BY DEF SessionIInv
<1>2. QED
  BY <1>1, SessionInvariance, PTL

LEMMA PublishedVerifies ==
  ASSUME SessionIInv
  PROVE  AcceptsThePublishedSession
<1>1. SUFFICES ASSUME SessionIInv, stage = "rejected", received = published
               PROVE  FALSE
  BY DEF AcceptsThePublishedSession
<1>2. /\ published = [made |-> TRUE, version |-> 1, num_batches |-> Len(proofs),
                      initial |-> initial, final |-> state, steps |-> proofs]
      /\ proofs # << >>
      /\ ~VerifySession(initial, state, received)
  BY <1>1 DEF SessionIInv, PublicationOK
<1>3. /\ received.version = 1 /\ received.initial = initial
      /\ received.final = state /\ received.steps = proofs
      /\ received.num_batches = Len(proofs)
  BY <1>1, <1>2
<1>4. ASSUME NEW k \in 1..Len(proofs)
      PROVE  /\ VerifyStep(proofs[k].inputs, proofs[k])
             /\ proofs[k].inputs.pre = LastLedgerRoot(initial, state, proofs, k - 1)
  <2>1. VerifyStep(proofs[k].inputs, proofs[k])
    BY <1>1 DEF SessionIInv, RecordOK, VerifyStep
  <2>2. proofs[k].inputs.pre = IF k = 1 THEN initial.ledger_root
                               ELSE proofs[k - 1].inputs.post
    BY <1>1 DEF SessionIInv, FoldedStepsAreOneChain
  <2>3. k = 1 <=> k - 1 = 0
    BY <1>1, VectorLength DEF SessionIInv, RecordOK
  <2>4. QED
    BY <2>1, <2>2, <2>3 DEF LastLedgerRoot
<1>5. /\ LastLedgerRoot(initial, state, proofs, Len(proofs)) = state.ledger_root
      /\ RollingHistory(initial.history, proofs) = state.history
  BY <1>1 DEF SessionIInv, FoldedStepsAreOneChain
<1>6. VerifySession(initial, state, received)
  BY <1>2, <1>3, <1>4, <1>5 DEF VerifySession
<1>7. QED
  BY <1>2, <1>6

(***************************************************************************)
(* verify_session takes the session proof that prove_session returned.     *)
(***************************************************************************)
THEOREM PublishedIsAccepted == CommandSpec => []AcceptsThePublishedSession
<1>1. SessionIInv => AcceptsThePublishedSession
  BY PublishedVerifies
<1>2. QED
  BY <1>1, SessionInvariance, PTL

(***************************************************************************)
(* verify_session accepts, for the published end states, no steps but as   *)
(* many as were published, of the same batches with the same outcomes in   *)
(* the same order, whose ledger roots lead from the first to the last.     *)
(***************************************************************************)
THEOREM OnlyTheHistory == CommandSpec => []AcceptsOnlyTheHistory
<1>1. SessionIInv => AcceptsOnlyTheHistory
  <2>1. SUFFICES ASSUME SessionIInv, stage = "accepted"
                 PROVE  AcceptsOnlyTheHistory
    BY DEF AcceptsOnlyTheHistory
  <2> DEFINE got == received.steps
  <2>2. /\ published.steps = proofs
        /\ proofs # << >> /\ IsVector(got)
        /\ VerifySession(initial, state, received)
    <3>1. /\ published = [made |-> TRUE, version |-> 1, num_batches |-> Len(proofs),
                          initial |-> initial, final |-> state, steps |-> proofs]
          /\ proofs # << >> /\ IsVector(got)
          /\ VerifySession(initial, state, received)
      BY <2>1 DEF SessionIInv, PublicationOK
    <3>2. QED
      BY <3>1
  <2>3. Len(got) \in Nat /\ IsVector(proofs) /\ Len(proofs) \in Nat
    BY <2>1, <2>2, VectorLength DEF SessionIInv, RecordOK
  <2>4. IsVector(initial.history)
    BY <2>1 DEF SessionIInv, StartOK
  <2>5. RollingHistory(initial.history, got) = RollingHistory(initial.history, proofs)
    BY <2>1, <2>2 DEF VerifySession, SessionIInv, FoldedStepsAreOneChain
  <2>6. /\ Len(got) = Len(proofs)
        /\ \A k \in 1..Len(got) : /\ got[k].inputs.header = proofs[k].inputs.header
                                  /\ got[k].inputs.price = proofs[k].inputs.price
                                  /\ got[k].inputs.volume = proofs[k].inputs.volume
    <3> HIDE DEF got
    <3>1. QED
      BY <2>3, <2>4, <2>5, SameHistory
  <2>7. \A k \in 1..Len(got) :
           got[k].inputs.pre = LastLedgerRoot(initial, state, got, k - 1)
    BY <2>2 DEF VerifySession
  <2>8. Len(got) >= 1
    <3>1. Len(proofs) # 0
      BY <2>2, <2>3 DEF IsVector
    <3>2. QED
      BY <3>1, <2>3, <2>6
  <2>9. \A k \in 1..Len(got) : k > 1 => got[k].inputs.pre = got[k - 1].inputs.post
    BY <2>3, <2>7 DEF LastLedgerRoot
  <2>10. got[1].inputs.pre = proofs[1].inputs.pre
    <3>1. 1 \in 1..Len(got) /\ 1 \in 1..Len(proofs)
      BY <2>3, <2>6, <2>8
    <3>2. got[1].inputs.pre = initial.ledger_root
      BY <3>1, <2>7 DEF LastLedgerRoot
    <3>3. proofs[1].inputs.pre = initial.ledger_root
      BY <3>1, <2>1 DEF SessionIInv, FoldedStepsAreOneChain
    <3>4. QED
      BY <3>2, <3>3
  <2>11. got[Len(got)].inputs.post = proofs[Len(got)].inputs.post
    <3>1. LastLedgerRoot(initial, state, got, Len(got)) = state.ledger_root
      BY <2>2 DEF VerifySession
    <3>2. LastLedgerRoot(initial, state, proofs, Len(proofs)) = state.ledger_root
      BY <2>1 DEF SessionIInv, FoldedStepsAreOneChain
    <3>3. QED
      BY <3>1, <3>2, <2>3, <2>6, <2>8 DEF LastLedgerRoot
  <2> HIDE DEF got
  <2>12. QED
    BY <2>2, <2>6, <2>9, <2>10, <2>11 DEF AcceptsOnlyTheHistory, got
<1>2. QED
  BY <1>1, SessionInvariance, PTL

----------------------------------------------------------------------------
(***************************************************************************)
(* The command.  The ledgers before the batches of a manifest exist, and   *)
(* each is the result of executing the batch before it.                    *)
(***************************************************************************)
LedgersBefore(g, b) ==
  LET before[k \in 1..(Len(b) + 1)] ==
        IF k = 1 THEN g ELSE Execution(before[k - 1], b[k - 1].orders).post
  IN  before

Executed(p, g, b, n) ==
  p = [k \in 1..(n + 1) |->
         IF k = 1 THEN g ELSE Execution(p[k - 1], b[k - 1].orders).post]

LEMMA ExecutedExists ==
  ASSUME NEW N \in Nat, NEW g, NEW b
  PROVE  \E p : Executed(p, g, b, N)
<1> DEFINE T == {n \in Nat : \E p : Executed(p, g, b, n)}
<1>1. 0 \in T
  <2> DEFINE z == [k \in 1..(0 + 1) |-> g]
  <2>1. \A k \in 1..(0 + 1) : k = 1
    OBVIOUS
  <2>2. z = [k \in 1..(0 + 1) |->
               IF k = 1 THEN g ELSE Execution(z[k - 1], b[k - 1].orders).post]
    BY <2>1
  <2>3. Executed(z, g, b, 0)
    BY <2>2 DEF Executed
  <2>4. QED
    BY <2>3
<1>2. ASSUME NEW n \in T PROVE n + 1 \in T
  <2>1. PICK p : Executed(p, g, b, n)
    OBVIOUS
  <2> DEFINE e == Execution(p[n + 1], b[n + 1].orders).post
             q == [k \in 1..((n + 1) + 1) |-> IF k = n + 2 THEN e ELSE p[k]]
  <2>2. n \in Nat
    OBVIOUS
  <2>3. \A k \in 1..(n + 1) :
          p[k] = IF k = 1 THEN g ELSE Execution(p[k - 1], b[k - 1].orders).post
    BY <2>1 DEF Executed
  <2>4. ASSUME NEW k \in 1..((n + 1) + 1)
        PROVE  q[k] = IF k = 1 THEN g ELSE Execution(q[k - 1], b[k - 1].orders).post
    <3>1. CASE k = n + 2
      <4>1. q[k] = e /\ q[k - 1] = p[n + 1] /\ k # 1 /\ k - 1 = n + 1
        BY <2>2, <3>1
      <4>2. QED
        BY <4>1
    <3>2. CASE k # n + 2 /\ k # 1
      <4>1. q[k] = p[k] /\ q[k - 1] = p[k - 1] /\ k \in 1..(n + 1)
        BY <2>2, <3>2
      <4>2. QED
        BY <4>1, <3>2, <2>3
    <3>3. CASE k = 1
      <4>1. q[k] = p[k] /\ k \in 1..(n + 1)
        BY <2>2, <3>3
      <4>2. QED
        BY <4>1, <3>3, <2>3
    <3>4. QED
      BY <3>1, <3>2, <3>3
  <2>5. Executed(q, g, b, n + 1)
    <3>1. q = [k \in 1..((n + 1) + 1) |-> q[k]]
      OBVIOUS
    <3> HIDE DEF q
    <3>2. QED
      BY <3>1, <2>4 DEF Executed
  <2>6. QED
    BY <2>2, <2>5
<1>3. T = Nat
  <2> HIDE DEF T
  <2>1. T \in SUBSET Nat
    BY DEF T
  <2>2. QED
    BY <2>1, <1>1, <1>2, SetInduction
<1>4. N \in T
  BY <1>3
<1>5. QED
  BY <1>4

LEMMA LedgersAreExecuted ==
  ASSUME NEW g, NEW b, Len(b) \in Nat
  PROVE  /\ LedgersBefore(g, b)[1] = g
         /\ \A k \in 1..Len(b) :
              LedgersBefore(g, b)[k + 1] = Execution(LedgersBefore(g, b)[k], b[k].orders).post
<1> DEFINE n == Len(b)
           P(p) == p = [k \in 1..(n + 1) |-> IF k = 1 THEN g
                          ELSE Execution(p[k - 1], b[k - 1].orders).post]
           r == LedgersBefore(g, b)
<1>1. PICK q : Executed(q, g, b, n)
  BY ExecutedExists
<1>2. P(q)
  BY <1>1 DEF Executed
<1>3. P(CHOOSE p : P(p))
  BY <1>2
<1>4. r = CHOOSE p : P(p)
  BY DEF LedgersBefore
<1>5. \A k \in 1..(n + 1) :
        r[k] = IF k = 1 THEN g ELSE Execution(r[k - 1], b[k - 1].orders).post
  <2>1. r = [k \in 1..(n + 1) |-> IF k = 1 THEN g
               ELSE Execution(r[k - 1], b[k - 1].orders).post]
    BY <1>3, <1>4
  <2> HIDE DEF r
  <2>2. QED
    BY <2>1
<1> HIDE DEF r
<1>6. r[1] = g
  BY <1>5
<1>7. ASSUME NEW k \in 1..n PROVE r[k + 1] = Execution(r[k], b[k].orders).post
  <2>1. k + 1 \in 1..(n + 1) /\ k + 1 # 1 /\ (k + 1) - 1 = k
    OBVIOUS
  <2>2. QED
    BY <2>1, <1>5
<1>8. QED
  BY <1>6, <1>7 DEF r

(***************************************************************************)
(* What the loop of cmd_prove_session has built after m batches.           *)
(***************************************************************************)
StepFor(b, before, k) ==
  LET outcome == Execution(before[k], b[k].orders)
      carried == IF k = 1 THEN b[1].instrument ELSE b[k - 1].instrument
      batch == [id |-> b[k].id, instrument |-> b[k].instrument,
                orders |-> b[k].orders, cutoff |-> k]
  IN  [timestamp |-> k,
       witness |-> [batch |-> batch, pre |-> before[k], post |-> outcome.post,
                    oracle |-> "absent"],
       inputs  |-> [pre |-> RootOf(before[k], carried),
                    post |-> RootOf(outcome.post, b[k].instrument),
                    header |-> HeaderHash(batch), oracle |-> "absent",
                    price |-> outcome.price, volume |-> outcome.volume]]

ExecutesAt(b, before, k) == Execution(before[k], b[k].orders).ok

ProvableAt(b, before, k) ==
  /\ b[k].id = k
  /\ b[k].instrument = b[1].instrument
  /\ Execution(before[k], b[k].orders).provable

Building(b, before) ==
  /\ IsVector(steps)
  /\ Len(steps) <= Len(b)
  /\ ledger = before[Len(steps) + 1]
  /\ Len(b) # 0 => current_root = RootOf(ledger, IF Len(steps) = 0 THEN b[1].instrument
                                                 ELSE b[Len(steps)].instrument)
  /\ \A k \in 1..Len(steps) : /\ ExecutesAt(b, before, k)
                              /\ steps[k] = StepFor(b, before, k)

Proving(b, before) ==
  /\ Len(b) > 0
  /\ initial = Genesis(RootOf(genesis, b[1].instrument), b[1].instrument)
  /\ state.timestamp = Len(proofs)
  /\ Len(proofs) <= Len(steps)
  /\ Len(proofs) <= MaxSteps
  /\ \A k \in 1..Len(proofs) : /\ ProvableAt(b, before, k)
                               /\ proofs[k].inputs = steps[k].inputs
  /\ stage # "building" => Len(steps) = Len(b)
  /\ stage = "refused" => \E k \in 1..Len(b) : ~ProvableAt(b, before, k)
  /\ stage \in {"published", "delivered", "accepted", "rejected"} =>
       Len(proofs) = Len(b)
  /\ stage \in {"delivered", "accepted", "rejected"} => received = published

Failing(b, before) ==
  \/ Len(b) = 0
  \/ /\ Len(steps) < Len(b)
     /\ ~ExecutesAt(b, before, Len(steps) + 1)

Commanding(b, before) ==
  /\ Building(b, before)
  /\ stage = "failed" => Failing(b, before)
  /\ stage # "failed" => Proving(b, before)

CommandIInv ==
  \/ /\ manifest = NoManifest
     /\ stage # "building"
     /\ ledger = genesis
     /\ steps = << >>
  \/ /\ manifest.loaded = TRUE
     /\ manifest.batches \in Manifests
     /\ Commanding(manifest.batches, LedgersBefore(genesis, manifest.batches))

\* fold_step takes the next step exactly when its batch continues the session.
LEMMA FoldsExactlyProvable ==
  ASSUME SessionIInv, NEW b, NEW before, Building(b, before), Proving(b, before),
         stage = "folding", Len(b) \in Nat, before[1] = genesis,
         \A k \in 1..Len(b) : /\ before[k + 1] = Execution(before[k], b[k].orders).post
                              /\ b[k].id \in 0..MaxId,
         Len(proofs) < Len(steps)
  PROVE  LET k == Len(proofs) + 1
         IN  /\ Len(proofs) < MaxSteps /\ Folds(state, steps[k]) => ProvableAt(b, before, k)
             /\ ~Folds(state, steps[k]) => ~ProvableAt(b, before, k)
<1> DEFINE j == Len(proofs)
           k == j + 1
           w == steps[k].witness
           out == Execution(before[k], b[k].orders)
<1>1. j \in Nat /\ j <= MaxSteps /\ MaxSteps \in 0..MaxId /\ MaxId \in Nat
  BY VectorLength, IdWidth, ManifestsOK DEF SessionIInv, RecordOK, Proving
<1>2. Len(steps) = Len(b) /\ k \in 1..Len(b)
  BY <1>1 DEF Proving
<1>3. steps[k] = StepFor(b, before, k) /\ out.ok
  BY <1>2 DEF Building, ExecutesAt
<1>4. /\ initial.batch_id = 0
      /\ initial.instrument = b[1].instrument
      /\ initial.ledger_root = RootOf(genesis, b[1].instrument)
  BY DEF Proving, Genesis
<1>5. state.batch_id = j
  <2>1. state.batch_id = (0 + j) % (MaxId + 1)
    BY <1>4 DEF SessionIInv, FoldedStepsAreOneChain
  <2>2. (0 + j) % (MaxId + 1) = j
    <3>1. j \in Nat /\ MaxId + 1 \in Nat /\ j < MaxId + 1 /\ 0 + j = j
      BY <1>1
    <3> HIDE DEF j
    <3>2. QED
      BY <3>1, SmallId
  <2>3. QED
    BY <2>1, <2>2
<1>6. (state.batch_id + 1) % (MaxId + 1) = IF k <= MaxId THEN k ELSE 0
  <2>1. CASE k <= MaxId
    <3>1. k \in Nat /\ MaxId + 1 \in Nat /\ k < MaxId + 1
      BY <2>1, <1>1
    <3>2. state.batch_id + 1 = k
      BY <1>5
    <3> HIDE DEF k
    <3>3. k % (MaxId + 1) = k
      BY <3>1, SmallId
    <3>4. QED
      BY <3>2, <3>3, <2>1
  <2>2. CASE ~(k <= MaxId)
    <3>1. k = MaxId + 1
      BY <2>2, <1>1
    <3>2. (MaxId + 1) % (MaxId + 1) = 0
      BY <1>1
    <3>3. QED
      BY <3>1, <3>2, <2>2, <1>5
  <2>3. QED
    BY <2>1, <2>2
<1> DEFINE carried == IF k = 1 THEN b[1].instrument ELSE b[k - 1].instrument
<1>7. state.ledger_root = RootOf(before[k], carried)
  <2>1. state.ledger_root = LastLedgerRoot(initial, state, proofs, j)
    BY DEF SessionIInv, FoldedStepsAreOneChain
  <2>2. CASE j = 0
    BY <2>1, <2>2, <1>4 DEF LastLedgerRoot
  <2>3. CASE j # 0
    <3>1. j \in 1..Len(proofs) /\ j \in 1..Len(steps) /\ j \in 1..Len(b) /\ k # 1 /\ k - 1 = j
      BY <2>3, <1>1, <1>2
    <3>2. state.ledger_root = proofs[j].inputs.post
      BY <2>1, <2>3 DEF LastLedgerRoot
    <3>3. proofs[j].inputs = steps[j].inputs
      BY <3>1 DEF Proving
    <3>4. steps[j] = StepFor(b, before, j)
      BY <3>1 DEF Building
    <3>5. steps[j].inputs.post = RootOf(Execution(before[j], b[j].orders).post, b[j].instrument)
      BY <3>4 DEF StepFor
    <3>6. before[k] = Execution(before[j], b[j].orders).post
      BY <3>1
    <3>7. QED
      BY <3>1, <3>2, <3>3, <3>5, <3>6
  <2>4. QED
    BY <2>2, <2>3
<1>8. carried = b[1].instrument
  <2>1. CASE j = 0
    BY <2>1
  <2>2. CASE j # 0
    <3>1. j \in 1..Len(proofs) /\ k # 1 /\ k - 1 = j
      BY <2>2, <1>1
    <3>2. ProvableAt(b, before, j)
      BY <3>1 DEF Proving
    <3>3. QED
      BY <3>1, <3>2 DEF ProvableAt
  <2>3. QED
    BY <2>1, <2>2
<1>9. /\ w.batch.id = b[k].id
      /\ w.batch.instrument = b[k].instrument
      /\ w.batch.orders = b[k].orders
      /\ w.pre = before[k] /\ w.post = out.post /\ w.oracle = "absent"
      /\ steps[k].timestamp = k
      /\ steps[k].inputs.pre = RootOf(before[k], carried)
      /\ steps[k].inputs.post = RootOf(out.post, b[k].instrument)
      /\ steps[k].inputs.header = HeaderHash(w.batch)
      /\ steps[k].inputs.oracle = "absent"
      /\ steps[k].inputs.price = out.price
      /\ steps[k].inputs.volume = out.volume
  BY <1>3 DEF StepFor
<1>10. state.instrument = b[1].instrument /\ state.timestamp = j
  BY <1>4 DEF SessionIInv, Proving
<1> HIDE DEF carried, w
<1>11. ASSUME j < MaxSteps, Folds(state, steps[k]) PROVE ProvableAt(b, before, k)
  <2>1. k <= MaxId
    BY <1>1, <1>11
  <2>2. b[k].id = k
    BY <2>1, <1>6, <1>9, <1>11 DEF Folds, w
  <2>3. b[k].instrument = b[1].instrument
    BY <1>9, <1>10, <1>11 DEF Folds, w
  <2>4. Proves(steps[k].inputs, steps[k].witness)
    BY <1>11 DEF Folds
  <2>5. out.provable
    <3>1. Proves(steps[k].inputs, w)
      BY <2>4 DEF w
    <3>2. Execution(w.pre, w.batch.orders).provable
      BY <3>1 DEF Proves
    <3>3. w.pre = before[k] /\ w.batch.orders = b[k].orders
      BY <1>9
    <3>4. QED
      BY <3>2, <3>3
  <2>6. QED
    BY <2>2, <2>3, <2>5 DEF ProvableAt
<1>12. ASSUME ProvableAt(b, before, k) PROVE Folds(state, steps[k])
  <2>1. /\ b[k].id = k /\ b[k].instrument = b[1].instrument /\ out.provable
    BY <1>12 DEF ProvableAt
  <2>2. k <= MaxId
    BY <2>1, <1>1, <1>2
  <2>3. Proves(steps[k].inputs, w)
    <3>1. w.pre = before[k] /\ w.batch.orders = b[k].orders
      BY <1>9
    <3>2. Execution(w.pre, w.batch.orders) = out
      BY <3>1
    <3>3. out.ok /\ out.provable
      BY <2>1, <1>3
    <3>4. /\ steps[k].inputs.pre = RootOf(w.pre, w.batch.instrument)
          /\ steps[k].inputs.post = RootOf(w.post, w.batch.instrument)
      BY <2>1, <1>8, <1>9
    <3> HIDE DEF out
    <3>5. QED
      BY <3>2, <3>3, <3>4, <1>9 DEF Proves
  <2>4. k >= state.timestamp
    BY <1>1, <1>10
  <2>5. QED
    BY <2>1, <2>2, <2>3, <2>4, <1>6, <1>7, <1>9, <1>10 DEF Folds, w
<1>13. QED
  BY <1>11, <1>12

\* What the proofs use of a manifest and of the ledgers before its batches.
LedgersFollow(b, before) ==
  /\ IsVector(b)
  /\ Len(b) \in Nat
  /\ before[1] = genesis
  /\ \A k \in 1..Len(b) : /\ before[k + 1] = Execution(before[k], b[k].orders).post
                          /\ b[k].id \in 0..MaxId

LEMMA ManifestFacts ==
  ASSUME NEW b \in Manifests
  PROVE  LedgersFollow(b, LedgersBefore(genesis, b))
<1>1. IsVector(b) /\ \A k \in DOMAIN b : b[k].id \in 0..MaxId
  BY ManifestsOK
<1>2. Len(b) \in Nat /\ DOMAIN b = 1..Len(b)
  BY <1>1, VectorLength
<1>3. /\ LedgersBefore(genesis, b)[1] = genesis
      /\ \A k \in 1..Len(b) :
           LedgersBefore(genesis, b)[k + 1]
             = Execution(LedgersBefore(genesis, b)[k], b[k].orders).post
  BY <1>2, LedgersAreExecuted
<1>4. QED
  BY <1>1, <1>2, <1>3 DEF LedgersFollow

\* One iteration of the command's loop.
LEMMA BuildStepOK ==
  ASSUME SessionIInv, NEW b, NEW before, LedgersFollow(b, before), manifest.batches = b,
         Commanding(b, before), BuildStep
  PROVE  Commanding(b, before)'
<1> DEFINE m == Len(steps)
           k == m + 1
           out == Execution(ledger, b[k].orders)
<1>1. /\ stage = "building" /\ m < Len(b)
      /\ UNCHANGED <<initial, state, proofs, published, received, genesis, manifest>>
      /\ IF out.ok
         THEN /\ steps' = Append(steps, StepOf(k, current_root, out))
              /\ ledger' = out.post
              /\ current_root' = RootOf(out.post, b[k].instrument)
              /\ stage' = stage
         ELSE stage' = "failed" /\ UNCHANGED <<steps, ledger, current_root>>
  BY DEF BuildStep
<1>2. Building(b, before) /\ Proving(b, before)
  BY <1>1 DEF Commanding
<1>3. IsVector(steps) /\ m \in Nat /\ ledger = before[k] /\ k \in 1..Len(b) /\ Len(b) \in Nat
  <2>1. IsVector(steps) /\ ledger = before[k]
    BY <1>2 DEF Building
  <2>2. m \in Nat
    BY <2>1, VectorLength
  <2>3. QED
    BY <2>1, <2>2, <1>1 DEF LedgersFollow
<1>4. out = Execution(before[k], b[k].orders)
  BY <1>3
<1>5. proofs = << >> /\ Len(proofs) = 0
  BY <1>1, EmptyVector DEF SessionIInv
<1>6. CASE out.ok
  <2>1. /\ steps' = Append(steps, StepOf(k, current_root, out))
        /\ ledger' = out.post
        /\ current_root' = RootOf(out.post, b[k].instrument)
        /\ stage' = stage
    BY <1>1, <1>6
  <2> DEFINE e == StepOf(k, current_root, out)
  <2>2. e = StepFor(b, before, k)
    <3>1. current_root = RootOf(before[k], IF k = 1 THEN b[1].instrument
                                           ELSE b[k - 1].instrument)
      <4>1. (m = 0 <=> k = 1) /\ k - 1 = m /\ Len(b) # 0
        BY <1>3
      <4>2. QED
        BY <4>1, <1>2, <1>3 DEF Building
    <3> DEFINE root == current_root
    <3>2. ledger = before[k] /\ manifest.batches = b
      BY <1>3
    <3> HIDE DEF k
    <3>3. QED
      BY <3>1, <3>2, <1>4 DEF StepOf, StepFor
  <2> HIDE DEF e
  <2>3. /\ IsVector(steps')
        /\ Len(steps') = k
        /\ \A i \in 1..m : steps'[i] = steps[i]
        /\ steps'[k] = e
    BY <2>1, <1>3, AppendVector DEF e
  <2>4. ASSUME NEW i \in 1..k
        PROVE  ExecutesAt(b, before, i) /\ steps'[i] = StepFor(b, before, i)
    <3>1. CASE i = k
      <4>1. ExecutesAt(b, before, k)
        BY <1>4, <1>6 DEF ExecutesAt
      <4>2. QED
        BY <4>1, <3>1, <2>2, <2>3
    <3>2. CASE i # k
      <4>1. i \in 1..m
        BY <3>2, <1>3
      <4>2. QED
        BY <4>1, <1>2, <2>3 DEF Building
    <3>3. QED
      BY <3>1, <3>2
  <2>5. ledger' = before[k + 1]
    BY <2>1, <1>3, <1>4 DEF LedgersFollow
  <2>6. Building(b, before)'
    <3>1. Len(steps') <= Len(b) /\ Len(steps') # 0
      BY <2>3, <1>3
    <3> HIDE DEF k
    <3>2. QED
      BY <2>1, <2>3, <2>4, <2>5, <3>1 DEF Building
  <2>7. Proving(b, before)'
    <3>1. Len(proofs') <= Len(steps') /\ Len(proofs') = 0
      BY <1>1, <1>3, <1>5, <2>3
    <3>2. stage' = "building"
      BY <1>1, <2>1
    <3>3. QED
      BY <1>1, <1>2, <1>5, <3>1, <3>2 DEF Proving
  <2>8. QED
    BY <2>1, <2>6, <2>7, <1>1 DEF Commanding
<1>7. CASE ~out.ok
  <2>1. stage' = "failed" /\ UNCHANGED <<steps, ledger, current_root>>
    BY <1>1, <1>7
  <2>2. Building(b, before)'
    BY <2>1, <1>2 DEF Building
  <2>3. ~ExecutesAt(b, before, k)
    BY <1>4, <1>7 DEF ExecutesAt
  <2>4. Failing(b, before)'
    BY <2>1, <2>3, <1>1 DEF Failing
  <2>5. QED
    BY <2>1, <2>2, <2>4 DEF Commanding
<1>8. QED
  BY <1>6, <1>7

\* prove_session on the steps of the manifest, and verify_session after it.
LEMMA ProveManifestOK ==
  ASSUME SessionIInv, NEW b, NEW before, LedgersFollow(b, before),
         Commanding(b, before), ProveManifest
  PROVE  Commanding(b, before)'
<1> DEFINE j == Len(proofs)
           k == j + 1
<1>1. UNCHANGED <<genesis, manifest, ledger, current_root, steps>>
  BY DEF ProveManifest
<1>2. Building(b, before)'
  BY <1>1 DEF Commanding, Building
<1>3. IsVector(proofs) /\ j \in Nat
  BY VectorLength DEF SessionIInv, RecordOK
<1>4. ASSUME stage = "folding", j < Len(steps)
      PROVE  /\ j < MaxSteps /\ Folds(state, steps[k]) => ProvableAt(b, before, k)
             /\ ~Folds(state, steps[k]) => ~ProvableAt(b, before, k)
  <2>1. Building(b, before) /\ Proving(b, before)
    BY <1>4 DEF Commanding
  <2>2. QED
    BY <2>1, <1>4, FoldsExactlyProvable DEF LedgersFollow
<1>5. CASE j < Len(steps) /\ FoldStep({steps[k]})
  <2> DEFINE e == [version |-> 1, inputs |-> steps[k].inputs, well_formed |-> TRUE]
  <2>1. /\ stage = "folding" /\ j < MaxSteps
        /\ Folds(state, steps[k])
        /\ state' = Fold(state, steps[k])
        /\ proofs' = Append(proofs, e)
        /\ UNCHANGED <<stage, initial, published, received>>
    BY <1>5 DEF FoldStep
  <2>2. ProvableAt(b, before, k)
    BY <2>1, <1>4, <1>5
  <2>3. Building(b, before) /\ Proving(b, before)
    BY <2>1 DEF Commanding
  <2>4. Len(steps) = Len(b) /\ Len(b) \in Nat /\ MaxSteps \in Nat /\ k \in 1..Len(steps)
    BY <2>1, <2>3, <1>3, <1>5, ManifestsOK, IdWidth DEF Proving, LedgersFollow
  <2>5. state'.timestamp = k
    <3>1. steps[k] = StepFor(b, before, k)
      BY <2>3, <2>4 DEF Building
    <3>2. steps[k].timestamp = k
      BY <3>1 DEF StepFor
    <3>3. QED
      BY <3>2, <2>1 DEF Fold
  <2>6. e.inputs = steps[k].inputs
    OBVIOUS
  <2> HIDE DEF e
  <2>7. /\ Len(proofs') = k
        /\ \A i \in 1..j : proofs'[i] = proofs[i]
        /\ proofs'[k] = e
    BY <2>1, <1>3, AppendVector
  <2>8. ASSUME NEW i \in 1..k
        PROVE  ProvableAt(b, before, i) /\ proofs'[i].inputs = steps[i].inputs
    <3>1. CASE i = k
      BY <3>1, <2>2, <2>6, <2>7
    <3>2. CASE i # k
      <4>1. i \in 1..j
        BY <3>2, <1>3
      <4>2. QED
        BY <4>1, <2>3, <2>7 DEF Proving
    <3>3. QED
      BY <3>1, <3>2
  <2>9. Proving(b, before)'
    <3>1. k <= Len(steps) /\ k <= MaxSteps
      BY <2>1, <2>4, <1>3
    <3> HIDE DEF k
    <3>2. QED
      BY <2>1, <2>3, <2>4, <2>5, <2>7, <2>8, <3>1, <1>1 DEF Proving
  <2>10. QED
    BY <2>1, <2>9, <1>2 DEF Commanding
<1>6. CASE j < Len(steps) /\ RefuseSession({steps[k]})
  <2>1. /\ stage = "folding" /\ stage' = "refused"
        /\ ~Folds(state, steps[k])
        /\ state' = initial /\ proofs' = << >>
        /\ UNCHANGED <<initial, published, received>>
    BY <1>6 DEF RefuseSession
  <2>2. ~ProvableAt(b, before, k)
    BY <2>1, <1>4, <1>6
  <2>3. Building(b, before) /\ Proving(b, before)
    BY <2>1 DEF Commanding
  <2>4. /\ Len(steps) = Len(b) /\ Len(b) \in Nat /\ MaxSteps \in Nat /\ k \in 1..Len(b)
        /\ Len(proofs') = 0
    BY <2>1, <2>3, <1>3, <1>6, ManifestsOK, IdWidth, EmptyVector DEF Proving, LedgersFollow
  <2>5. state'.timestamp = 0
    BY <2>1, <2>3 DEF Proving, Genesis
  <2>6. \E i \in 1..Len(b) : ~ProvableAt(b, before, i)
    BY <2>2, <2>4
  <2>7. Len(proofs') <= Len(steps) /\ Len(proofs') <= MaxSteps /\ 1..Len(proofs') = {}
    BY <2>4
  <2>8. Proving(b, before)'
    BY <2>1, <2>3, <2>4, <2>5, <2>6, <2>7, <1>1 DEF Proving
  <2>9. QED
    BY <2>1, <2>8, <1>2 DEF Commanding
<1>7. CASE ~(j < Len(steps)) /\ (PublishSession \/ DeliverSession({}) \/ VerifyReceived)
  <2>1. /\ UNCHANGED <<initial, state, proofs>>
        /\ stage \in {"folding", "published", "delivered"}
        /\ stage' \in {"published", "delivered", "accepted", "rejected"}
    BY <1>7 DEF PublishSession, DeliverSession, VerifyReceived
  <2>2. Proving(b, before)
    BY <2>1 DEF Commanding
  <2>3. Len(steps) = Len(b) /\ j = Len(b)
    BY <2>1, <2>2, <1>3, <1>7 DEF Proving, LedgersFollow
  <2>4. stage' \in {"delivered", "accepted", "rejected"} => received' = published'
    BY <1>7, <2>2 DEF PublishSession, DeliverSession, VerifyReceived, Proving
  <2>5. Proving(b, before)'
    BY <2>1, <2>2, <2>3, <2>4, <1>1 DEF Proving
  <2>6. QED
    BY <2>1, <2>5, <1>2 DEF Commanding
<1>8. QED
  BY <1>5, <1>6, <1>7 DEF ProveManifest

LEMMA CommandInductive ==
  ASSUME SessionIInv, CommandIInv, [CommandNext]_commandVars
  PROVE  CommandIInv'
<1>1. CASE manifest = NoManifest /\ LoadManifest
  <2>1. stage # "building" /\ ledger = genesis /\ steps = << >>
    BY <1>1 DEF CommandIInv, NoManifest
  <2>2. PICK b : b = manifest'.batches
    OBVIOUS
  <2>3. PICK before : before = LedgersBefore(genesis, b)
    OBVIOUS
  <2>4. manifest'.loaded = TRUE /\ b \in Manifests
    BY <1>1, <2>2 DEF LoadManifest
  <2>5. LedgersFollow(b, before)
    BY <2>4, <2>3, ManifestFacts
  <2>6. /\ ledger' = ledger /\ steps' = << >> /\ genesis' = genesis
        /\ proofs' = << >> /\ IsVector(<< >>) /\ Len(<< >>) = 0
    BY <1>1, <2>1, EmptyVector DEF LoadManifest
  <2>7. LedgersBefore(genesis, manifest.batches)' = before
    BY <2>2, <2>6, <2>3
  <2>8. CASE b = << >>
    <3>1. stage' = "failed"
      BY <1>1, <2>2, <2>8 DEF LoadManifest
    <3>2. Commanding(b, before)'
      BY <3>1, <2>1, <2>5, <2>6, <2>8
         DEF Commanding, Building, Failing, LedgersFollow
    <3>3. QED
      BY <3>2, <2>2, <2>4, <2>7
         DEF CommandIInv, Commanding, Building, Failing, Proving
  <2>9. CASE b # << >>
    <3>1. /\ stage' = "building"
          /\ initial' = Genesis(RootOf(genesis, b[1].instrument), b[1].instrument)
          /\ state' = initial'
          /\ current_root' = initial'.ledger_root
      BY <1>1, <2>1, <2>2, <2>9 DEF LoadManifest
    <3>2. current_root' = RootOf(genesis, b[1].instrument) /\ state'.timestamp = 0
      BY <3>1 DEF Genesis
    <3>3. Len(b) \in Nat /\ Len(b) > 0
      <4>1. Len(b) \in Nat /\ IsVector(b)
        BY <2>5 DEF LedgersFollow
      <4>2. Len(b) # 0
        BY <4>1, <2>9 DEF IsVector
      <4>3. QED
        BY <4>1, <4>2
    <3>4. Building(b, before)'
      BY <3>1, <3>2, <3>3, <2>1, <2>5, <2>6 DEF Building, LedgersFollow
    <3>5. Proving(b, before)'
      BY <3>1, <3>2, <3>3, <2>6, ManifestsOK, IdWidth DEF Proving
    <3>6. Commanding(b, before)'
      BY <3>1, <3>4, <3>5 DEF Commanding
    <3>7. QED
      BY <3>6, <2>2, <2>4, <2>7
         DEF CommandIInv, Commanding, Building, Failing, Proving
  <2>10. QED
    BY <2>8, <2>9
<1>2. CASE manifest = NoManifest /\ ~LoadManifest
  <2>1. ~(stage = "building") /\ ledger = genesis /\ steps = << >>
    BY <1>2 DEF CommandIInv, NoManifest
  <2>2. \/ ~Running /\ UseLibrary
        \/ UNCHANGED commandVars
    BY <1>2, <2>1 DEF CommandNext, BuildStep, CallProver, Running, NoManifest
  <2>3. stage' # "building"
    BY <2>1, <2>2 DEF UseLibrary, LibraryNext, FoldStep, RefuseSession,
       PublishSession, DeliverSession, VerifyReceived, commandVars, sessionVars
  <2>4. UNCHANGED <<genesis, manifest, ledger, steps>>
    BY <2>2 DEF UseLibrary, commandVars
  <2>5. QED
    BY <1>2, <2>1, <2>3, <2>4 DEF CommandIInv
<1>3. CASE manifest # NoManifest
  <2>1. /\ manifest.loaded = TRUE
        /\ manifest.batches \in Manifests
        /\ Commanding(manifest.batches, LedgersBefore(genesis, manifest.batches))
    BY <1>3 DEF CommandIInv
  <2>2. PICK b : b = manifest.batches
    OBVIOUS
  <2>3. PICK before : before = LedgersBefore(genesis, b)
    OBVIOUS
  <2>4. LedgersFollow(b, before) /\ Commanding(b, before) /\ b \in Manifests
    BY <2>1, <2>2, <2>3, ManifestFacts
  <2>5. \/ BuildStep \/ CallProver \/ ProveManifest \/ UNCHANGED commandVars
    BY <2>1 DEF CommandNext, LoadManifest, Running
  <2>6. UNCHANGED <<genesis, manifest>>
    BY <2>5 DEF BuildStep, CallProver, ProveManifest, commandVars
  <2>7. Commanding(b, before)'
    <3>1. CASE BuildStep
      BY <3>1, <2>2, <2>4, BuildStepOK
    <3>2. CASE CallProver
      <4>1. /\ stage = "building" /\ stage' = "folding"
            /\ Len(steps) = Len(manifest.batches)
            /\ UNCHANGED <<initial, state, proofs, published, received, genesis,
                           manifest, ledger, current_root, steps>>
        BY <3>2 DEF CallProver
      <4>2. Building(b, before) /\ Proving(b, before)
        BY <4>1, <2>4 DEF Commanding
      <4>3. Building(b, before)'
        BY <4>1, <4>2 DEF Building
      <4>4. Proving(b, before)'
        BY <4>1, <4>2, <2>2 DEF Proving
      <4>5. QED
        BY <4>1, <4>3, <4>4 DEF Commanding
    <3>3. CASE ProveManifest
      BY <3>3, <2>4, ProveManifestOK
    <3>4. CASE UNCHANGED commandVars
      <4>1. UNCHANGED <<stage, initial, state, proofs, published, received, genesis,
                        manifest, ledger, current_root, steps>>
        BY <3>4 DEF commandVars, sessionVars
      <4>2. Building(b, before)'
        BY <4>1, <2>4 DEF Building, Commanding
      <4>3. (stage = "failed" => Failing(b, before))'
        BY <4>1, <2>4 DEF Failing, Commanding
      <4>4. (stage # "failed" => Proving(b, before))'
        BY <4>1, <2>4 DEF Proving, Commanding
      <4>5. QED
        BY <4>2, <4>3, <4>4 DEF Commanding
    <3>5. QED
      BY <2>5, <3>1, <3>2, <3>3, <3>4
  <2>8. manifest'.batches = b /\ LedgersBefore(genesis, manifest.batches)' = before
    BY <2>2, <2>3, <2>6
  <2>9. QED
    BY <2>1, <2>4, <2>6, <2>7, <2>8
       DEF CommandIInv, Commanding, Building, Failing, Proving
<1>4. QED
  BY <1>1, <1>2, <1>3

(***************************************************************************)
(* cmd_prove_session with --verify ends in success exactly for a manifest  *)
(* of at least one batch whose ids count from 1, of one instrument, each   *)
(* executed and taken by the prover on the ledger the ones before it left; *)
(* it fails if a batch does not execute and is refused otherwise.          *)
(***************************************************************************)
THEOREM CommandSucceedsOnSessions == CommandSpec => []CommandProvesExactlySessions
<1>1. CommandInit => SessionIInv /\ CommandIInv
  BY SessionInitOK DEF CommandInit, CommandIInv, SessionInit
<1>2. SessionIInv /\ CommandIInv /\ [CommandNext]_commandVars
        => SessionIInv' /\ CommandIInv'
  BY SessionInductive, CommandInductive
<1>3. SessionIInv /\ CommandIInv => CommandProvesExactlySessions
  <2>1. SUFFICES ASSUME SessionIInv, CommandIInv, Running,
                        stage \in {"failed", "refused", "accepted", "rejected"}
                 PROVE  CommandProvesExactlySessions
    BY DEF CommandProvesExactlySessions
  <2> DEFINE b == manifest.batches
             n == Len(b)
             before == LedgersBefore(genesis, b)
  <2>2. b \in Manifests /\ Commanding(b, before)
    BY <2>1 DEF CommandIInv, Running, NoManifest
  <2>3. LedgersFollow(b, before)
    BY <2>2, ManifestFacts
  <2>4. n \in Nat /\ IsVector(steps) /\ Len(steps) \in Nat
    BY <2>2, <2>3, VectorLength DEF LedgersFollow, Commanding, Building
  <2>5. stage = IF n = 0 \/ \E k \in 1..n : ~ExecutesAt(b, before, k) THEN "failed"
                ELSE IF \E k \in 1..n : ~ProvableAt(b, before, k) THEN "refused"
                ELSE "accepted"
    <3> HIDE DEF b, before, n
    <3>1. CASE stage = "failed"
      <4>1. n = 0 \/ (Len(steps) < n /\ ~ExecutesAt(b, before, Len(steps) + 1))
        BY <3>1, <2>2 DEF Commanding, Failing, n
      <4>2. Len(steps) < n => Len(steps) + 1 \in 1..n
        BY <2>4
      <4>3. QED
        BY <3>1, <4>1, <4>2
    <3>2. CASE stage # "failed"
      <4>1. Building(b, before) /\ Proving(b, before)
        BY <3>2, <2>2 DEF Commanding
      <4>2. n # 0 /\ Len(steps) = n
        BY <4>1, <2>1, <2>4 DEF Proving, n
      <4>3. \A k \in 1..n : ExecutesAt(b, before, k)
        BY <4>1, <4>2 DEF Building
      <4>4. stage # "rejected"
        <5>1. AcceptsThePublishedSession
          BY <2>1, PublishedVerifies
        <5>2. stage = "rejected" => received = published
          BY <4>1 DEF Proving
        <5>3. QED
          BY <5>1, <5>2 DEF AcceptsThePublishedSession
      <4>5. CASE stage = "refused"
        <5>1. \E k \in 1..n : ~ProvableAt(b, before, k)
          BY <4>1, <4>5 DEF Proving, n
        <5>2. QED
          BY <5>1, <4>2, <4>3, <4>5
      <4>6. CASE stage = "accepted"
        <5>1. Len(proofs) = n /\ \A k \in 1..Len(proofs) : ProvableAt(b, before, k)
          BY <4>1, <4>6 DEF Proving, n
        <5>2. QED
          BY <5>1, <4>2, <4>3, <4>6
      <4>7. QED
        BY <2>1, <3>2, <4>4, <4>5, <4>6
    <3>3. QED
      BY <3>1, <3>2
  <2>6. QED
    BY <2>5 DEF CommandProvesExactlySessions, ExecutesAt, ProvableAt, LedgersBefore
<1>4. QED
  BY <1>1, <1>2, <1>3, PTL DEF CommandSpec
=============================================================================
