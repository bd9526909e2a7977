-------------------------- MODULE StatementProofs --------------------------
(***************************************************************************)
(* The single-batch statement, for every batch, every ledger and every     *)
(* claim.  First what a ledger's root fixes, and the invariant: who        *)
(* published and submitted what.  Then what prove and verify conclude: the *)
(* manifest accounts for every leaf, the circuit repeats the plaintext     *)
(* checks, and an execution is certified.                                  *)
(***************************************************************************)
EXTENDS Statement, CheckerProofs

----------------------------------------------------------------------------
(***************************************************************************)
(* The leaves of a ledger: its accounts by ascending id, each once.        *)
(***************************************************************************)
Ascending(ids, S) ==
  /\ ids \in [1..Cardinality(S) -> S]
  /\ \A j, k \in 1..Cardinality(S) : j < k => ids[j] < ids[k]

LEMMA FiniteBelow ==
  ASSUME NEW N \in Nat, NEW S, S \subseteq 1..N
  PROVE  IsFiniteSet(S) /\ Cardinality(S) \in Nat
<1>1. IsFiniteSet(1..N)
  BY FS_Interval
<1>2. IsFiniteSet(S)
  BY <1>1, FS_Subset
<1>3. QED
  BY <1>2, FS_CardinalityType

LEMMA AscendingExists ==
  ASSUME NEW N \in Nat, NEW S, S \subseteq 1..N
  PROVE  \E ids : Ascending(ids, S)
<1> DEFINE T == {n \in Nat : \A R \in SUBSET (1..n) : \E ids : Ascending(ids, R)}
<1>1. 0 \in T
  <2>1. ASSUME NEW R \in SUBSET (1..0) PROVE \E ids : Ascending(ids, R)
    <3>1. R = {}
      OBVIOUS
    <3>2. Cardinality(R) = 0
      BY <3>1, FS_EmptySet
    <3> DEFINE e == [k \in 1..0 |-> k]
    <3>3. e \in [1..0 -> R]
      OBVIOUS
    <3>4. \A j, k \in 1..0 : j < k => e[j] < e[k]
      OBVIOUS
    <3> HIDE DEF e
    <3>5. Ascending(e, R)
      BY <3>2, <3>3, <3>4 DEF Ascending
    <3>6. QED
      BY <3>5
  <2>2. QED
    BY <2>1
<1>2. ASSUME NEW n \in T PROVE n + 1 \in T
  <2>1. n \in Nat /\ \A R \in SUBSET (1..n) : \E ids : Ascending(ids, R)
    OBVIOUS
  <2>2. ASSUME NEW R \in SUBSET (1..(n + 1)) PROVE \E ids : Ascending(ids, R)
    <3>1. CASE n + 1 \notin R
      <4>1. R \subseteq 1..n
        BY <2>1, <3>1
      <4>2. QED
        BY <4>1, <2>1
    <3>2. CASE n + 1 \in R
      <4> DEFINE Q == R \ {n + 1}
      <4>1. Q \subseteq 1..n
        BY <2>1
      <4>2. PICK q : Ascending(q, Q)
        BY <4>1, <2>1
      <4>3. IsFiniteSet(R) /\ Cardinality(R) \in Nat
        <5>1. n + 1 \in Nat /\ R \subseteq 1..(n + 1)
          BY <2>1
        <5>2. QED
          BY <5>1, FiniteBelow
      <4>4. Cardinality(Q) \in Nat
        BY <2>1, <4>1, FiniteBelow
      <4>5. Cardinality(Q) = Cardinality(R) - 1
        BY <3>2, <4>3, FS_RemoveElement
      <4>6. PICK c \in Nat : c = Cardinality(Q) /\ Cardinality(R) = c + 1
        BY <4>3, <4>4, <4>5
      <4>7. /\ q \in [1..c -> Q]
            /\ \A j, k \in 1..c : j < k => q[j] < q[k]
        BY <4>2, <4>6 DEF Ascending
      <4>8. \A x \in Q : x \in R /\ x \in Nat /\ x < n + 1
        BY <2>1, <4>1
      <4> DEFINE e == [k \in 1..(c + 1) |-> IF k = c + 1 THEN n + 1 ELSE q[k]]
      <4> HIDE DEF Q
      <4>9. e \in [1..(c + 1) -> R]
        BY <3>2, <4>7, <4>8
      <4>10. ASSUME NEW j \in 1..(c + 1), NEW k \in 1..(c + 1), j < k
             PROVE  e[j] < e[k]
        <5>1. j \in 1..c /\ e[j] = q[j] /\ q[j] \in Q
          BY <4>7, <4>10
        <5>2. CASE k = c + 1
          <6>1. e[k] = n + 1
            BY <5>2
          <6> HIDE DEF e
          <6>2. QED
            BY <5>1, <6>1, <4>8
        <5>3. CASE k # c + 1
          <6>1. k \in 1..c /\ e[k] = q[k]
            BY <5>3
          <6> HIDE DEF e
          <6>2. QED
            BY <5>1, <6>1, <4>7, <4>10
        <5>4. QED
          BY <5>2, <5>3
      <4> HIDE DEF e
      <4>11. Ascending(e, R)
        BY <4>6, <4>9, <4>10 DEF Ascending
      <4>12. QED
        BY <4>11
    <3>3. QED
      BY <3>1, <3>2
  <2>3. QED
    BY <2>1, <2>2
<1>3. T = Nat
  <2> HIDE DEF T
  <2>1. T \in SUBSET Nat
    BY DEF T
  <2>2. QED
    BY <2>1, <1>1, <1>2, SetInduction
<1>4. N \in T
  BY <1>3
<1>5. QED
  BY <1>4

\* An ascending list of a finite set reaches all of it.
LEMMA AscendingCovers ==
  ASSUME NEW N \in Nat, NEW S, S \subseteq 1..N, NEW ids, Ascending(ids, S)
  PROVE  /\ \A j, k \in 1..Cardinality(S) : ids[j] = ids[k] => j = k
         /\ \A a \in S : \E k \in 1..Cardinality(S) : ids[k] = a
<1>1. IsFiniteSet(S) /\ Cardinality(S) \in Nat
  BY FiniteBelow
<1>2. PICK c \in Nat : c = Cardinality(S)
  BY <1>1
<1>3. /\ ids \in [1..c -> S]
      /\ \A j, k \in 1..c : j < k => ids[j] < ids[k]
  BY <1>2 DEF Ascending
<1>4. ASSUME NEW j \in 1..c, NEW k \in 1..c, ids[j] = ids[k] PROVE j = k
  <2>1. ids[j] \in 1..N /\ ids[k] \in 1..N
    <3>1. ids[j] \in S /\ ids[k] \in S
      BY <1>3
    <3>2. QED
      BY <3>1
  <2>2. ~(j < k) /\ ~(k < j)
    BY <1>3, <1>4, <2>1
  <2>3. QED
    BY <2>2
<1>5. ids \in Injection(1..c, S)
  BY <1>3, <1>4, Fun_IsInj
<1>6. Cardinality(1..c) = c
  BY FS_Interval
<1>7. ids \in Surjection(1..c, S)
  BY <1>1, <1>2, <1>5, <1>6, FS_Injection
<1>8. \A a \in S : \E k \in 1..c : ids[k] = a
  BY <1>7, Fun_SurjectionProperties
<1>9. QED
  BY <1>2, <1>4, <1>8

LEMMA ListedAccountsAre ==
  ASSUME NEW l, l.accounts \subseteq Account
  PROVE  /\ Ascending(ListedAccounts(l), l.accounts)
         /\ Cardinality(l.accounts) \in Nat
         /\ Len(ListedAccounts(l)) = Cardinality(l.accounts)
<1>1. NumAccounts \in Nat /\ l.accounts \subseteq 1..NumAccounts
  BY AccountRange DEF Account
<1>2. Cardinality(l.accounts) \in Nat
  BY <1>1, FiniteBelow
<1>3. \E ids : Ascending(ids, l.accounts)
  BY <1>1, AscendingExists
<1>4. Ascending(ListedAccounts(l), l.accounts)
  BY <1>3 DEF Ascending, ListedAccounts
<1>5. ListedAccounts(l) \in [1..Cardinality(l.accounts) -> l.accounts]
  BY <1>4 DEF Ascending
<1>6. QED
  BY <1>2, <1>4, <1>5

\* compute_ledger_root's leaves: as many as there are accounts, each account's
\* at one position.
LEMMA LedgerLeavesAre ==
  ASSUME NEW l, l.accounts \subseteq Account, NEW x
  PROVE  /\ Vector(LedgerLeaves(l, x))
         /\ Tagged(LedgerLeaves(l, x), {"leaf"})
         /\ Len(LedgerLeaves(l, x)) = Cardinality(l.accounts)
         /\ \A k \in 1..Cardinality(l.accounts) :
              /\ ListedAccounts(l)[k] \in l.accounts
              /\ LedgerLeaves(l, x)[k] = AccountLeaf(l, x, ListedAccounts(l)[k])
         /\ \A a \in l.accounts :
              \E k \in 1..Cardinality(l.accounts) : ListedAccounts(l)[k] = a
<1>1. PICK c \in Nat : c = Cardinality(l.accounts)
  BY ListedAccountsAre
<1>2. PICK ids : ids = ListedAccounts(l)
  OBVIOUS
<1>3. Ascending(ids, l.accounts) /\ Len(ids) = c
  BY <1>1, <1>2, ListedAccountsAre
<1>4. ids \in [1..c -> l.accounts]
  BY <1>1, <1>3 DEF Ascending
<1>5. PICK s : s = LedgerLeaves(l, x)
  OBVIOUS
<1>6. s = [k \in 1..c |-> AccountLeaf(l, x, ids[k])]
  BY <1>2, <1>3, <1>5 DEF LedgerLeaves
<1>7. \A k \in 1..c : s[k] = AccountLeaf(l, x, ids[k]) /\ ids[k] \in l.accounts
  BY <1>4, <1>6
<1>8. s = [k \in 1..c |-> s[k]]
  BY <1>6
<1>9. Vector(s) /\ Len(s) = c
  BY <1>8 DEF Vector
<1>10. Tagged(s, {"leaf"})
  BY <1>7, <1>9 DEF Tagged, AccountLeaf, CommitRaw
<1>11. \A a \in l.accounts : \E k \in 1..c : ids[k] = a
  <2>1. NumAccounts \in Nat /\ l.accounts \subseteq 1..NumAccounts
    BY AccountRange DEF Account
  <2>2. QED
    BY <1>1, <1>3, <2>1, AscendingCovers
<1>12. QED
  BY <1>1, <1>2, <1>5, <1>7, <1>9, <1>10, <1>11

\* Two leaves are equal only if they are of the same account, in the same
\* instrument, with the same holdings and the same blinding.
LEMMA AccountLeafInjective ==
  ASSUME NEW l, NEW m, NEW x, NEW y, NEW a, NEW b,
         AccountLeaf(l, x, a) = AccountLeaf(m, y, b)
  PROVE  /\ a = b /\ x = y
         /\ l.cash[a] = m.cash[b] /\ l.inv[x][a] = m.inv[y][b]
         /\ (a \in l.blinded) = (b \in m.blinded)
<1>1. AccountLeaf(l, x, a)[2] = AccountLeaf(m, y, b)[2]
  OBVIOUS
<1>2. <<"account", a, l.cash[a], x, l.inv[x][a], a \in l.blinded>>
        = <<"account", b, m.cash[b], y, m.inv[y][b], b \in m.blinded>>
  BY <1>1 DEF AccountLeaf, CommitRaw
<1>3. QED
  BY <1>2

\* A ledger root is that of one set of accounts with one set of balances.
SameBalances(l, m, x) ==
  /\ l.accounts = m.accounts
  /\ \A a \in l.accounts :
       /\ l.cash[a] = m.cash[a]
       /\ l.inv[x][a] = m.inv[x][a]
       /\ a \in l.blinded <=> a \in m.blinded

LEMMA LedgerRootFixes ==
  ASSUME NEW l, NEW m, l.accounts \subseteq Account, m.accounts \subseteq Account,
         NEW x, LedgerRoot(l, x) = LedgerRoot(m, x)
  PROVE  SameBalances(l, m, x)
<1>1. PICK s, t : s = LedgerLeaves(l, x) /\ t = LedgerLeaves(m, x)
  OBVIOUS
<1>2. PICK c \in Nat, d \in Nat : c = Cardinality(l.accounts) /\ d = Cardinality(m.accounts)
  BY ListedAccountsAre
<1>3. PICK ids, jds : ids = ListedAccounts(l) /\ jds = ListedAccounts(m)
  OBVIOUS
<1>4. /\ Vector(s) /\ Tagged(s, {"leaf"}) /\ Len(s) = c
      /\ \A k \in 1..c : ids[k] \in l.accounts /\ s[k] = AccountLeaf(l, x, ids[k])
      /\ \A a \in l.accounts : \E k \in 1..c : ids[k] = a
  BY <1>1, <1>2, <1>3, LedgerLeavesAre, SMTT(30)
<1>5. /\ Vector(t) /\ Tagged(t, {"leaf"}) /\ Len(t) = d
      /\ \A k \in 1..d : jds[k] \in m.accounts /\ t[k] = AccountLeaf(m, x, jds[k])
      /\ \A a \in m.accounts : \E k \in 1..d : jds[k] = a
  BY <1>1, <1>2, <1>3, LedgerLeavesAre, ZenonT(60)
<1>6. MerkleRoot(s) = MerkleRoot(t)
  BY <1>1 DEF LedgerRoot
<1>7. s = t /\ c = d
  BY <1>4, <1>5, <1>6, RootFixesLeaves
<1>8. ASSUME NEW k \in 1..c
      PROVE  /\ ids[k] = jds[k]
             /\ l.cash[ids[k]] = m.cash[ids[k]]
             /\ l.inv[x][ids[k]] = m.inv[x][ids[k]]
             /\ ids[k] \in l.blinded <=> ids[k] \in m.blinded
  <2>1. AccountLeaf(l, x, ids[k]) = AccountLeaf(m, x, jds[k])
    BY <1>4, <1>5, <1>7
  <2>2. QED
    BY <2>1, AccountLeafInjective
<1>9. l.accounts = m.accounts
  <2>1. \A k \in 1..c : ids[k] = jds[k]
    BY <1>8
  <2>2. ASSUME NEW a \in l.accounts PROVE a \in m.accounts
    <3>1. PICK k \in 1..c : ids[k] = a
      BY <1>4
    <3>2. jds[k] \in m.accounts
      BY <1>5, <1>7
    <3>3. QED
      BY <2>1, <3>1, <3>2
  <2>3. ASSUME NEW a \in m.accounts PROVE a \in l.accounts
    <3>1. PICK k \in 1..c : jds[k] = a
      BY <1>5, <1>7
    <3>2. ids[k] \in l.accounts
      BY <1>4
    <3>3. QED
      BY <2>1, <3>1, <3>2
  <2>4. QED
    BY <2>2, <2>3
<1>10. ASSUME NEW a \in l.accounts
       PROVE  /\ l.cash[a] = m.cash[a] /\ l.inv[x][a] = m.inv[x][a]
              /\ a \in l.blinded <=> a \in m.blinded
  BY <1>4, <1>8, SMTT(30)
<1>11. QED
  BY <1>9, <1>10 DEF SameBalances

\* ledger_account_proof: an account's own leaf, with a path that leads to the
\* ledger's root from that leaf and from no other account's.
LEMMA AccountProofs ==
  ASSUME NEW l, l.accounts \subseteq Account, NEW x, NEW a \in l.accounts
  PROVE  /\ LedgerAccountProof(l, x, a).leaf = AccountLeaf(l, x, a)
         /\ \A b \in l.accounts :
              VerifyProof(LedgerAccountProof(l, x, a).path, LedgerRoot(l, x),
                          AccountLeaf(l, x, b)) <=> b = a
<1>1. PICK s, ids : s = LedgerLeaves(l, x) /\ ids = ListedAccounts(l)
  OBVIOUS
<1>2. PICK c \in Nat : c = Cardinality(l.accounts)
  BY ListedAccountsAre
<1>3. /\ Vector(s) /\ Len(s) = c /\ Len(ids) = c
      /\ \A k \in 1..c : s[k] = AccountLeaf(l, x, ids[k])
      /\ \E k \in 1..c : ids[k] = a
  BY <1>1, <1>2, LedgerLeavesAre, ListedAccountsAre
<1> DEFINE position == CHOOSE k \in 1..Len(ids) : ids[k] = a
<1>4. position \in 1..c /\ ids[position] = a
  BY <1>3
<1>5. PICK p \in 1..c : p = position
  BY <1>4
<1>6. LedgerAccountProof(l, x, a) = [leaf |-> s[p], path |-> GenerateProof(s, p - 1)]
  BY <1>1, <1>5 DEF LedgerAccountProof
<1> HIDE DEF position
<1>7. s[p] = AccountLeaf(l, x, a)
  BY <1>3, <1>4, <1>5
<1>8. p - 1 \in 0..(Len(s) - 1) /\ (p - 1) + 1 = p
  BY <1>3
<1>9. ASSUME NEW b \in l.accounts
      PROVE  VerifyProof(GenerateProof(s, p - 1), MerkleRoot(s), AccountLeaf(l, x, b))
               <=> b = a
  <2>1. VerifyProof(GenerateProof(s, p - 1), MerkleRoot(s), AccountLeaf(l, x, b))
          <=> AccountLeaf(l, x, b) = s[(p - 1) + 1]
    BY <1>3, <1>8, PathLeads
  <2>2. s[(p - 1) + 1] = AccountLeaf(l, x, a)
    BY <1>7, <1>8
  <2>3. AccountLeaf(l, x, b) = AccountLeaf(l, x, a) => b = a
    BY AccountLeafInjective
  <2>4. QED
    BY <2>1, <2>2, <2>3
<1>10. LedgerRoot(l, x) = MerkleRoot(s)
  BY <1>1 DEF LedgerRoot
<1>11. QED
  BY <1>6, <1>7, <1>9, <1>10

----------------------------------------------------------------------------
(***************************************************************************)
(* The claims.  A witness is sound when it is what BatchProofWitness can   *)
(* hold; the published one is, and so is each that is submitted instead.   *)
(***************************************************************************)
SoundWitness(w) ==
  /\ WellFormed(w.pre) /\ WellFormed(w.post)
  /\ w.instrument \in Instruments /\ w.cutoff \in Nat
  /\ WellFormedBatch(w.orders) /\ DistinctIds(w.orders)
  /\ \A i \in 1..Len(w.orders) :
       w.orders[i].account \in Account /\ w.orders[i].instrument = w.instrument
  /\ Vector(w.preimages)
  /\ \A i \in 1..Len(w.preimages) :
       w.preimages[i] = [order |-> w.preimages[i].order, nonce |-> w.preimages[i].nonce]
  /\ IsOracle(w.oracle)
  /\ {"records", "total_committed"} \subseteq DOMAIN w.accounting
  /\ \A k \in 1..Len(w.accounting.records) :
       w.accounting.records[k].leaf_index \in Nat

LEMMA SoundAccounts ==
  ASSUME NEW w, SoundWitness(w)
  PROVE  w.pre.accounts \subseteq Account /\ w.post.accounts \subseteq Account
  BY DEF SoundWitness, WellFormed, LedgerType

LEMMA SubmittedWitness ==
  ASSUME NEW w, IsWitness(w)
  PROVE  SoundWitness(w)
<1>1. /\ WellFormed(w.pre) /\ WellFormed(w.post)
      /\ w.instrument \in Instruments /\ w.cutoff \in Nat
      /\ {"records", "total_committed"} \subseteq DOMAIN w.accounting
      /\ \A k \in 1..Len(w.accounting.records) :
           w.accounting.records[k].leaf_index \in Nat
  BY DEF IsWitness
<1>2. PICK b : b = w.orders
  OBVIOUS
<1>3. b \in Seq(Range(b)) /\ Len(b) \in Nat /\ BatchError(b, w.instrument) = "ok"
  BY <1>2 DEF IsWitness
<1>4. \A i \in 1..Len(b) : OrderError(b, i, w.instrument) = "ok"
  BY <1>3, NoOrderError
<1>5. ASSUME NEW i \in 1..Len(b)
      PROVE  /\ WellFormedOrder(b[i])
             /\ b[i].account \in Account /\ b[i].instrument = w.instrument
  <2>1. /\ b[i].id \in Nat /\ b[i].seq \in Nat
        /\ b[i].price \in Qty /\ b[i].qty \in Qty /\ b[i].account \in Account
    BY <1>2 DEF IsWitness
  <2>2. /\ b[i].side \in Sides /\ b[i].price # 0 /\ b[i].qty # 0
        /\ b[i].instrument = w.instrument
    BY <1>4 DEF OrderError
  <2>3. QED
    BY <2>1, <2>2, WordWidth DEF WellFormedOrder, Price, Qty
<1>6. ASSUME NEW i \in 1..Len(b), NEW j \in 1..Len(b), j < i PROVE b[i].id # b[j].id
  <2>1. j \in 1..(i - 1)
    BY <1>6
  <2>2. QED
    BY <1>4, <2>1 DEF OrderError
<1>7. ASSUME NEW i \in 1..Len(b), NEW j \in 1..Len(b), i # j PROVE b[i].id # b[j].id
  <2>1. i < j \/ j < i
    BY <1>7
  <2>2. QED
    BY <1>6, <2>1
<1>8. WellFormedBatch(b)
  <2>1. b \in Seq({b[i] : i \in 1..Len(b)})
    BY <1>3
  <2>2. QED
    BY <1>3, <1>5, <2>1 DEF WellFormedBatch
<1>9. PICK v : v = w.preimages
  OBVIOUS
<1>10. v \in Seq({[order |-> p.order, nonce |-> p.nonce] : p \in Range(v)})
  BY <1>9 DEF IsWitness
<1>11. Vector(v)
  <2>1. Len(v) \in Nat /\ v = [i \in 1..Len(v) |-> v[i]]
    BY <1>10
  <2>2. QED
    BY <2>1 DEF Vector
<1>12. ASSUME NEW i \in 1..Len(v) PROVE v[i] = [order |-> v[i].order, nonce |-> v[i].nonce]
  <2>1. v[i] \in {[order |-> p.order, nonce |-> p.nonce] : p \in Range(v)}
    BY <1>10
  <2>2. PICK p \in Range(v) : v[i] = [order |-> p.order, nonce |-> p.nonce]
    BY <2>1
  <2>3. QED
    BY <2>2
<1>13. IsOracle(w.oracle)
  BY DEF IsWitness
<1>14. DistinctIds(b)
  BY <1>7 DEF DistinctIds
<1>15. QED
  BY <1>1, <1>2, <1>5, <1>8, <1>9, <1>11, <1>12, <1>13, <1>14 DEF SoundWitness

LEMMA PublishedWitness ==
  ASSUME CheckerIInv, honest # None, NEW oracle \in Oracles, NEW cutoff \in Cutoffs
  PROVE  SoundWitness(StatementOf(pre, honest, oracle, cutoff).witness)
<1>1. PICK w : w = StatementOf(pre, honest, oracle, cutoff).witness
  OBVIOUS
<1> DEFINE images == [i \in 1..Len(batch) |-> [order |-> batch[i], nonce |-> i]]
<1>2. /\ w.pre = pre /\ w.post = honest.post /\ w.orders = batch
      /\ w.instrument = inst /\ w.cutoff = cutoff
      /\ w.preimages = images /\ w.oracle = oracle
      /\ w.accounting = BuildAccounting(images, honest.alloc)
  BY <1>1 DEF StatementOf
<1>3. /\ ClearingIInv /\ stage = "executed" /\ WellFormed(pre) /\ inst \in Instruments
      /\ honest.post = ApplyBatchTransition(pre, result.fills).ledger
  BY DEF CheckerIInv, HonestIsTheExecution
<1>4. WellFormedBatch(batch) /\ Len(batch) \in Nat /\ DistinctIds(batch)
  BY <1>3, ExecutedOutcome DEF WellFormedBatch
<1>5. \A i \in 1..Len(batch) : batch[i].account \in Account /\ batch[i].instrument = inst
  <2>1. \A i \in 1..Len(batch) : batch[i].account \in Account
    BY <1>3, OrderAccounts DEF Orders
  <2>2. \A i \in 1..Len(batch) : batch[i].instrument = inst
    BY <1>3 DEF ClearingIInv, BatchIsWellFormed, Orders
  <2>3. QED
    BY <2>1, <2>2
<1>6. Vector(images) /\ Len(images) = Len(batch)
      /\ \A i \in 1..Len(batch) : images[i] = [order |-> batch[i], nonce |-> i]
  <2>1. images = [i \in 1..Len(batch) |-> images[i]] /\ Len(images) = Len(batch)
    BY <1>4
  <2>2. Vector(images)
    <3> HIDE DEF images
    <3>1. QED
      BY <1>4, <2>1 DEF Vector
  <2>3. QED
    BY <2>1, <2>2
<1>7. WellFormed(honest.post)
  <2>1. Executes(batch, inst, sorted, result)
    BY <1>3, ResultExecutes
  <2>2. /\ result.fills \in Seq(FillType)
        /\ \A k \in 1..Len(result.fills) :
             result.fills[k].consideration >= 1 /\ result.fills[k].instrument = inst
    BY <1>3, <1>5, <2>1, ExecutionFillTypes, SMTT(30)
  <2>3. QED
    BY <1>3, <2>2, TransitionLedger
<1>8. IsOracle(oracle) /\ cutoff \in Nat
  BY OraclesOK
<1>9. /\ {"records", "total_committed"} \subseteq DOMAIN w.accounting
      /\ \A k \in 1..Len(w.accounting.records) :
           w.accounting.records[k].leaf_index \in Nat
  <2> HIDE DEF images
  <2>1. Len(images) \in Nat
    BY <1>4, <1>6
  <2>2. QED
    BY <1>2, <2>1, BuiltAccounting
<1>10. SoundWitness(w)
  <2>1. \A i \in 1..Len(w.preimages) :
          w.preimages[i] = [order |-> w.preimages[i].order, nonce |-> w.preimages[i].nonce]
    BY <1>2, <1>6
  <2>2. Vector(w.preimages)
    BY <1>2, <1>6
  <2> HIDE DEF images
  <2>3. QED
    BY <1>2, <1>3, <1>4, <1>5, <1>7, <1>8, <1>9, <2>1, <2>2 DEF SoundWitness
<1>11. QED
  BY <1>1, <1>10

----------------------------------------------------------------------------
(***************************************************************************)
(* The inductive invariant.  What is published is the statement of the     *)
(* execution, a claim is that statement or a witness someone filled in, a  *)
(* verdict is what prove says of the claim for sorts it may meet, and the  *)
(* verifier has compared the inputs.                                       *)
(***************************************************************************)
StatementIsPublished ==
  statement # None =>
    /\ honest # None
    /\ \E oracle \in Oracles, cutoff \in Cutoffs :
         statement = StatementOf(pre, honest, oracle, cutoff)

ClaimIsMade ==
  claim # None =>
    /\ statement # None
    /\ claim = statement \/ IsWitness(claim.witness)

VerdictIsTheProvers ==
  verdict # "none" =>
    /\ claim # None
    /\ \E sorts \in ProverSorts(claim.witness.orders) :
         verdict = Refusal(claim.inputs, claim.witness, sorts)

VerifierCompares ==
  verified = "ok" => verdict = "ok" /\ claim.inputs = statement.inputs

StatementIInv ==
  /\ CheckerIInv
  /\ StatementIsPublished
  /\ ClaimIsMade
  /\ VerdictIsTheProvers
  /\ VerifierCompares

LEMMA StatementInitially == StatementInit => StatementIInv
  BY CheckerInitially DEF StatementInit, StatementIInv, StatementIsPublished,
       ClaimIsMade, VerdictIsTheProvers, VerifierCompares

LEMMA CheckerStutters ==
  ASSUME CheckerIInv, UNCHANGED checkerVars
  PROVE  CheckerIInv'
<1>1. UNCHANGED clearingVars /\ UNCHANGED <<pre, honest, proposal, ruling>>
  BY DEF checkerVars
<1>2. ClearingIInv'
  BY <1>1, ClearingNextInv DEF CheckerIInv
<1>3. HonestIsTheExecution' /\ RulingIsTheCheckers'
  BY <1>1 DEF HonestIsTheExecution, RulingIsTheCheckers, CheckerIInv, clearingVars
<1>4. QED
  BY <1>1, <1>2, <1>3 DEF CheckerIInv, WellFormed, clearingVars

\* A statement stays what it was while the checker's state does.
LEMMA StatementStays ==
  ASSUME UNCHANGED checkerVars, NEW oracle, NEW cutoff
  PROVE  StatementOf(pre, honest, oracle, cutoff)' = StatementOf(pre, honest, oracle, cutoff)
  BY DEF StatementOf, checkerVars, clearingVars

LEMMA PublishedStays ==
  ASSUME StatementIsPublished, UNCHANGED checkerVars, statement' = statement
  PROVE  StatementIsPublished'
<1>1. SUFFICES ASSUME statement' # None'
               PROVE  /\ honest' # None'
                      /\ \E oracle \in Oracles, cutoff \in Cutoffs :
                           statement' = StatementOf(pre, honest, oracle, cutoff)'
  BY DEF StatementIsPublished
<1>2. statement # None
  BY <1>1 DEF None
<1>3. honest # None
  BY <1>2 DEF StatementIsPublished
<1>4. PICK oracle \in Oracles, cutoff \in Cutoffs :
        statement = StatementOf(pre, honest, oracle, cutoff)
  BY <1>2 DEF StatementIsPublished
<1>5. statement' = StatementOf(pre, honest, oracle, cutoff)'
  BY <1>4, StatementStays
<1>6. honest' # None'
  BY <1>3 DEF None, checkerVars
<1>7. QED
  BY <1>5, <1>6

LEMMA StatementStep == StatementIInv /\ [StatementNext]_statementVars => StatementIInv'
<1> SUFFICES ASSUME StatementIInv, [StatementNext]_statementVars PROVE StatementIInv'
  OBVIOUS
<1> USE DEF StatementIInv
<1>1. CASE Execute
  <2>1. UNCHANGED <<statement, claim, verdict, verified>>
    BY <1>1 DEF Execute
  <2>2. CheckerIInv'
    BY <1>1, CheckerStep DEF Execute, CheckerNext
  <2>3. honest = None
    <3>1. CASE ClearBatch
      <4>1. stage # "executed"
        BY <3>1 DEF ClearBatch, ClearingNext, Receive, CreateBatch, RejectBatch,
                    ExecuteBatch, ClearingFails
      <4>2. QED
        BY <4>1 DEF CheckerIInv, HonestIsTheExecution
    <3>2. CASE FinishExecution
      BY <3>2 DEF FinishExecution
    <3>3. QED
      BY <1>1, <3>1, <3>2 DEF Execute
  <2>4. statement = None
    BY <2>3 DEF StatementIsPublished
  <2>5. claim = None
    BY <2>4 DEF ClaimIsMade
  <2>6. verdict = "none"
    BY <2>5 DEF VerdictIsTheProvers
  <2>7. verified # "ok"
    BY <2>6 DEF VerifierCompares
  <2>8. statement' = None' /\ claim' = None' /\ verdict' = "none" /\ verified' # "ok"
    BY <2>1, <2>4, <2>5, <2>6, <2>7 DEF None
  <2>9. QED
    BY <2>2, <2>8 DEF StatementIsPublished, ClaimIsMade, VerdictIsTheProvers,
                      VerifierCompares
<1>2. CASE Assemble
  <2>1. /\ UNCHANGED checkerVars /\ claim' = claim /\ verdict' = verdict
        /\ verified' = verified /\ honest.made /\ statement = None
    BY <1>2 DEF Assemble
  <2>2. PICK oracle \in Oracles, cutoff \in Cutoffs :
          statement' = StatementOf(pre, honest, oracle, cutoff)
    BY <1>2 DEF Assemble
  <2>3. honest # None
    BY <2>1 DEF None
  <2>4. statement' = StatementOf(pre, honest, oracle, cutoff)'
    BY <2>1, <2>2, StatementStays
  <2>5. honest' # None'
    BY <2>1, <2>3 DEF None, checkerVars
  <2>6. StatementIsPublished'
    BY <2>4, <2>5 DEF StatementIsPublished
  <2>7. claim = None
    BY <2>1 DEF ClaimIsMade
  <2>8. verdict = "none"
    BY <2>7 DEF VerdictIsTheProvers
  <2>9. verified # "ok"
    BY <2>8 DEF VerifierCompares
  <2>10. claim' = None' /\ verdict' = "none" /\ verified' # "ok"
    BY <2>1, <2>7, <2>8, <2>9 DEF None
  <2>11. CheckerIInv'
    BY <2>1, CheckerStutters
  <2>12. QED
    BY <2>6, <2>10, <2>11 DEF ClaimIsMade, VerdictIsTheProvers, VerifierCompares
<1>3. CASE Submit
  <2>1. /\ UNCHANGED checkerVars /\ statement' = statement /\ verdict' = verdict
        /\ verified' = verified /\ statement.made /\ claim = None
        /\ claim' = statement \/ IsWitness(claim'.witness)
    BY <1>3 DEF Submit
  <2>2. CheckerIInv' /\ StatementIsPublished'
    BY <2>1, CheckerStutters, PublishedStays
  <2>3. statement' # None'
    BY <2>1 DEF None
  <2>4. ClaimIsMade'
    BY <2>1, <2>3 DEF ClaimIsMade
  <2>5. verdict = "none"
    BY <2>1 DEF VerdictIsTheProvers
  <2>6. verified # "ok"
    BY <2>5 DEF VerifierCompares
  <2>7. QED
    BY <2>1, <2>2, <2>4, <2>5, <2>6 DEF VerdictIsTheProvers, VerifierCompares
<1>4. CASE Prove
  <2>1. /\ UNCHANGED checkerVars /\ statement' = statement /\ claim' = claim
        /\ verified' = verified /\ claim.made /\ verdict = "none"
    BY <1>4 DEF Prove
  <2>2. PICK sorts \in ProverSorts(claim.witness.orders) :
          verdict' = Refusal(claim.inputs, claim.witness, sorts)
    BY <1>4 DEF Prove
  <2>3. CheckerIInv' /\ StatementIsPublished'
    BY <2>1, CheckerStutters, PublishedStays
  <2>4. ClaimIsMade'
    BY <2>1 DEF ClaimIsMade, None
  <2>5. claim' # None'
    BY <2>1 DEF None
  <2>6. ProverSorts(claim.witness.orders)' = ProverSorts(claim.witness.orders)
    BY <2>1 DEF ProverSorts, checkerVars, clearingVars
  <2>7. VerdictIsTheProvers'
    BY <2>1, <2>2, <2>5, <2>6 DEF VerdictIsTheProvers
  <2>8. verified # "ok"
    BY <2>1 DEF VerifierCompares
  <2>9. QED
    BY <2>1, <2>3, <2>4, <2>7, <2>8 DEF VerifierCompares
<1>5. CASE Verify
  <2>1. /\ UNCHANGED checkerVars /\ statement' = statement /\ claim' = claim
        /\ verdict' = verdict /\ verdict = "ok"
        /\ verified' = IF claim.inputs = statement.inputs THEN "ok"
                                                         ELSE "PublicInputMismatch"
    BY <1>5 DEF Verify
  <2>2. CheckerIInv' /\ StatementIsPublished'
    BY <2>1, CheckerStutters, PublishedStays
  <2>3. ClaimIsMade'
    BY <2>1 DEF ClaimIsMade, None
  <2>4. ProverSorts(claim.witness.orders)' = ProverSorts(claim.witness.orders)
    BY <2>1 DEF ProverSorts, checkerVars, clearingVars
  <2>5. VerdictIsTheProvers'
    BY <2>1, <2>4 DEF VerdictIsTheProvers, None
  <2>6. VerifierCompares'
    BY <2>1 DEF VerifierCompares
  <2>7. QED
    BY <2>2, <2>3, <2>5, <2>6
<1>6. CASE UNCHANGED statementVars
  <2>1. /\ UNCHANGED checkerVars /\ statement' = statement /\ claim' = claim
        /\ verdict' = verdict /\ verified' = verified
    BY <1>6 DEF statementVars
  <2>2. CheckerIInv' /\ StatementIsPublished'
    BY <2>1, CheckerStutters, PublishedStays
  <2>3. ClaimIsMade'
    BY <2>1 DEF ClaimIsMade, None
  <2>4. ProverSorts(claim.witness.orders)' = ProverSorts(claim.witness.orders)
    BY <2>1 DEF ProverSorts, checkerVars, clearingVars
  <2>5. VerdictIsTheProvers'
    BY <2>1, <2>4 DEF VerdictIsTheProvers, None
  <2>6. VerifierCompares'
    BY <2>1 DEF VerifierCompares
  <2>7. QED
    BY <2>2, <2>3, <2>5, <2>6
<1>7. QED
  BY <1>1, <1>2, <1>3, <1>4, <1>5, <1>6 DEF StatementNext

LEMMA StatementInvariant == StatementSpec => []StatementIInv
  BY StatementInitially, StatementStep, PTL DEF StatementSpec

LEMMA ClaimedWitness ==
  ASSUME StatementIInv, claim # None
  PROVE  SoundWitness(claim.witness)
<1>1. CASE IsWitness(claim.witness)
  BY <1>1, SubmittedWitness
<1>2. CASE claim = statement
  <2>1. statement # None /\ honest # None
    BY <1>2 DEF StatementIInv, ClaimIsMade, StatementIsPublished
  <2>2. PICK oracle \in Oracles, cutoff \in Cutoffs :
          statement = StatementOf(pre, honest, oracle, cutoff)
    BY <2>1 DEF StatementIInv, StatementIsPublished
  <2>3. SoundWitness(statement.witness)
    BY <2>1, <2>2, PublishedWitness DEF StatementIInv
  <2>4. QED
    BY <1>2, <2>3
<1>3. QED
  BY <1>1, <1>2 DEF StatementIInv, ClaimIsMade

\* ledger_account_proof on the published ledgers: a participant's leaf is its
\* own, its path leads from that leaf to the published root, and from the leaf
\* of no other account, however many accounts there are.
THEOREM BalancesProvable == StatementSpec => []BalancesCanBeChecked
<1>1. StatementIInv => BalancesCanBeChecked
  <2> SUFFICES ASSUME StatementIInv, statement.made,
                      NEW l \in {statement.witness.pre, statement.witness.post},
                      NEW a \in l.accounts
               PROVE  LET proof == LedgerAccountProof(l, inst, a)
                      IN  /\ proof.leaf = AccountLeaf(l, inst, a)
                          /\ \A b \in l.accounts :
                               VerifyProof(proof.path, LedgerRoot(l, inst),
                                           AccountLeaf(l, inst, b)) <=> b = a
    BY DEF BalancesCanBeChecked
  <2>1. statement # None
    BY DEF None
  <2>2. honest # None
    BY <2>1 DEF StatementIInv, StatementIsPublished
  <2>3. PICK oracle \in Oracles, cutoff \in Cutoffs :
          statement = StatementOf(pre, honest, oracle, cutoff)
    BY <2>1 DEF StatementIInv, StatementIsPublished
  <2>4. SoundWitness(statement.witness)
    BY <2>2, <2>3, PublishedWitness DEF StatementIInv
  <2>5. l.accounts \subseteq Account
    BY <2>4, SoundAccounts
  <2>6. QED
    BY <2>5, AccountProofs
<1>2. QED
  BY <1>1, StatementInvariant, PTL

----------------------------------------------------------------------------
(***************************************************************************)
(* What a certificate shows.                                               *)
(***************************************************************************)
Claimed(inputs, w) ==
  [outcome |-> Outcome(TRUE, inputs.price, inputs.volume),
   alloc |-> w.alloc, fills |-> w.fills, post |-> w.post]

\* prove has passed its checks one after another.
LEMMA Certified ==
  ASSUME NEW inputs, NEW w, NEW sorts, Refusal(inputs, w, sorts) = "ok"
  PROVE  /\ PreimagesBound(w)
         /\ inputs.header = HeaderHash(w.batch_id, w.instrument, w.cutoff,
                                       LeavesOf(w.preimages))
         /\ RecordsBound(w)
         /\ VerifyTransition(w.pre, w.orders, w.instrument, sorts, Claimed(inputs, w))
         /\ VerifyAccounting(w.orders, LeavesOf(w.preimages), w.accounting, w.alloc)
         /\ inputs.pre = LedgerRoot(w.pre, w.instrument)
         /\ inputs.post = LedgerRoot(w.post, w.instrument)
         /\ inputs.oracle = OracleHash(w.oracle)
  BY DEF Refusal, Claimed

\* A header hash is that of one instrument, one cutoff and one vector of
\* preimages.
LEMMA HeaderFixes ==
  ASSUME NEW v, NEW u, Vector(v), Vector(u),
         \A i \in 1..Len(v) : v[i] = [order |-> v[i].order, nonce |-> v[i].nonce],
         \A i \in 1..Len(u) : u[i] = [order |-> u[i].order, nonce |-> u[i].nonce],
         NEW b, NEW x, NEW c, NEW d, NEW y, NEW e,
         HeaderHash(b, x, c, LeavesOf(v)) = HeaderHash(d, y, e, LeavesOf(u))
  PROVE  x = y /\ c = e /\ v = u
<1>1. PICK s, t : s = LeavesOf(v) /\ t = LeavesOf(u)
  OBVIOUS
<1>2. <<"header", b, x, c, Len(s), MerkleRoot(s)>>
        = <<"header", d, y, e, Len(t), MerkleRoot(t)>>
  <2>1. HeaderHash(b, x, c, s)[2] = HeaderHash(d, y, e, t)[2]
    BY <1>1
  <2>2. QED
    BY <2>1 DEF HeaderHash, CommitRaw
<1>3. x = y /\ c = e /\ MerkleRoot(s) = MerkleRoot(t)
  BY <1>2
<1>4. /\ Vector(s) /\ Tagged(s, {"leaf"}) /\ Vector(t) /\ Tagged(t, {"leaf"})
      /\ Len(s) = Len(v) /\ Len(t) = Len(u)
      /\ \A i \in 1..Len(v) : s[i] = CommitOrder(v[i])
      /\ \A i \in 1..Len(u) : t[i] = CommitOrder(u[i])
  BY <1>1, OrderLeavesAre
<1>5. s = t
  BY <1>3, <1>4, RootFixesLeaves
<1>6. PICK n \in Nat : n = Len(v) /\ n = Len(u)
  <2>1. Len(v) \in Nat /\ Len(u) = Len(v)
    BY <1>4, <1>5, VectorLength
  <2>2. QED
    BY <2>1
<1>7. ASSUME NEW i \in 1..n PROVE v[i] = u[i]
  <2>1. CommitOrder(v[i]) = CommitOrder(u[i])
    BY <1>4, <1>5, <1>6
  <2>2. CommitOrder(v[i])[2] = CommitOrder(u[i])[2]
    BY <2>1
  <2>3. <<"order", v[i].order, v[i].nonce>> = <<"order", u[i].order, u[i].nonce>>
    BY <2>2 DEF CommitOrder, CommitRaw
  <2>4. v[i].order = u[i].order /\ v[i].nonce = u[i].nonce
    BY <2>3
  <2>5. QED
    BY <2>4, <1>6
<1>8. v = u
  <2>1. v = [i \in 1..n |-> v[i]] /\ u = [i \in 1..n |-> u[i]]
    BY <1>6, VectorLength
  <2>2. QED
    BY <1>7, <2>1
<1>9. QED
  BY <1>3, <1>8

\* An oracle hash is that of one snapshot and one policy, or of their absence.
LEMMA OracleFixes ==
  ASSUME NEW o, NEW q, IsOracle(o), IsOracle(q), OracleHash(o) = OracleHash(q)
  PROVE  o = q
<1> DEFINE c(z) == IF z.present THEN <<"oracle", z.snapshot, z.policy>> ELSE <<"absent">>
<1>1. OracleHash(o)[2] = OracleHash(q)[2]
  OBVIOUS
<1>2. c(o) = c(q)
  BY <1>1 DEF OracleHash, CommitRaw
<1>3. \/ o = NoOracle
      \/ o = [present |-> TRUE, snapshot |-> o.snapshot, policy |-> o.policy]
  BY DEF IsOracle
<1>4. \/ q = NoOracle
      \/ q = [present |-> TRUE, snapshot |-> q.snapshot, policy |-> q.policy]
  BY DEF IsOracle
<1>5. <<"absent">>[1] = "absent" /\ \A s, p : <<"oracle", s, p>>[1] = "oracle"
  OBVIOUS
<1>6. CASE o = NoOracle /\ q # NoOracle
  <2>1. ~o.present /\ q.present
    BY <1>4, <1>6 DEF NoOracle
  <2>2. <<"absent">> = <<"oracle", q.snapshot, q.policy>>
    BY <1>2, <2>1
  <2>3. QED
    BY <1>5, <2>2
<1>7. CASE o # NoOracle /\ q = NoOracle
  <2>1. o.present /\ ~q.present
    BY <1>3, <1>7 DEF NoOracle
  <2>2. <<"absent">> = <<"oracle", o.snapshot, o.policy>>
    BY <1>2, <2>1
  <2>3. QED
    BY <1>5, <2>2
<1>8. CASE o # NoOracle /\ q # NoOracle
  <2>1. o.present /\ q.present
    BY <1>3, <1>4, <1>8
  <2>2. <<"oracle", o.snapshot, o.policy>> = <<"oracle", q.snapshot, q.policy>>
    BY <1>2, <2>1
  <2>3. o.snapshot = q.snapshot /\ o.policy = q.policy
    BY <2>2
  <2>4. QED
    BY <1>3, <1>4, <1>8, <2>3
<1>9. QED
  BY <1>6, <1>7, <1>8

\* verify on the published inputs: a certificate it accepts was made for the
\* published orders, nonces, cutoff and oracle, and its allocation, its fills
\* and its ledgers are those of execute_batch, whoever filled in the witness.
THEOREM StatementBinds == StatementSpec => []StatementFixesTheExecution
<1>1. StatementIInv => StatementFixesTheExecution
  <2> SUFFICES ASSUME StatementIInv, verified = "ok" PROVE StatementFixesTheExecution
    BY DEF StatementFixesTheExecution
  <2>1. verdict = "ok" /\ claim.inputs = statement.inputs
    BY DEF StatementIInv, VerifierCompares
  <2>2. claim # None
    BY <2>1 DEF StatementIInv, VerdictIsTheProvers
  <2>3. PICK sorts \in ProverSorts(claim.witness.orders) :
          Refusal(claim.inputs, claim.witness, sorts) = "ok"
    BY <2>1 DEF StatementIInv, VerdictIsTheProvers
  <2>4. statement # None
    BY <2>2 DEF StatementIInv, ClaimIsMade
  <2>5. honest # None
    BY <2>4 DEF StatementIInv, StatementIsPublished
  <2>6. PICK oracle \in Oracles, cutoff \in Cutoffs :
          statement = StatementOf(pre, honest, oracle, cutoff)
    BY <2>4 DEF StatementIInv, StatementIsPublished
  <2>7. PICK w, s, inputs :
          w = claim.witness /\ s = statement.witness /\ inputs = claim.inputs
    OBVIOUS
  <2>8. SoundWitness(w)
    BY <2>2, <2>7, ClaimedWitness
  <2>9. SoundWitness(s)
    BY <2>5, <2>6, <2>7, PublishedWitness DEF StatementIInv
  <2>10. /\ s.preimages = [i \in 1..Len(batch) |-> [order |-> batch[i], nonce |-> i]]
         /\ s.pre = pre /\ s.post = honest.post /\ s.alloc = honest.alloc
         /\ s.fills = honest.fills /\ s.oracle = oracle /\ s.cutoff = cutoff
    BY <2>6, <2>7 DEF StatementOf
  <2>11. /\ statement.inputs.pre = LedgerRoot(s.pre, inst)
         /\ statement.inputs.post = LedgerRoot(s.post, inst)
         /\ statement.inputs.header = HeaderHash(1, inst, s.cutoff, LeavesOf(s.preimages))
         /\ statement.inputs.oracle = OracleHash(s.oracle)
    BY <2>6, <2>7 DEF StatementOf
  <2>12. /\ PreimagesBound(w)
         /\ inputs.header = HeaderHash(w.batch_id, w.instrument, w.cutoff,
                                       LeavesOf(w.preimages))
         /\ VerifyTransition(w.pre, w.orders, w.instrument, sorts, Claimed(inputs, w))
         /\ inputs.pre = LedgerRoot(w.pre, w.instrument)
         /\ inputs.post = LedgerRoot(w.post, w.instrument)
         /\ inputs.oracle = OracleHash(w.oracle)
    BY <2>3, <2>7, Certified
  <2>13. w.instrument = inst /\ w.cutoff = s.cutoff /\ w.preimages = s.preimages
    <3>1. HeaderHash(w.batch_id, w.instrument, w.cutoff, LeavesOf(w.preimages))
            = HeaderHash(1, inst, s.cutoff, LeavesOf(s.preimages))
      BY <2>1, <2>7, <2>11, <2>12
    <3>2. /\ Vector(w.preimages) /\ Vector(s.preimages)
          /\ \A i \in 1..Len(w.preimages) : w.preimages[i]
               = [order |-> w.preimages[i].order, nonce |-> w.preimages[i].nonce]
          /\ \A i \in 1..Len(s.preimages) : s.preimages[i]
               = [order |-> s.preimages[i].order, nonce |-> s.preimages[i].nonce]
      BY <2>8, <2>9 DEF SoundWitness
    <3>3. QED
      BY <3>1, <3>2, HeaderFixes
  <2>14. w.oracle = s.oracle
    <3>1. OracleHash(w.oracle) = OracleHash(s.oracle)
      BY <2>1, <2>7, <2>11, <2>12
    <3>2. IsOracle(w.oracle) /\ IsOracle(s.oracle)
      BY <2>8, <2>9 DEF SoundWitness
    <3>3. QED
      BY <3>1, <3>2, OracleFixes
  <2>15. SameBalances(w.pre, s.pre, inst) /\ SameBalances(w.post, s.post, inst)
    <3>1. /\ LedgerRoot(w.pre, inst) = LedgerRoot(s.pre, inst)
          /\ LedgerRoot(w.post, inst) = LedgerRoot(s.post, inst)
      BY <2>1, <2>7, <2>11, <2>12, <2>13
    <3>2. /\ w.pre.accounts \subseteq Account /\ w.post.accounts \subseteq Account
          /\ s.pre.accounts \subseteq Account /\ s.post.accounts \subseteq Account
      BY <2>8, <2>9, SoundAccounts
    <3>3. QED
      BY <3>1, <3>2, LedgerRootFixes
  <2>16. /\ ClearingIInv /\ stage = "executed" /\ WellFormedBatch(batch)
         /\ honest.alloc = result.alloc /\ honest.fills = result.fills
    <3>1. /\ ClearingIInv /\ stage = "executed"
          /\ honest.alloc = result.alloc /\ honest.fills = result.fills
      BY <2>5 DEF StatementIInv, CheckerIInv, HonestIsTheExecution
    <3>2. QED
      BY <3>1, ExecutedOutcome
  <2>17. w.orders = batch
    <3>1. PICK n \in Nat : n = Len(batch)
      BY <2>16 DEF WellFormedBatch
    <3>2. batch = [i \in 1..n |-> batch[i]]
      BY <2>16, <3>1 DEF WellFormedBatch
    <3>3. Len(w.preimages) = n /\ \A i \in 1..n : w.preimages[i].order = batch[i]
      BY <2>10, <2>13, <3>1
    <3>4. Len(w.orders) = n /\ \A i \in 1..n : w.orders[i] = batch[i]
      BY <2>12, <3>3 DEF PreimagesBound
    <3>5. w.orders = [i \in 1..n |-> w.orders[i]]
      BY <2>8, <3>4 DEF SoundWitness, WellFormedBatch
    <3>6. QED
      BY <3>2, <3>4, <3>5
  <2>18. sorts = sorted
    BY <2>3, <2>7, <2>17 DEF ProverSorts
  <2>19. w.alloc = result.alloc /\ w.fills = result.fills
    <3>1. VerifyTransition(w.pre, batch, inst, sorted, Claimed(inputs, w))
      BY <2>12, <2>13, <2>17, <2>18
    <3>2. /\ Claimed(inputs, w).alloc = result.alloc
          /\ Claimed(inputs, w).fills = result.fills
      BY <2>16, <3>1, VerifiedResult
    <3>3. QED
      BY <3>2 DEF Claimed
  <2>20. QED
    BY <2>7, <2>10, <2>13, <2>14, <2>15, <2>16, <2>19
       DEF StatementFixesTheExecution, SameBalances
<1>2. QED
  BY <1>1, StatementInvariant, PTL

----------------------------------------------------------------------------
(***************************************************************************)
(* What a certified manifest accounts for.                                 *)
(***************************************************************************)
ClaimedExecution(inputs, w) ==
  [outcome |-> Outcome(TRUE, inputs.price, inputs.volume),
   alloc |-> w.alloc, fills |-> w.fills]

\* A claim that passes verify_transition is an execution of its orders.
LEMMA ClaimExecutes ==
  ASSUME StatementIInv, claim # None, NEW inputs,
         NEW sorts \in ProverSorts(claim.witness.orders),
         VerifyTransition(claim.witness.pre, claim.witness.orders, claim.witness.instrument,
                          sorts, Claimed(inputs, claim.witness))
  PROVE  Executes(claim.witness.orders, claim.witness.instrument, sorts,
                  ClaimedExecution(inputs, claim.witness))
<1>1. PICK w : w = claim.witness
  OBVIOUS
<1>2. PICK out : out = DetermineClearingOutcome(w.orders)
  OBVIOUS
<1>3. /\ out.ok /\ out = Outcome(TRUE, inputs.price, inputs.volume)
      /\ w.alloc = ExecutionOf(w.orders, w.instrument, out, sorts).alloc
      /\ w.fills = ExecutionOf(w.orders, w.instrument, out, sorts).fills
  BY <1>1, <1>2 DEF VerifyTransition, Claimed
<1>4. WellFormedBatch(w.orders) /\ DistinctIds(w.orders)
  BY <1>1, ClaimedWitness DEF SoundWitness
<1>5. ~CurvesOverflow(w.orders)
  BY <1>2, <1>3 DEF DetermineClearingOutcome, Outcome
<1>6. sorts \in SortOutcomes(w.orders, out)
  <2>1. CASE w.orders = batch
    <3>1. sorts = sorted
      BY <1>1, <2>1 DEF ProverSorts
    <3>2. honest # None
      BY DEF StatementIInv, ClaimIsMade, StatementIsPublished
    <3>3. ClearingIInv /\ stage = "executed"
      BY <3>2 DEF StatementIInv, CheckerIInv, HonestIsTheExecution
    <3>4. Executes(batch, inst, sorted, result)
      BY <3>3, ResultExecutes
    <3>5. QED
      BY <1>2, <2>1, <3>1, <3>4 DEF Executes
  <2>2. CASE w.orders # batch
    BY <1>1, <1>2, <2>2 DEF ProverSorts
  <2>3. QED
    BY <2>1, <2>2
<1>7. ClaimedExecution(inputs, w) = ExecutionOf(w.orders, w.instrument, out, sorts)
  BY <1>3 DEF ClaimedExecution, ExecutionOf
<1>8. QED
  BY <1>1, <1>2, <1>4, <1>5, <1>6, <1>7 DEF Executes

\* Every order is allocated within its quantity, also when nothing crosses.
LEMMA ExecutionFits ==
  ASSUME NEW B, NEW X, NEW S, NEW R, Executes(B, X, S, R), NEW i \in 1..Len(B)
  PROVE  /\ R.alloc[i] \in Nat /\ R.alloc[i] <= B[i].qty
         /\ B[i].qty \in Nat /\ B[i].qty >= 1
<1>1. /\ WellFormedBatch(B) /\ VolumeOf(R) \in Nat
      /\ R.alloc = AllocateBatch(B, R.outcome, S)
  BY ExecutionOutcome
<1>2. B[i].qty \in Nat /\ B[i].qty >= 1
  BY <1>1, WordWidth DEF WellFormedBatch, WellFormedOrder, Price
<1>3. CASE VolumeOf(R) = 0
  <2>1. R.alloc[i] = 0
    BY <1>1, <1>3 DEF AllocateBatch, VolumeOf
  <2>2. QED
    BY <1>2, <2>1
<1>4. CASE VolumeOf(R) > 0
  BY <1>2, <1>4, ExecutionQualifies
<1>5. QED
  BY <1>1, <1>3, <1>4

\* What verify_complete_input_accounting and the binding of the records say
\* together: the record of leaf i is one, and it is about order i.
LEMMA RecordOfLeaf ==
  ASSUME NEW w, SoundWitness(w), RecordsBound(w), PreimagesBound(w),
         VerifyAccounting(w.orders, LeavesOf(w.preimages), w.accounting, w.alloc),
         NEW i \in 1..Len(w.orders)
  PROVE  \E k \in 1..Len(w.orders) :
           /\ \A m \in 1..Len(w.orders) :
                w.accounting.records[m].leaf_index = i - 1 <=> m = k
           /\ w.accounting.records[k].order_id = w.orders[i].id
           /\ w.accounting.records[k].commitment = CommitOrder(w.preimages[i])
           /\ w.accounting.records[k].disposition
                = Disposition(w.alloc[i], w.orders[i].qty)
<1>1. PICK n \in Nat, records \in {w.accounting.records},
           leaves \in {LeavesOf(w.preimages)}, orders \in {w.orders} :
        /\ records = w.accounting.records /\ n = Len(w.orders)
        /\ leaves = LeavesOf(w.preimages) /\ orders = w.orders
  BY DEF SoundWitness, WellFormedBatch
<1>2. /\ Len(records) = n
      /\ \A j, k \in 1..n : j # k => records[j].leaf_index # records[k].leaf_index
      /\ \A k \in 1..n : \E j \in 1..n :
           /\ orders[j].id = records[k].order_id
           /\ records[k].disposition = Disposition(w.alloc[j], orders[j].qty)
      /\ \A j \in 0..(n - 1) : \E k \in 1..n : records[k].leaf_index = j
  BY <1>1 DEF VerifyAccounting
<1>3. ASSUME NEW k \in 1..n
      PROVE  /\ records[k].order_id = orders[records[k].leaf_index + 1].id
             /\ records[k].commitment = CommitOrder(w.preimages[records[k].leaf_index + 1])
  <2>1. k \in 1..Len(w.accounting.records)
    BY <1>1, <1>2
  <2>2. LET leaf == w.accounting.records[k].leaf_index + 1
        IN  /\ w.accounting.records[k].order_id = w.orders[leaf].id
            /\ w.accounting.records[k].commitment = CommitOrder(w.preimages[leaf])
    BY <2>1 DEF RecordsBound
  <2>3. QED
    BY <1>1, <2>2
<1>4. i \in 1..n /\ i - 1 \in 0..(n - 1) /\ (i - 1) + 1 = i
  BY <1>1
<1>5. PICK k \in 1..n : records[k].leaf_index = i - 1
  BY <1>2, <1>4
<1>6. ASSUME NEW m \in 1..n PROVE records[m].leaf_index = i - 1 <=> m = k
  <2>1. m # k => records[m].leaf_index # records[k].leaf_index
    BY <1>2
  <2>2. QED
    BY <1>5, <2>1
<1>7. /\ records[k].order_id = orders[i].id
      /\ records[k].commitment = CommitOrder(w.preimages[i])
  BY <1>3, <1>4, <1>5
<1>8. records[k].disposition = Disposition(w.alloc[i], orders[i].qty)
  <2>1. PICK j \in 1..n :
           /\ orders[j].id = records[k].order_id
           /\ records[k].disposition = Disposition(w.alloc[j], orders[j].qty)
    BY <1>2
  <2>2. DistinctIds(orders) /\ n = Len(orders)
    BY <1>1 DEF SoundWitness
  <2>3. j = i
    BY <1>4, <1>7, <2>1, <2>2 DEF DistinctIds
  <2>4. QED
    BY <2>1, <2>3
<1>9. QED
  BY <1>1, <1>6, <1>7, <1>8

\* prove and verify_complete_input_accounting: whoever filled in the witness, a
\* certified manifest has exactly one record for each committed leaf, about the
\* leaf's own order, with the disposition that the order's allocation implies.
THEOREM LeavesAccounted == StatementSpec => []EveryLeafAccountedFor
<1>1. StatementIInv => EveryLeafAccountedFor
  <2> SUFFICES ASSUME StatementIInv, verdict = "ok" PROVE EveryLeafAccountedFor
    BY DEF EveryLeafAccountedFor
  <2>1. claim # None
    BY DEF StatementIInv, VerdictIsTheProvers
  <2>2. PICK sorts \in ProverSorts(claim.witness.orders) :
          Refusal(claim.inputs, claim.witness, sorts) = "ok"
    BY DEF StatementIInv, VerdictIsTheProvers
  <2>3. PICK w, records, inputs : /\ w = claim.witness /\ inputs = claim.inputs
                                  /\ records = w.accounting.records
    OBVIOUS
  <2>4. SoundWitness(w)
    BY <2>1, <2>3, ClaimedWitness
  <2>5. /\ PreimagesBound(w) /\ RecordsBound(w)
        /\ VerifyTransition(w.pre, w.orders, w.instrument, sorts, Claimed(inputs, w))
        /\ VerifyAccounting(w.orders, LeavesOf(w.preimages), w.accounting, w.alloc)
    BY <2>2, <2>3, Certified
  <2>6. Executes(w.orders, w.instrument, sorts, ClaimedExecution(inputs, w))
    BY <2>1, <2>2, <2>3, <2>5, ClaimExecutes
  <2>7. PICK n \in Nat : n = Len(w.orders) /\ n = Len(w.preimages) /\ n = Len(records)
    BY <2>3, <2>4, <2>5 DEF SoundWitness, WellFormedBatch, PreimagesBound, RecordsBound
  <2>8. ASSUME NEW i \in 1..n
        PROVE  /\ Cardinality({k \in 1..n : records[k].leaf_index = i - 1}) = 1
               /\ \A k \in 1..n : records[k].leaf_index = i - 1 =>
                   /\ records[k].order_id = w.preimages[i].order.id
                   /\ records[k].commitment = CommitOrder(w.preimages[i])
                   /\ records[k].disposition.fill_qty = w.alloc[i]
                   /\ records[k].disposition.kind =
                        IF w.alloc[i] = w.preimages[i].order.qty THEN "FullyExecuted"
                        ELSE IF w.alloc[i] = 0 THEN "Unfilled"
                        ELSE "PartiallyExecuted"
    <3>1. PICK k \in 1..n :
           /\ \A m \in 1..n : records[m].leaf_index = i - 1 <=> m = k
           /\ records[k].order_id = w.orders[i].id
           /\ records[k].commitment = CommitOrder(w.preimages[i])
           /\ records[k].disposition = Disposition(w.alloc[i], w.orders[i].qty)
      <4>1. i \in 1..Len(w.orders)
        BY <2>7
      <4>2. \E k \in 1..Len(w.orders) :
              /\ \A m \in 1..Len(w.orders) :
                   w.accounting.records[m].leaf_index = i - 1 <=> m = k
              /\ w.accounting.records[k].order_id = w.orders[i].id
              /\ w.accounting.records[k].commitment = CommitOrder(w.preimages[i])
              /\ w.accounting.records[k].disposition
                   = Disposition(w.alloc[i], w.orders[i].qty)
        BY <2>4, <2>5, <4>1, RecordOfLeaf
      <4>3. QED
        BY <2>3, <2>7, <4>2
    <3>2. {m \in 1..n : records[m].leaf_index = i - 1} = {k}
      <4>1. \A m \in 1..n : records[m].leaf_index = i - 1 <=> m = k
        BY <3>1
      <4>2. QED
        BY <4>1
    <3>3. Cardinality({k}) = 1
      BY FS_Singleton
    <3>4. w.preimages[i].order = w.orders[i]
      BY <2>5, <2>7 DEF PreimagesBound
    <3>5. PICK alloc, qty : alloc = w.alloc[i] /\ qty = w.orders[i].qty
      OBVIOUS
    <3>6. alloc \in Nat /\ qty \in Nat /\ alloc <= qty /\ qty >= 1
      <4>1. ClaimedExecution(inputs, w).alloc = w.alloc
        BY DEF ClaimedExecution
      <4>2. i \in 1..Len(w.orders)
        BY <2>7
      <4>3. QED
        BY <2>6, <3>5, <4>1, <4>2, ExecutionFits
    <3>7. /\ Disposition(alloc, qty).fill_qty = alloc
          /\ Disposition(alloc, qty).kind = IF alloc = qty THEN "FullyExecuted"
                                            ELSE IF alloc = 0 THEN "Unfilled"
                                            ELSE "PartiallyExecuted"
      BY <3>6 DEF Disposition
    <3>8. QED
      BY <3>1, <3>2, <3>3, <3>4, <3>5, <3>7
  <2>9. QED
    BY <2>3, <2>7, <2>8 DEF EveryLeafAccountedFor
<1>2. QED
  BY <1>1, StatementInvariant, PTL

----------------------------------------------------------------------------
(***************************************************************************)
(* The circuit on a claim that has passed the plaintext checks of prove.   *)
(***************************************************************************)
Passed(inputs, w, sorts) ==
  /\ SoundWitness(w) /\ PreimagesBound(w) /\ RecordsBound(w)
  /\ VerifyTransition(w.pre, w.orders, w.instrument, sorts, Claimed(inputs, w))
  /\ VerifyAccounting(w.orders, LeavesOf(w.preimages), w.accounting, w.alloc)
  /\ Executes(w.orders, w.instrument, sorts, ClaimedExecution(inputs, w))

LEMMA PassedExecution ==
  ASSUME NEW inputs, NEW w, NEW sorts, Passed(inputs, w, sorts)
  PROVE  LET R == ClaimedExecution(inputs, w)
         IN  /\ Executes(w.orders, w.instrument, sorts, R)
             /\ R.alloc = w.alloc /\ R.fills = w.fills
             /\ VolumeOf(R) = inputs.volume /\ PriceOf(R) = inputs.price
             /\ R.outcome = Outcome(TRUE, inputs.price, inputs.volume)
             /\ inputs.volume \in Nat /\ inputs.price \in Nat
             /\ inputs.volume = 0 <=> inputs.price = NoPrice
             /\ inputs.volume > 0 => inputs.price \in Price
<1> DEFINE R == ClaimedExecution(inputs, w)
<1>1. Executes(w.orders, w.instrument, sorts, R)
  BY DEF Passed
<1>2. /\ R.alloc = w.alloc /\ R.fills = w.fills
      /\ R.outcome = Outcome(TRUE, inputs.price, inputs.volume)
  BY DEF ClaimedExecution
<1>3. VolumeOf(R) = inputs.volume /\ PriceOf(R) = inputs.price
  BY <1>2 DEF VolumeOf, PriceOf, Outcome
<1>4. /\ VolumeOf(R) \in Nat
      /\ VolumeOf(R) = 0 <=> PriceOf(R) = NoPrice
      /\ VolumeOf(R) > 0 => PriceOf(R) \in Price
  BY <1>1, ExecutionOutcome
<1> HIDE DEF R
<1>5. PriceOf(R) \in Nat
  BY <1>4, WordWidth DEF Price, NoPrice
<1>6. QED
  BY <1>1, <1>2, <1>3, <1>4, <1>5 DEF R

\* A disposition is the same whether zero or the whole quantity is asked first.
LEMMA DispositionRepeated ==
  ASSUME NEW alloc \in Nat, NEW qty \in Nat, alloc <= qty, qty >= 1
  PROVE  CircuitDisposition(alloc, qty) = Disposition(alloc, qty)
  BY DEF CircuitDisposition, Disposition, SaturatingSub

LEMMA CanonicalRecordsAre ==
  ASSUME NEW w, SoundWitness(w), RecordsBound(w), PreimagesBound(w),
         VerifyAccounting(w.orders, LeavesOf(w.preimages), w.accounting, w.alloc)
  PROVE  LET records == CanonicalRecords(w)
         IN  /\ Len(records) = Len(w.orders)
             /\ \A i \in 1..Len(w.orders) :
                  /\ records[i].leaf_index = i - 1
                  /\ records[i].order_id = w.orders[i].id
                  /\ records[i].commitment = CommitOrder(w.preimages[i])
                  /\ records[i].disposition = Disposition(w.alloc[i], w.orders[i].qty)
<1>1. PICK n \in Nat, old \in {w.accounting.records}, records \in {CanonicalRecords(w)} :
        n = Len(w.orders)
  BY DEF SoundWitness, WellFormedBatch
<1>2. Len(old) = n
  BY <1>1 DEF RecordsBound
<1>3. records = [i \in 1..n |-> old[CHOOSE k \in 1..n : old[k].leaf_index = i - 1]]
  <2>1. CanonicalRecords(w)
          = [i \in 1..Len(w.orders) |->
               w.accounting.records[CHOOSE k \in 1..Len(w.accounting.records) :
                                      w.accounting.records[k].leaf_index = i - 1]]
    BY DEF CanonicalRecords
  <2>2. records = CanonicalRecords(w) /\ old = w.accounting.records
        /\ Len(w.orders) = n /\ Len(old) = n
    BY <1>1, <1>2
  <2>3. QED
    BY <2>1, <2>2, Zenon
<1>4. ASSUME NEW i \in 1..n
      PROVE  /\ records[i].leaf_index = i - 1
             /\ records[i].order_id = w.orders[i].id
             /\ records[i].commitment = CommitOrder(w.preimages[i])
             /\ records[i].disposition = Disposition(w.alloc[i], w.orders[i].qty)
  <2>1. i \in 1..Len(w.orders)
    BY <1>1
  <2>2. \E k \in 1..Len(w.orders) :
           /\ \A m \in 1..Len(w.orders) :
                w.accounting.records[m].leaf_index = i - 1 <=> m = k
           /\ w.accounting.records[k].order_id = w.orders[i].id
           /\ w.accounting.records[k].commitment = CommitOrder(w.preimages[i])
           /\ w.accounting.records[k].disposition
                = Disposition(w.alloc[i], w.orders[i].qty)
    BY <2>1, RecordOfLeaf
  <2>3. PICK k \in 1..n :
          /\ \A m \in 1..n : old[m].leaf_index = i - 1 <=> m = k
          /\ old[k].order_id = w.orders[i].id
          /\ old[k].commitment = CommitOrder(w.preimages[i])
          /\ old[k].disposition = Disposition(w.alloc[i], w.orders[i].qty)
    BY <1>1, <2>2
  <2>4. (CHOOSE m \in 1..n : old[m].leaf_index = i - 1) = k
    BY <2>3
  <2>5. records[i] = old[k]
    BY <1>3, <2>4
  <2>6. old[k].leaf_index = i - 1
    <3>1. \A m \in 1..n : old[m].leaf_index = i - 1 <=> m = k
      BY <2>3
    <3>2. QED
      BY <3>1
  <2>7. QED
    BY <2>3, <2>5, <2>6
<1>5. Len(records) = n
  BY <1>3
<1>6. QED
  BY <1>1, <1>4, <1>5

\* synthesize_complete_input_accounting_constraints has nothing to object.
LEMMA AccountingRepeated ==
  ASSUME NEW inputs, NEW w, NEW sorts, Passed(inputs, w, sorts)
  PROVE  AccountingSynthesizes(w)
<1>1. /\ SoundWitness(w) /\ PreimagesBound(w) /\ RecordsBound(w)
      /\ VerifyAccounting(w.orders, LeavesOf(w.preimages), w.accounting, w.alloc)
  BY DEF Passed
<1>2. PICK n \in Nat, orders \in {w.orders}, v \in {w.preimages}, alloc \in {w.alloc},
           records \in {CanonicalRecords(w)},
           manifest \in {[w.accounting EXCEPT !.records = CanonicalRecords(w)]} :
        n = Len(w.orders)
  BY <1>1 DEF SoundWitness, WellFormedBatch
<1>3. /\ Len(records) = n
      /\ \A i \in 1..n :
           /\ records[i].leaf_index = i - 1
           /\ records[i].order_id = orders[i].id
           /\ records[i].commitment = CommitOrder(v[i])
           /\ records[i].disposition = Disposition(alloc[i], orders[i].qty)
  BY <1>1, <1>2, CanonicalRecordsAre
<1>4. Vector(v) /\ Len(v) = n /\ Len(orders) = n /\ DistinctIds(orders)
  BY <1>1, <1>2 DEF SoundWitness, PreimagesBound
<1>5. manifest.records = records /\ manifest.total_committed = n
  <2>1. {"records", "total_committed"} \subseteq DOMAIN w.accounting
    BY <1>1 DEF SoundWitness
  <2>2. w.accounting.total_committed = n
    BY <1>1, <1>2 DEF VerifyAccounting
  <2>3. QED
    BY <1>2, <2>1, <2>2
<1>6. /\ VerifyAccounting(orders, LeavesOf(v), manifest, alloc)
      /\ \A i \in 1..n : LeafIncluded(LeavesOf(v), i)
  <2>1. VerifyAccounting(orders, LeavesOf(v), manifest, alloc)
    BY <1>3, <1>4, <1>5, AccountingVerifies, SMTT(30)
  <2>2. ASSUME NEW i \in 1..n PROVE LeafIncluded(LeavesOf(v), i)
    BY <1>4, LeavesVerify DEF LeafIncluded
  <2>3. QED
    BY <2>1, <2>2
<1>7. ASSUME NEW i \in 1..n
      PROVE  \E j \in 1..n :
               /\ orders[j].id = records[i].order_id
               /\ records[i].disposition = CircuitDisposition(alloc[j], orders[j].qty)
  <2>1. i \in 1..Len(w.orders) /\ ClaimedExecution(inputs, w).alloc = w.alloc
    BY <1>2 DEF ClaimedExecution
  <2>2. /\ alloc[i] \in Nat /\ alloc[i] <= orders[i].qty
        /\ orders[i].qty \in Nat /\ orders[i].qty >= 1
    BY <1>2, <2>1, ExecutionFits DEF Passed
  <2>3. CircuitDisposition(alloc[i], orders[i].qty) = Disposition(alloc[i], orders[i].qty)
    BY <2>2, DispositionRepeated
  <2>4. QED
    BY <1>3, <2>3
<1>8. QED
  <2>1. VerifyAccounting(w.orders, LeavesOf(w.preimages),
                         [w.accounting EXCEPT !.records = CanonicalRecords(w)], w.alloc)
    BY <1>2, <1>6
  <2>2. Len(CanonicalRecords(w)) = n
    BY <1>2, <1>3
  <2>3. ASSUME NEW i \in 1..n
        PROVE  /\ LeafIncluded(LeavesOf(w.preimages), i)
               /\ \E j \in 1..Len(w.orders) :
                    /\ w.orders[j].id = CanonicalRecords(w)[i].order_id
                    /\ CanonicalRecords(w)[i].disposition
                         = CircuitDisposition(w.alloc[j], w.orders[j].qty)
    <3>1. PICK j \in 1..n : /\ orders[j].id = records[i].order_id
                            /\ records[i].disposition
                                 = CircuitDisposition(alloc[j], orders[j].qty)
      BY <1>7
    <3>2. /\ orders = w.orders /\ alloc = w.alloc /\ v = w.preimages
          /\ records = CanonicalRecords(w) /\ j \in 1..Len(w.orders)
      BY <1>2
    <3>3. LeafIncluded(LeavesOf(v), i)
      BY <1>6
    <3>4. QED
      BY <3>1, <3>2, <3>3
  <2>4. ASSUME NEW i \in 1..Len(CanonicalRecords(w))
        PROVE  /\ LeafIncluded(LeavesOf(w.preimages), i)
               /\ \E j \in 1..Len(w.orders) :
                    /\ w.orders[j].id = CanonicalRecords(w)[i].order_id
                    /\ CanonicalRecords(w)[i].disposition
                         = CircuitDisposition(w.alloc[j], w.orders[j].qty)
    <3>1. i \in 1..n
      BY <2>2
    <3>2. QED
      BY <2>3, <3>1
  <2>5. QED
    BY <2>1, <2>4 DEF AccountingSynthesizes

\* The outcome and the allocation are recomputed as verify_transition does.
LEMMA AllocationRepeated ==
  ASSUME NEW inputs, NEW w, NEW sorts, Passed(inputs, w, sorts)
  PROVE  /\ OutcomeSynthesizes(w, inputs.price, inputs.volume)
         /\ AllocationSynthesizes(w, inputs.price, inputs.volume, sorts)
<1>1. PICK out : out = DetermineClearingOutcome(w.orders)
  OBVIOUS
<1>2. /\ out = Outcome(TRUE, inputs.price, inputs.volume)
      /\ w.alloc = ExecutionOf(w.orders, w.instrument, out, sorts).alloc
  BY <1>1 DEF Passed, VerifyTransition, Claimed
<1>3. w.alloc = AllocateBatch(w.orders, out, sorts)
  BY <1>2 DEF ExecutionOf
<1>4. QED
  BY <1>1, <1>2, <1>3 DEF OutcomeSynthesizes, AllocationSynthesizes

\* The order that a fill refers to is the one it was generated for.
LEMMA FillOfOrder ==
  ASSUME NEW inputs, NEW w, NEW sorts, Passed(inputs, w, sorts),
         NEW k \in 1..Len(w.fills)
  PROVE  \E i \in 1..Len(w.orders) :
           /\ OrderOf(w, w.fills[k]) = w.orders[i]
           /\ w.orders[i].id = w.fills[k].order_id
           /\ w.fills[k].fill_qty = w.alloc[i]
           /\ w.fills[k].consideration = inputs.price * w.alloc[i]
           /\ w.alloc[i] \in Nat /\ w.alloc[i] > 0 /\ w.alloc[i] <= w.orders[i].qty
           /\ inputs.price \in Price /\ w.orders[i].price \in Price
           /\ IF w.orders[i].side = "Buy" THEN inputs.price <= w.orders[i].price
                                          ELSE inputs.price >= w.orders[i].price
<1> DEFINE R == ClaimedExecution(inputs, w)
<1>1. /\ Executes(w.orders, w.instrument, sorts, R)
      /\ R.alloc = w.alloc /\ R.fills = w.fills
      /\ VolumeOf(R) = inputs.volume /\ PriceOf(R) = inputs.price
      /\ inputs.volume > 0 => inputs.price \in Price
  BY PassedExecution
<1> HIDE DEF R
<1>2. k \in 1..Len(R.fills)
  BY <1>1
<1>3. PICK i \in 1..Len(w.orders) :
        /\ R.alloc[i] > 0 /\ VolumeOf(R) > 0
        /\ R.fills[k] = FillCreate(k - 1, w.orders[i], w.instrument, PriceOf(R), R.alloc[i])
  BY <1>1, <1>2, ExecutionFills
<1>4. PICK f, a, p, o : f = w.fills[k] /\ a = w.alloc[i] /\ p = inputs.price /\ o = w.orders[i]
  OBVIOUS
<1>5. a > 0 /\ p \in Price /\ f = FillCreate(k - 1, o, w.instrument, p, a)
  BY <1>1, <1>3, <1>4
<1>6. /\ a \in Nat /\ a <= o.qty /\ o.qty \in Qty
      /\ IF o.side = "Buy" THEN p <= o.price ELSE p >= o.price
  <2>1. /\ R.alloc[i] \in Nat /\ R.alloc[i] <= w.orders[i].qty
        /\ w.orders[i].qty \in Qty
        /\ R.alloc[i] > 0 =>
             IF w.orders[i].side = "Buy" THEN PriceOf(R) <= w.orders[i].price
                                         ELSE PriceOf(R) >= w.orders[i].price
    BY <1>1, <1>3, ExecutionQualifies
  <2>2. QED
    BY <1>1, <1>3, <1>4, <2>1
<1>7. FromPriceQty(p, a) = p * a
  <2>1. a \in Qty
    BY <1>6, WordWidth DEF Qty
  <2>2. QED
    BY <1>5, <2>1, ConsiderationFits
<1>8. f.order_id = o.id /\ f.fill_qty = a /\ f.consideration = p * a
  BY <1>5, <1>7 DEF FillCreate
<1>9. WellFormedBatch(w.orders) /\ DistinctIds(w.orders)
  BY DEF Passed, SoundWitness
<1>10. o.price \in Price
  BY <1>4, <1>9 DEF WellFormedBatch, WellFormedOrder
<1>11. OrderOf(w, f) = o
  <2> DEFINE first(j) == /\ w.orders[j].id = f.order_id
                         /\ \A m \in 1..(j - 1) : w.orders[m].id # f.order_id
  <2>1. ASSUME NEW j \in 1..Len(w.orders) PROVE w.orders[j].id = f.order_id <=> j = i
    BY <1>4, <1>8, <1>9 DEF DistinctIds
  <2>2. first(i)
    <3>1. ASSUME NEW m \in 1..(i - 1) PROVE w.orders[m].id # f.order_id
      <4>1. m \in 1..Len(w.orders) /\ m # i
        BY <1>9 DEF WellFormedBatch
      <4>2. QED
        BY <2>1, <4>1
    <3>2. QED
      BY <2>1, <3>1
  <2>3. \A j \in 1..Len(w.orders) : first(j) => j = i
    BY <2>1
  <2>4. OrderOf(w, f) = w.orders[CHOOSE j \in 1..Len(w.orders) : first(j)]
    BY DEF OrderOf
  <2> HIDE DEF first
  <2>5. (CHOOSE j \in 1..Len(w.orders) : first(j)) = i
    BY <2>2, <2>3
  <2>6. QED
    BY <1>4, <2>4, <2>5
<1>12. QED
  BY <1>4, <1>5, <1>6, <1>8, <1>10, <1>11

\* synthesize_fill_bounds_constraints has nothing to object.
LEMMA FillsRepeated ==
  ASSUME NEW inputs, NEW w, NEW sorts, Passed(inputs, w, sorts)
  PROVE  FillsSynthesize(w, inputs.price)
<1>1. ASSUME NEW k \in 1..Len(w.fills)
      PROVE  /\ \E i \in 1..Len(w.orders) : w.orders[i].id = w.fills[k].order_id
             /\ LET o == OrderOf(w, w.fills[k])
                IN  /\ w.fills[k].fill_qty <= o.qty
                    /\ w.fills[k].fill_qty > 0 =>
                         IF o.side = "Buy" THEN inputs.price <= o.price
                                           ELSE inputs.price >= o.price
  <2>1. PICK i \in 1..Len(w.orders) :
           /\ OrderOf(w, w.fills[k]) = w.orders[i]
           /\ w.orders[i].id = w.fills[k].order_id
           /\ w.fills[k].fill_qty = w.alloc[i]
           /\ w.alloc[i] <= w.orders[i].qty
           /\ IF w.orders[i].side = "Buy" THEN inputs.price <= w.orders[i].price
                                          ELSE inputs.price >= w.orders[i].price
    BY FillOfOrder
  <2>2. QED
    BY <2>1
<1>2. QED
  BY <1>1 DEF FillsSynthesize

\* Once the plaintext checks have passed, only the oracle policy is left to
\* keep the constraints from being synthesized.
LEMMA SynthesisOfPassed ==
  ASSUME NEW inputs, NEW w, NEW sorts, Passed(inputs, w, sorts)
  PROVE  SynthesisError(w, inputs.price, inputs.volume, sorts)
           = IF OracleAdmitted(w, inputs.price) THEN "ok" ELSE "oracle_policy"
<1>1. AccountingSynthesizes(w)
  BY AccountingRepeated
<1>2. /\ OutcomeSynthesizes(w, inputs.price, inputs.volume)
      /\ AllocationSynthesizes(w, inputs.price, inputs.volume, sorts)
  BY AllocationRepeated
<1>3. FillsSynthesize(w, inputs.price)
  BY FillsRepeated
<1>4. QED
  BY <1>1, <1>2, <1>3 DEF SynthesisError

\* A slack variable holds the difference when there is one.
LEMMA SlackOf ==
  ASSUME NEW x \in Nat, NEW y \in Nat, y <= x
  PROVE  SlackHolds(x, y) /\ SaturatingSub(x, y) = x - y
  BY DEF SlackHolds, SaturatingSub

LEMMA OptimalityRepeated ==
  ASSUME NEW inputs, NEW w, NEW sorts, Passed(inputs, w, sorts)
  PROVE  Optimality(w, inputs.volume)
<1>1. PICK b : b = w.orders
  OBVIOUS
<1>2. WellFormedBatch(b) /\ ~CurvesOverflow(b)
  BY <1>1 DEF Passed, Executes
<1>3. inputs.volume = MaxVolume(b) /\ inputs.volume \in Nat
  <2>1. DetermineClearingOutcome(b).executable_volume = MaxVolume(b)
    BY <1>2, OutcomeMaximises
  <2>2. DetermineClearingOutcome(b) = Outcome(TRUE, inputs.price, inputs.volume)
    BY <1>1 DEF Passed, VerifyTransition, Claimed
  <2>3. QED
    BY <2>1, <2>2, PassedExecution DEF Outcome
<1>4. ASSUME NEW p \in CandidatePrices(b)
      PROVE  SlackHolds(inputs.volume, Smaller(DemandFromOrders(b, p), SupplyFromOrders(b, p)))
  <2>1. p \in Price
    BY <1>2, CandidatesArePrices
  <2>2. /\ DemandFromOrders(b, p) = DemandAt(b, p) /\ SupplyFromOrders(b, p) = SupplyAt(b, p)
        /\ DemandAt(b, p) \in Qty /\ SupplyAt(b, p) \in Qty
    BY <1>2, <2>1, CurvesFit
  <2>3. Smaller(DemandAt(b, p), SupplyAt(b, p)) <= inputs.volume
    BY <1>2, <1>3, <2>1, MaxVolumeEverywhere
  <2>4. Smaller(DemandAt(b, p), SupplyAt(b, p)) \in Nat
    BY <2>2, WordWidth DEF Qty, Smaller
  <2>5. QED
    BY <1>3, <2>2, <2>3, <2>4, SlackOf
<1>5. QED
  BY <1>1, <1>4 DEF Optimality

LEMMA BoundsRepeated ==
  ASSUME NEW inputs, NEW w, NEW sorts, Passed(inputs, w, sorts)
  PROVE  AllocationBounds(w, inputs.price, inputs.volume)
<1> SUFFICES ASSUME inputs.price # NoPrice
             PROVE  /\ \A i \in 1..Len(w.orders) :
                         IF ClassifyOrder(w.orders[i], inputs.price) = "OutOfTheMoney"
                         THEN w.alloc[i] = 0
                         ELSE SlackHolds(w.orders[i].qty, w.alloc[i])
                    /\ \A side \in Sides :
                         AllocatedTo(w.orders, w.alloc, side) = inputs.volume
  BY DEF AllocationBounds
<1> DEFINE R == ClaimedExecution(inputs, w)
<1>1. /\ Executes(w.orders, w.instrument, sorts, R)
      /\ R.alloc = w.alloc /\ VolumeOf(R) = inputs.volume /\ PriceOf(R) = inputs.price
      /\ inputs.volume \in Nat /\ (inputs.volume = 0 <=> inputs.price = NoPrice)
      /\ inputs.volume > 0 => inputs.price \in Price
  BY PassedExecution
<1> HIDE DEF R
<1>2. VolumeOf(R) > 0 /\ inputs.price \in Price
  BY <1>1
<1>3. ASSUME NEW i \in 1..Len(w.orders)
      PROVE  IF ClassifyOrder(w.orders[i], inputs.price) = "OutOfTheMoney"
             THEN w.alloc[i] = 0 ELSE SlackHolds(w.orders[i].qty, w.alloc[i])
  <2>1. PICK o, a, p : o = w.orders[i] /\ a = w.alloc[i] /\ p = inputs.price
    OBVIOUS
  <2>2. /\ a \in Nat /\ a <= o.qty /\ o.qty \in Qty /\ o.side \in Sides
        /\ a > 0 => IF o.side = "Buy" THEN p <= o.price ELSE p >= o.price
    <3>1. /\ R.alloc[i] \in Nat /\ R.alloc[i] <= w.orders[i].qty
          /\ w.orders[i].qty \in Qty /\ w.orders[i].side \in Sides
          /\ R.alloc[i] > 0 =>
               IF w.orders[i].side = "Buy" THEN PriceOf(R) <= w.orders[i].price
                                           ELSE PriceOf(R) >= w.orders[i].price
      BY <1>1, <1>2, ExecutionQualifies
    <3>2. QED
      BY <1>1, <2>1, <3>1
  <2>3. o.price \in Nat /\ p \in Nat
    <3>1. o.price \in Price
      BY <2>1 DEF Passed, SoundWitness, WellFormedBatch, WellFormedOrder
    <3>2. QED
      BY <1>2, <2>1, <3>1, WordWidth DEF Price
  <2>4. CASE ClassifyOrder(o, p) = "OutOfTheMoney"
    <3>1. o.price # p /\ ~((o.side = "Buy") = (o.price > p))
      BY <2>4 DEF ClassifyOrder
    <3>2. IF o.side = "Buy" THEN o.price < p ELSE o.price > p
      BY <2>3, <3>1
    <3>3. a = 0
      BY <2>2, <2>3, <3>2
    <3>4. QED
      BY <2>1, <2>4, <3>3
  <2>5. CASE ClassifyOrder(o, p) # "OutOfTheMoney"
    <3>1. a \in Nat /\ o.qty \in Nat /\ a <= o.qty
      BY <2>2, WordWidth DEF Qty
    <3>2. SlackHolds(o.qty, a)
      BY <3>1, SlackOf
    <3>3. QED
      BY <2>1, <2>5, <3>2
  <2>6. QED
    BY <2>4, <2>5
<1>4. ASSUME NEW side \in Sides PROVE AllocatedTo(w.orders, w.alloc, side) = inputs.volume
  BY <1>1, ExecutionVolume
<1>5. QED
  BY <1>3, <1>4

LEMMA RemainderOfSmall ==
  ASSUME NEW x \in Nat, NEW d \in Nat, x < d
  PROVE  x % d = x
  OBVIOUS

\* Money that fits in a word is not cut.
LEMMA WordOfSmall ==
  ASSUME NEW x \in Nat, x <= MaxRaw
  PROVE  Word(x) = x
<1>1. MaxRaw + 1 \in Nat /\ x < MaxRaw + 1
  BY WordWidth
<1>2. QED
  BY <1>1, RemainderOfSmall DEF Word

LEMMA FillBoundsRepeated ==
  ASSUME NEW inputs, NEW w, NEW sorts, Passed(inputs, w, sorts), ~BeyondAWord(w)
  PROVE  FillBounds(w, inputs.price)
<1>1. ASSUME NEW k \in 1..Len(w.fills)
      PROVE  LET o == OrderOf(w, w.fills[k])
             IN  /\ inputs.price * w.fills[k].fill_qty = Word(w.fills[k].consideration)
                 /\ IF o.side = "Buy" THEN SlackHolds(o.price, inputs.price)
                                      ELSE SlackHolds(inputs.price, o.price)
  <2>1. PICK i \in 1..Len(w.orders) :
           /\ OrderOf(w, w.fills[k]) = w.orders[i]
           /\ w.fills[k].fill_qty = w.alloc[i]
           /\ w.fills[k].consideration = inputs.price * w.alloc[i]
           /\ w.alloc[i] \in Nat
           /\ inputs.price \in Price /\ w.orders[i].price \in Price
           /\ IF w.orders[i].side = "Buy" THEN inputs.price <= w.orders[i].price
                                          ELSE inputs.price >= w.orders[i].price
    BY FillOfOrder
  <2>2. PICK p, a, o, c : /\ p = inputs.price /\ a = w.alloc[i] /\ o = w.orders[i]
                          /\ c = w.fills[k].consideration
    OBVIOUS
  <2>3. p \in Nat /\ a \in Nat /\ o.price \in Nat /\ c = p * a
    BY <2>1, <2>2, WordWidth DEF Price
  <2>4. ~(c > MaxRaw)
    BY <2>2 DEF BeyondAWord
  <2>5. c \in Nat /\ c <= MaxRaw
    BY <2>3, <2>4, WordWidth
  <2>6. Word(c) = p * a
    BY <2>3, <2>5, WordOfSmall
  <2>7. IF o.side = "Buy" THEN p <= o.price ELSE p >= o.price
    BY <2>1, <2>2
  <2>8. IF o.side = "Buy" THEN SlackHolds(o.price, p) ELSE SlackHolds(p, o.price)
    BY <2>3, <2>7, SlackOf
  <2>9. QED
    BY <2>1, <2>2, <2>6, <2>8
<1>2. QED
  BY <1>1 DEF FillBounds

\* What the policy admits leaves the slacks whole.
LEMMA OracleRepeated ==
  ASSUME NEW inputs, NEW w, NEW sorts, Passed(inputs, w, sorts),
         OracleAdmitted(w, inputs.price)
  PROVE  OracleSlacks(w, inputs.price)
<1> SUFFICES ASSUME OracleConsulted(w, inputs.price)
             PROVE  LET reference == w.oracle.snapshot.price
                        age == SaturatingSub(w.cutoff, w.oracle.snapshot.timestamp)
                        apart == IF inputs.price > reference THEN inputs.price - reference
                                 ELSE reference - inputs.price
                    IN  /\ SlackHolds(w.cutoff, w.oracle.snapshot.timestamp)
                        /\ SlackHolds(w.oracle.policy.max_staleness, age)
                        /\ SlackHolds(w.oracle.policy.max_deviation, apart)
  BY DEF OracleSlacks
<1>1. PICK p, c, r, t, s, d :
        /\ p = inputs.price /\ c = w.cutoff
        /\ r = w.oracle.snapshot.price /\ t = w.oracle.snapshot.timestamp
        /\ s = w.oracle.policy.max_staleness /\ d = w.oracle.policy.max_deviation
  OBVIOUS
<1>2. w.oracle.present /\ p # NoPrice /\ p \in Nat
  BY <1>1, PassedExecution DEF OracleConsulted
<1>3. c \in Nat /\ IsOracle(w.oracle)
  BY <1>1 DEF Passed, SoundWitness
<1>4. r \in Nat /\ t \in Nat /\ s \in Nat /\ d \in Nat
  <2>1. w.oracle # NoOracle
    BY <1>2 DEF NoOracle
  <2>2. QED
    BY <1>1, <1>3, <2>1 DEF IsOracle
<1>5. ValidReference(w.oracle, w.instrument, w.cutoff, inputs.price)
  BY DEF OracleAdmitted
<1>6. /\ t <= c /\ c - t <= s
      /\ (IF p >= r THEN p - r ELSE r - p) <= d
  BY <1>1, <1>2, <1>5 DEF ValidReference, Fresh, WithinCollar
<1>7. SlackHolds(c, t) /\ SaturatingSub(c, t) = c - t /\ c - t \in Nat
  BY <1>3, <1>4, <1>6, SlackOf
<1>8. SlackHolds(s, c - t)
  BY <1>4, <1>6, <1>7, SlackOf
<1>9. SlackHolds(d, IF p > r THEN p - r ELSE r - p)
  <2>1. /\ (IF p > r THEN p - r ELSE r - p) \in Nat
        /\ (IF p > r THEN p - r ELSE r - p) <= d
    BY <1>2, <1>4, <1>6
  <2>2. QED
    BY <1>4, <2>1, SlackOf
<1>10. QED
  BY <1>1, <1>7, <1>8, <1>9

\* The constraints one by one.
LEMMA ConservationIs ==
  ASSUME NEW w,
         \A a \in w.pre.accounts :
           /\ Word(w.post.cash[a]) = Word(w.pre.cash[a])
                + Total([k \in 1..Len(w.fills) |->
                           IF w.fills[k].account # a THEN 0
                           ELSE IF w.fills[k].side = "Buy" THEN -Word(w.fills[k].consideration)
                           ELSE Word(w.fills[k].consideration)], Len(w.fills))
           /\ w.post.inv[w.instrument][a] = w.pre.inv[w.instrument][a]
                + Total([k \in 1..Len(w.fills) |->
                           IF w.fills[k].account # a THEN 0
                           ELSE QtyEffect(w.fills[k])], Len(w.fills)),
         Total([a \in Account |-> IF a \in w.pre.accounts THEN Word(w.pre.cash[a]) ELSE 0],
               NumAccounts)
           = Total([a \in Account |-> IF a \in w.pre.accounts THEN Word(w.post.cash[a]) ELSE 0],
                   NumAccounts),
         Total([a \in Account |-> IF a \in w.pre.accounts
                                  THEN w.pre.inv[w.instrument][a] ELSE 0], NumAccounts)
           = Total([a \in Account |-> IF a \in w.pre.accounts
                                      THEN w.post.inv[w.instrument][a] ELSE 0], NumAccounts)
  PROVE  Conservation(w)
  BY DEF Conservation

\* What verify_transition has compared with the rebuilt ledger.
LEMMA PassedLedgers ==
  ASSUME NEW inputs, NEW w, NEW sorts, Passed(inputs, w, sorts)
  PROVE  /\ w.fills \in Seq(FillType)
         /\ w.post.accounts = w.pre.accounts
         /\ \A a \in w.pre.accounts :
              /\ w.post.cash[a]
                   = w.pre.cash[a] + Total(CashMoved(w.fills, a), Len(w.fills))
              /\ w.post.inv[w.instrument][a] = w.pre.inv[w.instrument][a]
                   + Total(LotsMoved(w.fills, a), Len(w.fills))
         /\ CashSum(w.pre) = CashSum(w.post)
         /\ InvSum(w.pre, w.instrument) = InvSum(w.post, w.instrument)
<1> DEFINE R == ClaimedExecution(inputs, w)
           t == ApplyBatchTransition(w.pre, w.fills)
<1>1. /\ WellFormed(w.pre) /\ w.instrument \in Instruments
      /\ \A i \in 1..Len(w.orders) : w.orders[i].account \in Account
  BY DEF Passed, SoundWitness
<1>2. /\ w.fills \in Seq(FillType)
      /\ \A k \in 1..Len(w.fills) :
           w.fills[k].consideration >= 1 /\ w.fills[k].instrument = w.instrument
  <2>1. Executes(w.orders, w.instrument, sorts, R) /\ R.fills = w.fills
    BY PassedExecution
  <2> HIDE DEF R
  <2>2. /\ R.fills \in Seq(FillType)
        /\ \A k \in 1..Len(R.fills) :
             R.fills[k].consideration >= 1 /\ R.fills[k].instrument = w.instrument
    <3>1. PICK b \in {w.orders}, x \in Instruments : x = w.instrument
      BY <1>1
    <3>2. Executes(b, x, sorts, R) /\ \A i \in 1..Len(b) : b[i].account \in Account
      BY <1>1, <2>1, <3>1
    <3>3. /\ R.fills \in Seq(FillType)
          /\ \A k \in 1..Len(R.fills) :
               R.fills[k].consideration >= 1 /\ R.fills[k].instrument = x
      BY <3>2, ExecutionFillTypes
    <3>4. QED
      BY <3>1, <3>3
  <2>3. QED
    BY <2>1, <2>2
<1>3. /\ t.ledger.accounts = w.pre.accounts
      /\ t.ok => \A a \in Account :
           /\ t.ledger.cash[a] = w.pre.cash[a] + Total(CashMoved(w.fills, a), Len(w.fills))
           /\ t.ledger.inv[w.instrument][a] = w.pre.inv[w.instrument][a]
                + Total(LotsMoved(w.fills, a), Len(w.fills))
  <2>1. PICK l \in {w.pre}, fs \in Seq(FillType), x \in Instruments :
          fs = w.fills /\ x = w.instrument
    BY <1>1, <1>2
  <2>2. /\ WellFormed(l)
        /\ \A k \in 1..Len(fs) : fs[k].consideration >= 1 /\ fs[k].instrument = x
    BY <1>1, <1>2, <2>1
  <2>3. LET u == ApplyBatchTransition(l, fs)
        IN  /\ u.ledger.accounts = l.accounts
            /\ u.ok => \A a \in Account :
                 /\ u.ledger.cash[a] = l.cash[a] + Total(CashMoved(fs, a), Len(fs))
                 /\ u.ledger.inv[x][a] = l.inv[x][a] + Total(LotsMoved(fs, a), Len(fs))
    BY <2>2, TransitionLedger
  <2>4. QED
    BY <2>1, <2>3
<1>4. Claimed(inputs, w).post = w.post /\ Claimed(inputs, w).fills = w.fills
  BY DEF Claimed
<1>5. /\ MatchesReconstruction(w.pre, Claimed(inputs, w), w.instrument)
      /\ CashConserved(w.pre, Claimed(inputs, w).post)
      /\ Err # TotalInventoryOf(w.pre, w.instrument)
      /\ TotalInventoryOf(w.pre, w.instrument)
           = TotalInventoryOf(Claimed(inputs, w).post, w.instrument)
  BY DEF Passed, VerifyTransition
<1>6. /\ t.ok /\ w.post.accounts = t.ledger.accounts
      /\ \A a \in t.ledger.accounts :
           /\ w.post.cash[a] = t.ledger.cash[a]
           /\ w.post.inv[w.instrument][a] = t.ledger.inv[w.instrument][a]
  BY <1>4, <1>5 DEF MatchesReconstruction
<1> HIDE DEF t
<1>7. ASSUME NEW a \in w.pre.accounts
      PROVE  /\ w.post.cash[a]
                  = w.pre.cash[a] + Total(CashMoved(w.fills, a), Len(w.fills))
             /\ w.post.inv[w.instrument][a] = w.pre.inv[w.instrument][a]
                  + Total(LotsMoved(w.fills, a), Len(w.fills))
  <2>1. a \in Account /\ a \in t.ledger.accounts
    BY <1>1, <1>3 DEF WellFormed, LedgerType
  <2>2. QED
    BY <1>3, <1>6, <2>1
<1>8. CashSum(w.pre) = CashSum(w.post)
  BY <1>4, <1>5 DEF CashConserved, TotalCash, CheckedTotal, CashSum
<1>9. InvSum(w.pre, w.instrument) = InvSum(w.post, w.instrument)
  BY <1>4, <1>5 DEF TotalInventoryOf, CheckedTotal, InvSum
<1>10. QED
  BY <1>2, <1>3, <1>6, <1>7, <1>8, <1>9

\* synthesize_conservation_constraints: money that fits in a word moves as the
\* settlement moved it.
LEMMA ConservationRepeated ==
  ASSUME NEW inputs, NEW w, NEW sorts, Passed(inputs, w, sorts), ~BeyondAWord(w)
  PROVE  Conservation(w)
<1>1. PICK x, fs, n : x = w.instrument /\ fs = w.fills /\ n = Len(fs)
  OBVIOUS
<1>2. /\ fs \in Seq(FillType) /\ n \in Nat
      /\ w.post.accounts = w.pre.accounts
      /\ \A a \in w.pre.accounts :
           /\ w.post.cash[a] = w.pre.cash[a] + Total(CashMoved(fs, a), n)
           /\ w.post.inv[x][a] = w.pre.inv[x][a] + Total(LotsMoved(fs, a), n)
      /\ CashSum(w.pre) = CashSum(w.post) /\ InvSum(w.pre, x) = InvSum(w.post, x)
  BY <1>1, PassedLedgers
<1>3. WellFormed(w.pre) /\ WellFormed(w.post) /\ x \in Instruments
  BY <1>1 DEF Passed, SoundWitness
<1>4. ASSUME NEW a \in Account
      PROVE  /\ w.pre.cash[a] \in Nat /\ w.post.cash[a] \in Nat
             /\ w.pre.inv[x][a] \in Nat /\ w.post.inv[x][a] \in Nat
             /\ Word(w.pre.cash[a]) = w.pre.cash[a] /\ Word(w.post.cash[a]) = w.post.cash[a]
  <2>1. /\ w.pre.cash[a] \in Nat /\ w.post.cash[a] \in Nat
        /\ w.pre.inv[x][a] \in Nat /\ w.post.inv[x][a] \in Nat
    BY <1>3, WordWidth, MoneyWidth DEF WellFormed, LedgerType, Money, Qty
  <2>2. ~(w.pre.cash[a] > MaxRaw) /\ ~(w.post.cash[a] > MaxRaw)
    BY DEF BeyondAWord
  <2>3. w.pre.cash[a] <= MaxRaw /\ w.post.cash[a] <= MaxRaw
    BY <2>1, <2>2, WordWidth
  <2>4. QED
    BY <2>1, <2>3, WordOfSmall
<1>5. ASSUME NEW k \in 1..n
      PROVE  fs[k].consideration \in Nat /\ Word(fs[k].consideration) = fs[k].consideration
  <2>1. PICK f \in FillType : f = fs[k]
    BY <1>1, <1>2
  <2>2. f.consideration \in Nat
    BY <2>1, MoneyWidth DEF FillType, Money
  <2>3. ~(f.consideration > MaxRaw)
    BY <1>1, <2>1 DEF BeyondAWord
  <2>4. QED
    BY <2>1, <2>2, <2>3, WordWidth, WordOfSmall
<1>6. ASSUME NEW a \in w.pre.accounts
      PROVE  /\ Word(w.post.cash[a]) = Word(w.pre.cash[a])
                  + Total([k \in 1..n |->
                             IF fs[k].account # a THEN 0
                             ELSE IF fs[k].side = "Buy" THEN -Word(fs[k].consideration)
                             ELSE Word(fs[k].consideration)], n)
             /\ w.post.inv[x][a] = w.pre.inv[x][a]
                  + Total([k \in 1..n |-> IF fs[k].account # a THEN 0
                                          ELSE QtyEffect(fs[k])], n)
  <2> DEFINE c == [k \in 1..n |->
                     IF fs[k].account # a THEN 0
                     ELSE IF fs[k].side = "Buy" THEN -Word(fs[k].consideration)
                     ELSE Word(fs[k].consideration)]
             q == [k \in 1..n |-> IF fs[k].account # a THEN 0 ELSE QtyEffect(fs[k])]
  <2>1. \A k \in 1..n : CashMoved(fs, a)[k] \in Int /\ LotsMoved(fs, a)[k] \in Int
    BY <1>1, <1>2, MovesAreIntegers
  <2>2. \A k \in 1..n : c[k] = CashMoved(fs, a)[k] /\ q[k] = LotsMoved(fs, a)[k]
    BY <1>1, <1>5 DEF CashMoved, LotsMoved, CashEffect
  <2> HIDE DEF c, q
  <2>3. Total(CashMoved(fs, a), n) = Total(c, n)
    BY <1>2, <2>1, <2>2, TotalEqual
  <2>4. Total(LotsMoved(fs, a), n) = Total(q, n)
    BY <1>2, <2>1, <2>2, TotalEqual
  <2>5. a \in Account
    BY <1>3 DEF WellFormed, LedgerType
  <2>6. /\ Word(w.pre.cash[a]) = w.pre.cash[a] /\ Word(w.post.cash[a]) = w.post.cash[a]
        /\ w.post.cash[a] = w.pre.cash[a] + Total(CashMoved(fs, a), n)
        /\ w.post.inv[x][a] = w.pre.inv[x][a] + Total(LotsMoved(fs, a), n)
    BY <1>2, <1>4, <2>5
  <2>7. Word(w.post.cash[a]) = Word(w.pre.cash[a]) + Total(c, n)
        /\ w.post.inv[x][a] = w.pre.inv[x][a] + Total(q, n)
    BY <2>3, <2>4, <2>6
  <2>8. QED
    BY <2>7 DEF c, q
<1>7. ASSUME NEW l \in {w.pre, w.post}
      PROVE  /\ Total([a \in Account |-> IF a \in w.pre.accounts THEN Word(l.cash[a]) ELSE 0],
                      NumAccounts) = CashSum(l)
             /\ Total([a \in Account |-> IF a \in w.pre.accounts THEN l.inv[x][a] ELSE 0],
                      NumAccounts) = InvSum(l, x)
  <2> DEFINE c == [a \in Account |-> IF a \in w.pre.accounts THEN Word(l.cash[a]) ELSE 0]
             q == [a \in Account |-> IF a \in w.pre.accounts THEN l.inv[x][a] ELSE 0]
  <2>1. l.accounts = w.pre.accounts /\ WellFormed(l)
    BY <1>2, <1>3
  <2>2. ASSUME NEW a \in Account \ w.pre.accounts PROVE l.cash[a] = 0 /\ l.inv[x][a] = 0
    BY <1>3, <2>1 DEF WellFormed
  <2>3. ASSUME NEW a \in 1..NumAccounts
        PROVE  /\ l.cash[a] \in Int /\ c[a] = l.cash[a]
               /\ l.inv[x][a] \in Int /\ q[a] = l.inv[x][a]
    <3>1. a \in Account
      BY DEF Account
    <3>2. l.cash[a] \in Nat /\ l.inv[x][a] \in Nat /\ Word(l.cash[a]) = l.cash[a]
      BY <1>4, <3>1
    <3>3. QED
      BY <2>2, <3>1, <3>2
  <2>4. l.cash = w.pre.cash \/ l.cash = w.post.cash
    OBVIOUS
  <2> HIDE DEF c, q
  <2>5. Total(l.cash, NumAccounts) = Total(c, NumAccounts)
    BY <2>3, AccountRange, TotalEqual
  <2>6. Total(l.inv[x], NumAccounts) = Total(q, NumAccounts)
    BY <2>3, AccountRange, TotalEqual
  <2>7. QED
    BY <2>5, <2>6 DEF CashSum, InvSum, c, q
<1>8. /\ Total([a \in Account |-> IF a \in w.pre.accounts THEN Word(w.pre.cash[a]) ELSE 0],
               NumAccounts)
           = Total([a \in Account |-> IF a \in w.pre.accounts THEN Word(w.post.cash[a]) ELSE 0],
                   NumAccounts)
      /\ Total([a \in Account |-> IF a \in w.pre.accounts THEN w.pre.inv[x][a] ELSE 0],
               NumAccounts)
           = Total([a \in Account |-> IF a \in w.pre.accounts THEN w.post.inv[x][a] ELSE 0],
                   NumAccounts)
  <2>1. w.pre \in {w.pre, w.post} /\ w.post \in {w.pre, w.post}
    OBVIOUS
  <2>2. QED
    BY <1>2, <1>7, <2>1
<1>9. QED
  BY <1>1, <1>6, <1>8, ConservationIs, ZenonT(60)

\* Of a claim that passed, the constraints hold, but for the sequence gadget
\* and for money beyond a word.
LEMMA ConstraintsOfPassed ==
  ASSUME NEW inputs, NEW w, NEW sorts, Passed(inputs, w, sorts)
  PROVE  /\ Satisfied(w, inputs.price, inputs.volume)
              => \A i \in 1..Len(w.orders) : w.orders[i].seq = i - 1
         /\ /\ \A i \in 1..Len(w.orders) : w.orders[i].seq = i - 1
            /\ OracleAdmitted(w, inputs.price) /\ ~BeyondAWord(w)
            => Satisfied(w, inputs.price, inputs.volume)
<1>1. Satisfied(w, inputs.price, inputs.volume)
        => \A i \in 1..Len(w.orders) : w.orders[i].seq = i - 1
  BY DEF Satisfied, OrderValidity
<1>2. ASSUME \A i \in 1..Len(w.orders) : w.orders[i].seq = i - 1,
             OracleAdmitted(w, inputs.price), ~BeyondAWord(w)
      PROVE  Satisfied(w, inputs.price, inputs.volume)
  <2>1. OrderValidity(w)
    <3>1. \A i \in 1..Len(w.orders) : w.orders[i].instrument = w.instrument
      BY DEF Passed, SoundWitness
    <3>2. QED
      BY <1>2, <3>1 DEF OrderValidity
  <2>2. Optimality(w, inputs.volume)
    BY OptimalityRepeated
  <2>3. AllocationBounds(w, inputs.price, inputs.volume)
    BY BoundsRepeated
  <2>4. FillBounds(w, inputs.price)
    BY <1>2, FillBoundsRepeated
  <2>5. Conservation(w)
    BY <1>2, ConservationRepeated
  <2>6. OracleSlacks(w, inputs.price)
    BY <1>2, OracleRepeated
  <2>7. QED
    BY <2>1, <2>2, <2>3, <2>4, <2>5, <2>6 DEF Satisfied
<1>3. QED
  BY <1>1, <1>2

PlaintextRefusals ==
  {"InputBindingFailed", "PublicInputMismatch", "StateTransitionInvariantFailed",
   "CompleteInputAccountingFailed"}

\* What prove says once its plaintext checks and the roots are behind it.
LEMMA RefusalOfPassed ==
  ASSUME NEW inputs, NEW w, NEW sorts, Passed(inputs, w, sorts),
         inputs.header = HeaderHash(w.batch_id, w.instrument, w.cutoff,
                                    LeavesOf(w.preimages)),
         inputs.pre = LedgerRoot(w.pre, w.instrument),
         inputs.post = LedgerRoot(w.post, w.instrument),
         inputs.oracle = OracleHash(w.oracle)
  PROVE  Refusal(inputs, w, sorts)
           = IF ~OracleAdmitted(w, inputs.price) THEN "oracle_policy"
             ELSE IF ~Satisfied(w, inputs.price, inputs.volume) THEN "R1CSUnsatisfied"
             ELSE "ok"
<1>1. SynthesisError(w, inputs.price, inputs.volume, sorts)
        = IF OracleAdmitted(w, inputs.price) THEN "ok" ELSE "oracle_policy"
  BY SynthesisOfPassed
<1>2. /\ PreimagesBound(w) /\ RecordsBound(w)
      /\ VerifyTransition(w.pre, w.orders, w.instrument, sorts, Claimed(inputs, w))
      /\ VerifyAccounting(w.orders, LeavesOf(w.preimages), w.accounting, w.alloc)
  BY DEF Passed
<1>3. Refusal(inputs, w, sorts)
        = LET synthesis == SynthesisError(w, inputs.price, inputs.volume, sorts)
          IN  IF synthesis # "ok" THEN synthesis
              ELSE IF ~Satisfied(w, inputs.price, inputs.volume) THEN "R1CSUnsatisfied"
              ELSE "ok"
  BY <1>2 DEF Refusal, Claimed
<1>4. "oracle_policy" # "ok"
  OBVIOUS
<1>5. CASE OracleAdmitted(w, inputs.price)
  <2>1. SynthesisError(w, inputs.price, inputs.volume, sorts) = "ok"
    BY <1>1, <1>5
  <2>2. QED
    BY <1>3, <1>5, <2>1
<1>6. CASE ~OracleAdmitted(w, inputs.price)
  <2>1. SynthesisError(w, inputs.price, inputs.volume, sorts) = "oracle_policy"
    BY <1>1, <1>6
  <2>2. QED
    BY <1>3, <1>4, <1>6, <2>1
<1>7. QED
  BY <1>5, <1>6

\* Whatever is not refused by a plaintext check has passed them all.
LEMMA PastThePlaintext ==
  ASSUME NEW inputs, NEW w, NEW sorts, Refusal(inputs, w, sorts) \notin PlaintextRefusals
  PROVE  /\ PreimagesBound(w) /\ RecordsBound(w)
         /\ inputs.header = HeaderHash(w.batch_id, w.instrument, w.cutoff,
                                       LeavesOf(w.preimages))
         /\ VerifyTransition(w.pre, w.orders, w.instrument, sorts, Claimed(inputs, w))
         /\ VerifyAccounting(w.orders, LeavesOf(w.preimages), w.accounting, w.alloc)
         /\ inputs.pre = LedgerRoot(w.pre, w.instrument)
         /\ inputs.post = LedgerRoot(w.post, w.instrument)
         /\ inputs.oracle = OracleHash(w.oracle)
  BY DEF Refusal, Claimed, PlaintextRefusals

\* synthesize_single_batch_constraints: whatever the inputs and the witness,
\* what verify_transition and the accounting accept is refused by the circuit
\* only for the oracle policy, the sequence gadget, or money beyond a word.
THEOREM CircuitRepeats == StatementSpec => []CircuitRepeatsTheChecks
<1>1. StatementIInv => CircuitRepeatsTheChecks
  <2> SUFFICES ASSUME StatementIInv, verdict # "none", verdict \notin PlaintextRefusals
               PROVE  LET w == claim.witness
                      IN  \/ verdict \in {"ok", "oracle_policy"}
                          \/ /\ verdict = "R1CSUnsatisfied"
                             /\ \/ \E i \in 1..Len(w.orders) : w.orders[i].seq # i - 1
                                \/ BeyondAWord(w)
    BY DEF CircuitRepeatsTheChecks, PlaintextRefusals
  <2>1. claim # None
    BY DEF StatementIInv, VerdictIsTheProvers
  <2>2. PICK sorts \in ProverSorts(claim.witness.orders) :
          verdict = Refusal(claim.inputs, claim.witness, sorts)
    BY DEF StatementIInv, VerdictIsTheProvers
  <2>3. PICK w, inputs : w = claim.witness /\ inputs = claim.inputs
    OBVIOUS
  <2>4. /\ PreimagesBound(w) /\ RecordsBound(w)
        /\ inputs.header = HeaderHash(w.batch_id, w.instrument, w.cutoff,
                                      LeavesOf(w.preimages))
        /\ VerifyTransition(w.pre, w.orders, w.instrument, sorts, Claimed(inputs, w))
        /\ VerifyAccounting(w.orders, LeavesOf(w.preimages), w.accounting, w.alloc)
        /\ inputs.pre = LedgerRoot(w.pre, w.instrument)
        /\ inputs.post = LedgerRoot(w.post, w.instrument)
        /\ inputs.oracle = OracleHash(w.oracle)
    <3>1. Refusal(inputs, w, sorts) \notin PlaintextRefusals
      BY <2>2, <2>3
    <3>2. QED
      BY <3>1, PastThePlaintext
  <2>5. Passed(inputs, w, sorts)
    <3>1. SoundWitness(w)
      BY <2>1, <2>3, ClaimedWitness
    <3>2. Executes(w.orders, w.instrument, sorts, ClaimedExecution(inputs, w))
      BY <2>1, <2>2, <2>3, <2>4, ClaimExecutes
    <3>3. QED
      BY <2>4, <3>1, <3>2 DEF Passed
  <2>6. verdict = IF ~OracleAdmitted(w, inputs.price) THEN "oracle_policy"
                  ELSE IF ~Satisfied(w, inputs.price, inputs.volume) THEN "R1CSUnsatisfied"
                  ELSE "ok"
    BY <2>2, <2>3, <2>4, <2>5, RefusalOfPassed
  <2>7. CASE verdict \in {"ok", "oracle_policy"}
    BY <2>7
  <2>8. CASE verdict \notin {"ok", "oracle_policy"}
    <3>1. /\ verdict = "R1CSUnsatisfied" /\ OracleAdmitted(w, inputs.price)
          /\ ~Satisfied(w, inputs.price, inputs.volume)
      BY <2>6, <2>8
    <3>2. (\E i \in 1..Len(w.orders) : w.orders[i].seq # i - 1) \/ BeyondAWord(w)
      BY <2>5, <3>1, ConstraintsOfPassed
    <3>3. QED
      BY <2>3, <3>1, <3>2
  <2>9. QED
    BY <2>7, <2>8
<1>2. QED
  BY <1>1, StatementInvariant, PTL

\* The preimages and the records that are published are bound to the batch.
LEMMA PublishedBinds ==
  ASSUME CheckerIInv, honest # None, NEW oracle \in Oracles, NEW cutoff \in Cutoffs
  PROVE  LET s == StatementOf(pre, honest, oracle, cutoff)
         IN  /\ PreimagesBound(s.witness) /\ RecordsBound(s.witness)
             /\ VerifyAccounting(s.witness.orders, LeavesOf(s.witness.preimages),
                                 s.witness.accounting, s.witness.alloc)
<1>1. PICK s, w : s = StatementOf(pre, honest, oracle, cutoff) /\ w = s.witness
  OBVIOUS
<1> DEFINE images == [i \in 1..Len(batch) |-> [order |-> batch[i], nonce |-> i]]
<1>2. /\ w.pre = pre /\ w.post = honest.post /\ w.orders = batch /\ w.instrument = inst
      /\ w.preimages = images /\ w.alloc = honest.alloc /\ w.fills = honest.fills
      /\ w.accounting = BuildAccounting(images, honest.alloc)
  BY <1>1 DEF StatementOf
<1>3. /\ ClearingIInv /\ stage = "executed" /\ WellFormed(pre) /\ inst \in Instruments
  BY DEF CheckerIInv, HonestIsTheExecution
<1>4. SoundWitness(w)
  BY <1>1, PublishedWitness
<1>5. /\ Len(images) = Len(batch) /\ Len(batch) \in Nat
      /\ \A i \in 1..Len(batch) : images[i] = [order |-> batch[i], nonce |-> i]
  BY <1>3, ExecutedOutcome DEF WellFormedBatch
<1> HIDE DEF images
<1>6. PreimagesBound(w)
  <2>1. ASSUME NEW i \in 1..Len(batch)
        PROVE  images[i].order = batch[i]
    <3>1. images[i] = [order |-> batch[i], nonce |-> i]
      BY <1>5
    <3>2. QED
      BY <3>1
  <2>2. Len(w.preimages) = Len(w.orders)
    BY <1>2, <1>5
  <2>3. ASSUME NEW i \in 1..Len(w.orders)
        PROVE  w.preimages[i].order = w.orders[i]
    <3>1. i \in 1..Len(batch) /\ w.preimages = images /\ w.orders = batch
      BY <1>2
    <3>2. QED
      BY <2>1, <3>1
  <2>4. QED
    BY <2>2, <2>3 DEF PreimagesBound
<1>7. PICK n \in Nat, manifest \in {BuildAccounting(images, honest.alloc)} :
        n = Len(batch) /\ n = Len(images)
  BY <1>5
<1>8. /\ manifest.total_committed = n /\ Len(manifest.records) = n
      /\ \A i \in 1..n :
           /\ manifest.records[i].leaf_index = i - 1
           /\ manifest.records[i].order_id = batch[i].id
           /\ manifest.records[i].commitment = CommitOrder(images[i])
           /\ manifest.records[i].disposition = Disposition(honest.alloc[i], batch[i].qty)
  <2>1. /\ manifest.total_committed = n /\ Len(manifest.records) = n
        /\ \A i \in 1..n :
             /\ manifest.records[i].leaf_index = i - 1
             /\ manifest.records[i].order_id = images[i].order.id
             /\ manifest.records[i].commitment = CommitOrder(images[i])
             /\ manifest.records[i].disposition
                  = Disposition(honest.alloc[i], images[i].order.qty)
    BY <1>7, BuiltAccounting
  <2>2. ASSUME NEW i \in 1..n
        PROVE  images[i].order = batch[i]
    <3>1. images[i] = [order |-> batch[i], nonce |-> i]
      BY <1>5, <1>7
    <3>2. QED
      BY <3>1
  <2>3. ASSUME NEW i \in 1..n
        PROVE  /\ manifest.records[i].leaf_index = i - 1
               /\ manifest.records[i].order_id = batch[i].id
               /\ manifest.records[i].commitment = CommitOrder(images[i])
               /\ manifest.records[i].disposition
                    = Disposition(honest.alloc[i], batch[i].qty)
    <3>1. images[i].order = batch[i]
      BY <2>2
    <3>2. QED
      BY <2>1, <3>1
  <2>4. QED
    BY <2>1, <2>3
<1>9. RecordsBound(w)
  <2>1. w.accounting.records = manifest.records /\ Len(w.orders) = n
    BY <1>2, <1>7
  <2>2. \A j, k \in 1..n :
          j # k => manifest.records[j].leaf_index # manifest.records[k].leaf_index
    BY <1>8
  <2>3. ASSUME NEW k \in 1..n
        PROVE  LET leaf == manifest.records[k].leaf_index + 1
               IN  /\ leaf <= n
                   /\ manifest.records[k].order_id = w.orders[leaf].id
                   /\ manifest.records[k].commitment = CommitOrder(w.preimages[leaf])
    <3>1. manifest.records[k].leaf_index + 1 = k
      BY <1>8
    <3>2. QED
      BY <1>2, <1>8, <3>1
  <2>4. QED
    BY <1>8, <2>1, <2>2, <2>3 DEF RecordsBound
<1>10. VerifyAccounting(w.orders, LeavesOf(w.preimages), w.accounting, w.alloc)
  <2>1. Vector(images) /\ DistinctIds(batch)
    BY <1>2, <1>4 DEF SoundWitness
  <2>2. VerifyAccounting(batch, LeavesOf(images), manifest, honest.alloc)
    BY <1>7, <1>8, <2>1, AccountingVerifies
  <2>3. QED
    BY <1>2, <1>7, <2>2
<1>11. QED
  BY <1>1, <1>6, <1>9, <1>10

\* The published statement passes the plaintext checks, except where the
\* inventory total of the batch's instrument does not fit.
LEMMA PublishedPasses ==
  ASSUME CheckerIInv, honest # None, NEW oracle \in Oracles, NEW cutoff \in Cutoffs,
         InvSum(pre, inst) <= MaxRaw
  PROVE  LET s == StatementOf(pre, honest, oracle, cutoff)
         IN  Passed(s.inputs, s.witness, sorted)
<1>1. PICK s, w, inputs : /\ s = StatementOf(pre, honest, oracle, cutoff)
                          /\ w = s.witness /\ inputs = s.inputs
  OBVIOUS
<1>2. /\ w.pre = pre /\ w.post = honest.post /\ w.orders = batch /\ w.instrument = inst
      /\ w.alloc = honest.alloc /\ w.fills = honest.fills
      /\ inputs.price = honest.outcome.clearing_price
      /\ inputs.volume = honest.outcome.executable_volume
  BY <1>1 DEF StatementOf
<1>3. /\ ClearingIInv /\ stage = "executed" /\ WellFormed(pre) /\ inst \in Instruments
      /\ ApplyBatchTransition(pre, result.fills).ok
      /\ honest.outcome = result.outcome /\ honest.alloc = result.alloc
      /\ honest.fills = result.fills
      /\ honest.post = ApplyBatchTransition(pre, result.fills).ledger
  BY DEF CheckerIInv, HonestIsTheExecution
<1>4. SoundWitness(w)
  BY <1>1, PublishedWitness
<1>5. /\ PreimagesBound(w) /\ RecordsBound(w)
      /\ VerifyAccounting(w.orders, LeavesOf(w.preimages), w.accounting, w.alloc)
  BY <1>1, PublishedBinds
<1>6. Executes(batch, inst, sorted, result)
  BY <1>3, ResultExecutes
<1>7. result.outcome = Outcome(TRUE, inputs.price, inputs.volume)
  <2>1. result.outcome = DetermineClearingOutcome(batch) /\ ~CurvesOverflow(batch)
    BY <1>6, ExecutionOutcome DEF Executes
  <2>2. PICK p, v : DetermineClearingOutcome(batch) = Outcome(TRUE, p, v)
    BY <2>1 DEF DetermineClearingOutcome
  <2>3. result.outcome.clearing_price = p /\ result.outcome.executable_volume = v
    BY <2>1, <2>2 DEF Outcome
  <2>4. QED
    BY <1>2, <1>3, <2>1, <2>2, <2>3
<1>8. VerifyTransition(w.pre, w.orders, w.instrument, sorted, Claimed(inputs, w))
  <2>1. PICK p : p = Claimed(inputs, w)
    OBVIOUS
  <2>2. /\ p.outcome = result.outcome /\ p.alloc = result.alloc /\ p.fills = result.fills
        /\ p.post = ApplyBatchTransition(pre, result.fills).ledger
    BY <1>2, <1>3, <1>7, <2>1 DEF Claimed
  <2>3. VerifyTransition(pre, batch, inst, sorted, p)
    BY <1>3, <2>2, ResultVerifies
  <2>4. QED
    BY <1>2, <2>1, <2>3
<1>9. Executes(w.orders, w.instrument, sorted, ClaimedExecution(inputs, w))
  <2>1. result = [outcome |-> result.outcome, alloc |-> result.alloc, fills |-> result.fills]
    BY <1>6 DEF Executes, ExecutionOf
  <2>2. ClaimedExecution(inputs, w) = result
    BY <1>2, <1>3, <1>7, <2>1 DEF ClaimedExecution
  <2>3. QED
    BY <1>2, <1>6, <2>2
<1>10. QED
  BY <1>1, <1>4, <1>5, <1>8, <1>9 DEF Passed

\* The circuit's oracle subrelation is the policy.
LEMMA OracleIsThePolicy ==
  ASSUME NEW w, NEW price \in Nat, IsOracle(w.oracle), w.cutoff \in Nat
  PROVE  OracleAdmitted(w, price) <=> PolicyAllows(w, price)
<1>1. CASE price = NoPrice \/ ~w.oracle.present
  BY <1>1 DEF OracleAdmitted, OracleConsulted, PolicyAllows
<1>2. CASE price # NoPrice /\ w.oracle.present
  <2>1. PICK c, t, m, r, d : /\ c = w.cutoff /\ t = w.oracle.snapshot.timestamp
                             /\ m = w.oracle.policy.max_staleness
                             /\ r = w.oracle.snapshot.price
                             /\ d = w.oracle.policy.max_deviation
    OBVIOUS
  <2>2. c \in Nat /\ t \in Nat /\ m \in Nat /\ r \in Nat /\ d \in Nat
    BY <1>2, <2>1 DEF IsOracle, NoOracle
  <2>3. Fresh(w.oracle, w.cutoff) <=> c \in t..(t + m)
    BY <2>1, <2>2 DEF Fresh
  <2>4. WithinCollar(w.oracle, price) <=> price <= r + d /\ r <= price + d
    BY <2>1, <2>2 DEF WithinCollar
  <2>5. PolicyAllows(w, price)
          <=> /\ w.oracle.snapshot.instrument = w.instrument
              /\ c \in t..(t + m) /\ price <= r + d /\ r <= price + d
    BY <1>2, <2>1 DEF PolicyAllows
  <2>6. QED
    BY <1>2, <2>3, <2>4, <2>5 DEF OracleAdmitted, OracleConsulted, ValidReference
<1>3. QED
  BY <1>1, <1>2

\* SingleBatchProver::prove on the statement of an execution: it certifies it,
\* but for the four cases named, and then says which.
THEOREM ExecutionProven == StatementSpec => []ProvesTheExecution
<1>1. StatementIInv => ProvesTheExecution
  <2> SUFFICES ASSUME StatementIInv, verdict # "none", claim = statement
               PROVE  ProvesTheExecution
    BY DEF ProvesTheExecution
  <2>1. claim # None /\ statement # None /\ honest # None
    BY DEF StatementIInv, VerdictIsTheProvers, ClaimIsMade, StatementIsPublished
  <2>2. PICK oracle \in Oracles, cutoff \in Cutoffs :
          statement = StatementOf(pre, honest, oracle, cutoff)
    BY <2>1 DEF StatementIInv, StatementIsPublished
  <2>3. PICK w, inputs : w = claim.witness /\ inputs = claim.inputs
    OBVIOUS
  <2>4. /\ w.pre = pre /\ w.orders = batch /\ w.instrument = inst
        /\ inputs.header = HeaderHash(w.batch_id, w.instrument, w.cutoff,
                                      LeavesOf(w.preimages))
        /\ inputs.pre = LedgerRoot(w.pre, w.instrument)
        /\ inputs.post = LedgerRoot(w.post, w.instrument)
        /\ inputs.oracle = OracleHash(w.oracle)
    BY <2>2, <2>3 DEF StatementOf
  <2>5. verdict = Refusal(inputs, w, sorted)
    <3>1. PICK sorts \in ProverSorts(claim.witness.orders) :
            verdict = Refusal(claim.inputs, claim.witness, sorts)
      BY DEF StatementIInv, VerdictIsTheProvers
    <3>2. sorts = sorted
      BY <2>3, <2>4, <3>1 DEF ProverSorts
    <3>3. QED
      BY <2>3, <3>1, <3>2
  <2>6. InvSum(pre, inst) \in Nat
    BY InventoryTotalNat DEF StatementIInv, CheckerIInv
  <2>7. CASE InvSum(pre, inst) > MaxRaw
    <3>1. TotalInventoryOf(w.pre, w.instrument) = Err
      BY <2>4, <2>7 DEF TotalInventoryOf, CheckedTotal, InvSum
    <3>2. ~VerifyTransition(w.pre, w.orders, w.instrument, sorted, Claimed(inputs, w))
      BY <3>1 DEF VerifyTransition
    <3>3. PreimagesBound(w) /\ RecordsBound(w)
      BY <2>1, <2>2, <2>3, PublishedBinds DEF StatementIInv
    <3>4. verdict = "StateTransitionInvariantFailed"
      BY <2>4, <2>5, <3>2, <3>3 DEF Refusal, Claimed
    <3>5. QED
      BY <2>3, <2>4, <2>7, <3>4 DEF ProvesTheExecution
  <2>8. CASE ~(InvSum(pre, inst) > MaxRaw)
    <3>1. InvSum(pre, inst) <= MaxRaw
      BY <2>6, <2>8, WordWidth
    <3>2. Passed(inputs, w, sorted)
      BY <2>1, <2>2, <2>3, <3>1, PublishedPasses DEF StatementIInv
    <3>3. verdict = IF ~OracleAdmitted(w, inputs.price) THEN "oracle_policy"
                    ELSE IF ~Satisfied(w, inputs.price, inputs.volume)
                    THEN "R1CSUnsatisfied" ELSE "ok"
      BY <2>4, <2>5, <3>2, RefusalOfPassed
    <3>4. /\ Satisfied(w, inputs.price, inputs.volume)
               => \A i \in 1..Len(batch) : batch[i].seq = i - 1
          /\ /\ \A i \in 1..Len(batch) : batch[i].seq = i - 1
             /\ OracleAdmitted(w, inputs.price) /\ ~BeyondAWord(w)
             => Satisfied(w, inputs.price, inputs.volume)
      BY <2>4, <3>2, ConstraintsOfPassed
    <3>5. OracleAdmitted(w, inputs.price) <=> PolicyAllows(w, inputs.price)
      <4>1. IsOracle(w.oracle) /\ w.cutoff \in Nat
        BY <3>2 DEF Passed, SoundWitness
      <4>2. inputs.price \in Nat
        BY <3>2, PassedExecution, WordWidth DEF Price, NoPrice
      <4>3. QED
        BY <4>1, <4>2, OracleIsThePolicy
    <3>6. verdict \in IF ~PolicyAllows(w, inputs.price) THEN {"oracle_policy"}
                      ELSE IF \E i \in 1..Len(batch) : batch[i].seq # i - 1
                      THEN {"R1CSUnsatisfied"}
                      ELSE IF BeyondAWord(w) THEN {"ok", "R1CSUnsatisfied"}
                      ELSE {"ok"}
      BY <3>3, <3>4, <3>5
    <3>7. QED
      BY <2>3, <2>4, <2>8, <3>6 DEF ProvesTheExecution
  <2>9. QED
    BY <2>7, <2>8
<1>2. QED
  BY <1>1, StatementInvariant, PTL

----------------------------------------------------------------------------
(***************************************************************************)
(* What a certificate says, whoever asked for it.                          *)
(***************************************************************************)
\* Of the claimed orders, the volume is the largest that any price executes and
\* the price executes it; each side is allocated the volume, no order more than
\* its quantity or beyond its limit; and the claimed ledgers have the same
\* accounts, and the same cash and lots in total.
SoundClaim(inputs, w) ==
  LET at(p) == Smaller(DemandFromOrders(w.orders, p), SupplyFromOrders(w.orders, p))
  IN  /\ \A p \in Price : at(p) <= inputs.volume
      /\ IF inputs.volume > 0 THEN inputs.price \in Price /\ at(inputs.price) = inputs.volume
                              ELSE inputs.price = NoPrice
      /\ \A side \in Sides : AllocatedTo(w.orders, w.alloc, side) = inputs.volume
      /\ \A i \in 1..Len(w.orders) :
           /\ w.alloc[i] \in 0..w.orders[i].qty
           /\ w.alloc[i] > 0 => IF w.orders[i].side = "Buy"
                                THEN inputs.price <= w.orders[i].price
                                ELSE inputs.price >= w.orders[i].price
      /\ w.post.accounts = w.pre.accounts
      /\ CashSum(w.post) = CashSum(w.pre)
      /\ InvSum(w.post, w.instrument) = InvSum(w.pre, w.instrument)

LEMMA PassedIsSound ==
  ASSUME NEW inputs, NEW w, NEW sorts, Passed(inputs, w, sorts)
  PROVE  SoundClaim(inputs, w)
<1> DEFINE R == ClaimedExecution(inputs, w)
           at(p) == Smaller(DemandFromOrders(w.orders, p), SupplyFromOrders(w.orders, p))
<1>1. /\ Executes(w.orders, w.instrument, sorts, R)
      /\ R.alloc = w.alloc
      /\ VolumeOf(R) = inputs.volume /\ PriceOf(R) = inputs.price
      /\ R.outcome = Outcome(TRUE, inputs.price, inputs.volume)
      /\ inputs.volume \in Nat /\ (inputs.volume = 0 <=> inputs.price = NoPrice)
  BY PassedExecution
<1> HIDE DEF R
<1>2. WellFormedBatch(w.orders) /\ ~CurvesOverflow(w.orders)
  BY DEF Passed, Executes
<1>3. /\ inputs.volume = MaxVolume(w.orders)
      /\ inputs.volume > 0 =>
           /\ inputs.price \in Price
           /\ Smaller(DemandAt(w.orders, inputs.price), SupplyAt(w.orders, inputs.price))
                = inputs.volume
  <2>1. DetermineClearingOutcome(w.orders) = Outcome(TRUE, inputs.price, inputs.volume)
    BY DEF Passed, VerifyTransition, Claimed
  <2>2. /\ DetermineClearingOutcome(w.orders).executable_volume = inputs.volume
        /\ DetermineClearingOutcome(w.orders).clearing_price = inputs.price
    BY <2>1 DEF Outcome
  <2>3. QED
    BY <1>2, <2>2, OutcomeMaximises
<1>4. \A p \in Price : /\ at(p) = Smaller(DemandAt(w.orders, p), SupplyAt(w.orders, p))
                       /\ at(p) <= inputs.volume
  <2>1. SUFFICES ASSUME NEW p \in Price
                 PROVE  /\ at(p) = Smaller(DemandAt(w.orders, p), SupplyAt(w.orders, p))
                        /\ at(p) <= inputs.volume
    OBVIOUS
  <2>2. at(p) = Smaller(DemandAt(w.orders, p), SupplyAt(w.orders, p))
    BY <1>2, CurvesFit
  <2>3. QED
    BY <1>2, <1>3, <2>2, MaxVolumeEverywhere
<1>5. IF inputs.volume > 0 THEN inputs.price \in Price /\ at(inputs.price) = inputs.volume
                           ELSE inputs.price = NoPrice
  BY <1>1, <1>3, <1>4
<1>6. \A side \in Sides : AllocatedTo(w.orders, w.alloc, side) = inputs.volume
  BY <1>1, ExecutionVolume
<1>7. ASSUME NEW i \in 1..Len(w.orders)
      PROVE  /\ w.alloc[i] \in 0..w.orders[i].qty
             /\ w.alloc[i] > 0 => IF w.orders[i].side = "Buy"
                                  THEN inputs.price <= w.orders[i].price
                                  ELSE inputs.price >= w.orders[i].price
  <2>1. w.alloc[i] \in 0..w.orders[i].qty
    BY <1>1, ExecutionFits
  <2>2. CASE inputs.volume = 0
    <3>1. w.alloc = AllocateBatch(w.orders, R.outcome, sorts)
      BY <1>1 DEF Passed, VerifyTransition, Claimed, ExecutionOf
    <3>2. w.alloc[i] = 0
      BY <1>1, <2>2, <3>1 DEF AllocateBatch, Outcome
    <3>3. QED
      BY <2>1, <3>2
  <2>3. CASE inputs.volume > 0
    BY <1>1, <2>1, <2>3, ExecutionQualifies
  <2>4. QED
    BY <1>1, <2>2, <2>3
<1>8. /\ w.post.accounts = w.pre.accounts
      /\ CashSum(w.post) = CashSum(w.pre)
      /\ InvSum(w.post, w.instrument) = InvSum(w.pre, w.instrument)
  BY PassedLedgers
<1>9. QED
  BY <1>4, <1>5, <1>6, <1>7, <1>8 DEF SoundClaim

\* SingleBatchProver::prove (proof/prover.cpp): whatever claim is submitted, a
\* certificate is only given to a correct auction of the claimed orders that
\* moves the claimed ledgers without creating or destroying anything.
THEOREM CertificatesAreSound ==
  StatementSpec => [](verdict = "ok" => SoundClaim(claim.inputs, claim.witness))
<1>1. StatementIInv => (verdict = "ok" => SoundClaim(claim.inputs, claim.witness))
  <2> SUFFICES ASSUME StatementIInv, verdict = "ok"
               PROVE  SoundClaim(claim.inputs, claim.witness)
    OBVIOUS
  <2>1. claim # None
    BY DEF StatementIInv, VerdictIsTheProvers
  <2>2. PICK sorts \in ProverSorts(claim.witness.orders) :
          verdict = Refusal(claim.inputs, claim.witness, sorts)
    BY DEF StatementIInv, VerdictIsTheProvers
  <2>3. PICK w, inputs : w = claim.witness /\ inputs = claim.inputs
    OBVIOUS
  <2>4. /\ PreimagesBound(w) /\ RecordsBound(w)
        /\ VerifyTransition(w.pre, w.orders, w.instrument, sorts, Claimed(inputs, w))
        /\ VerifyAccounting(w.orders, LeavesOf(w.preimages), w.accounting, w.alloc)
    <3>1. Refusal(inputs, w, sorts) \notin PlaintextRefusals
      BY <2>2, <2>3 DEF PlaintextRefusals
    <3>2. QED
      BY <3>1, PastThePlaintext
  <2>5. Passed(inputs, w, sorts)
    <3>1. SoundWitness(w)
      BY <2>1, <2>3, ClaimedWitness
    <3>2. Executes(w.orders, w.instrument, sorts, ClaimedExecution(inputs, w))
      BY <2>1, <2>2, <2>3, <2>4, ClaimExecutes
    <3>3. QED
      BY <2>4, <3>1, <3>2 DEF Passed
  <2>6. QED
    BY <2>3, <2>5, PassedIsSound
<1>2. QED
  BY <1>1, StatementInvariant, PTL
=============================================================================
