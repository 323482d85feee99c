---------------------------- MODULE ComposerProofs ----------------------------
(***************************************************************************)
(* The composer keeps the order of the rollup's transactions, whatever     *)
(* their number and sizes and the capacities of its queues, and whichever  *)
(* of the faults there are, each at most once.                             *)
(***************************************************************************)
EXTENDS Composer, FiniteSetTheorems, NaturalsInduction, WellFoundedInduction, TLAPS

-----------------------------------------------------------------------------
(* The inductive invariant *)

Tx == [nonce : Nat, bundle : Seq(Nat)]

Collectors == [phase : {"off", "subscribed", "run"}, todo : Seq(Nat),
               next : Nat, existing : SUBSET Nat]

Factories == [current : Seq(Nat), finished : Seq(Seq(Nat)), lost : SUBSET Nat]

Executors == [phase : {"init", "run", "drain", "closed"}, nonce : Nat,
              drain : Seq(Seq(Nat))]

Submissions == [phase : {"none", "send", "sent", "nonce"}, tx : Tx]

TypeOK ==
    /\ arrived \in Nat
    /\ collector \in Collectors
    /\ channel \in Seq(Nat)
    /\ factory \in Factories
    /\ executor \in Executors
    /\ submission \in Submissions
    /\ sequencer \in [executed : Seq(Seq(Nat)), mempool : SUBSET Tx, wire : SUBSET Tx]
    /\ IsFiniteSet(sequencer.mempool)

(* the nonces of the mempool are not used yet and each is there once *)
NonceInv ==
    /\ \A tx \in sequencer.mempool : Nonce <= tx.nonce
    /\ \A tx, other \in sequencer.mempool : tx.nonce = other.nonce => tx = other

(* what the Sequencer s executes before a transaction with nonce n *)
PostedIn(s, n) ==
    Txs(ToSet(s.executed)) \cup Txs({tx.bundle : tx \in {x \in s.mempool : x.nonce < n}})

PostedBefore(n) == PostedIn(sequencer, n)

SequencerInv ==
    /\ ExecutedInOrder
    /\ \A tx \in sequencer.mempool \cup sequencer.wire :
        InOrder(tx.bundle, factory.lost \cup PostedBefore(tx.nonce))

(* the nonce of the bundle in submission, or of the next one *)
Cursor == IF submission.phase \in {"send", "sent"} THEN submission.tx.nonce ELSE executor.nonce

Refetches == submission.phase = "nonce"

(* another transaction has, or may take, the nonce of the cursor *)
Contested ==
    \/ \E tx \in sequencer.mempool :
        tx.nonce = Cursor /\ ~(submission.phase = "send" /\ tx = submission.tx)
    \/ \E tx \in sequencer.wire :
        tx.nonce = Cursor /\ ~(submission.phase # "none" /\ tx = submission.tx)

(* The composer's own transactions precede its cursor.  Those that a       *)
(* removal has left parked count only while the composer goes on behind    *)
(* them: not when it has to fetch a nonce or may have to.                  *)
Reach == IF Refetches \/ (PendingNonce < Cursor /\ Contested) THEN PendingNonce ELSE Cursor

Posted == PostedBefore(Reach)

(* Until the mempool removes a transaction there is no gap: neither in the *)
(* mempool, nor with what is on the wire and what the composer sends next. *)
NoGap ==
    /\ \A tx \in sequencer.mempool : tx.nonce < PendingNonce
    /\ \A tx \in sequencer.wire : tx.nonce <= PendingNonce
    /\ Active /\ ~Refetches =>
        Cursor <= PendingNonce /\ \A tx \in sequencer.wire : tx.nonce <= Cursor

(* A composer that is ahead of the pending nonce is behind nobody. *)
CursorInv ==
    /\ ~Active => Idle /\ executor.nonce = 0
    /\ ~Refetches /\ PendingNonce < Cursor =>
        \A tx \in sequencer.mempool \cup sequencer.wire : tx.nonce <= Cursor
    /\ "removal" \notin faults => NoGap

SubmissionInv ==
    /\ Idle => submission.tx.bundle = << >>
    /\ executor.phase = "closed" => Idle
    /\ executor.phase # "drain" => executor.drain = << >>

(* a factory with the transactions of ahead in front of it is in order *)
FactoryInOrder(f, ahead) ==
    /\ BundlesInOrder(f.finished, ahead \cup f.lost)
    /\ InOrder(f.current, ahead \cup f.lost \cup Txs(ToSet(f.finished)))

Behind(f, ahead) == ahead \cup f.lost \cup Txs(ToSet(f.finished)) \cup ToSet(f.current)

(* the transactions in front of the factory *)
Ahead(posted, bundle, drain) == posted \cup ToSet(bundle) \cup Txs(ToSet(drain))

(* The composer as a pipeline: the bundle being submitted, the bundles of  *)
(* a shutdown, the factory, the channel and the existing transactions.     *)
StagesInOrder(posted, bundle, drain, f, queue, todo) ==
    /\ InOrder(bundle, posted \cup f.lost)
    /\ BundlesInOrder(drain, posted \cup f.lost \cup ToSet(bundle))
    /\ FactoryInOrder(f, Ahead(posted, bundle, drain))
    /\ InOrder(queue, Behind(f, Ahead(posted, bundle, drain)))
    /\ InOrder(todo, Behind(f, Ahead(posted, bundle, drain)) \cup ToSet(queue))

Collected(posted, bundle, drain, f, queue, todo) ==
    Behind(f, Ahead(posted, bundle, drain)) \cup ToSet(queue) \cup ToSet(todo)

(* What the subscription brings next comes after all that was collected. *)
CollectorInv(collected) ==
    /\ collector.phase = "subscribed" => collector.next <= arrived + 1
    /\ collector.phase = "run" => collector.existing \cup 1..(collector.next - 1) \subseteq collected
    /\ collector.phase # "run" => collector.todo = << >>

PipelineInv ==
    executor.phase # "closed" =>
        /\ StagesInOrder(Posted, submission.tx.bundle, executor.drain, factory, channel,
                         collector.todo)
        /\ CollectorInv(Collected(Posted, submission.tx.bundle, executor.drain, factory,
                                  channel, collector.todo))

IInv ==
    /\ TypeOK
    /\ NonceInv
    /\ SequencerInv
    /\ CursorInv
    /\ SubmissionInv
    /\ PipelineInv

-----------------------------------------------------------------------------
(* Lemmas about sequences of transactions and of bundles *)

(* The elements of a sequence, taken from either end.                      *)
LEMMA ToSetFacts ==
    ASSUME NEW S, NEW s \in Seq(S)
    PROVE  /\ \A x \in S : ToSet(Append(s, x)) = ToSet(s) \cup {x}
           /\ s # << >> => /\ Head(s) \in S /\ Tail(s) \in Seq(S)
                           /\ ToSet(s) = {Head(s)} \cup ToSet(Tail(s))
           /\ ToSet(<< >>) = {}
<1>1. ASSUME NEW x \in S PROVE ToSet(Append(s, x)) = ToSet(s) \cup {x}
  <2>1. ToSet(Append(s, x)) \subseteq ToSet(s) \cup {x}
    BY DEF ToSet
  <2>2. ToSet(s) \subseteq ToSet(Append(s, x))
    BY DEF ToSet
  <2>3. x \in ToSet(Append(s, x))
    <3>1. /\ Len(s) + 1 \in DOMAIN Append(s, x)
          /\ Append(s, x)[Len(s) + 1] = x
      OBVIOUS
    <3> QED BY <3>1 DEF ToSet
  <2> QED BY <2>1, <2>2, <2>3
<1>2. ASSUME s # << >>
      PROVE  /\ Head(s) \in S /\ Tail(s) \in Seq(S)
             /\ ToSet(s) = {Head(s)} \cup ToSet(Tail(s))
  <2>1. Len(s) > 0 /\ Head(s) = s[1] /\ Tail(s) \in Seq(S) /\ Head(s) \in S
    BY <1>2
  <2>2. /\ Len(Tail(s)) = Len(s) - 1
        /\ \A i \in 1..Len(Tail(s)) : Tail(s)[i] = s[i + 1]
    BY <1>2
  <2>3. ASSUME NEW i \in DOMAIN s PROVE s[i] \in {Head(s)} \cup ToSet(Tail(s))
    <3>1. CASE i = 1
      BY <3>1, <2>1
    <3>2. CASE i # 1
      <4>1. i - 1 \in 1..Len(Tail(s)) /\ Tail(s)[i - 1] = s[i]
        BY <3>2, <2>1, <2>2
      <4> QED BY <4>1, <2>1 DEF ToSet
    <3> QED BY <3>1, <3>2
  <2>4. ASSUME NEW i \in DOMAIN Tail(s) PROVE Tail(s)[i] \in ToSet(s)
    <3>1. i + 1 \in DOMAIN s /\ Tail(s)[i] = s[i + 1]
      BY <2>1, <2>2
    <3> QED BY <3>1 DEF ToSet
  <2>5. Head(s) \in ToSet(s)
    BY <2>1 DEF ToSet
  <2> QED BY <2>1, <2>3, <2>4, <2>5 DEF ToSet
<1>3. ToSet(<< >>) = {}
  BY DEF ToSet
<1> QED BY <1>1, <1>2, <1>3

(* The transactions of sets of bundles.                                    *)
LEMMA TxsFacts ==
    /\ \A B, C : Txs(B \cup C) = Txs(B) \cup Txs(C)
    /\ \A b : Txs({b}) = ToSet(b)
    /\ Txs({}) = {}
    /\ \A B, C : B \subseteq C => Txs(B) \subseteq Txs(C)
BY Zenon DEF Txs

(* The transactions of a sequence of bundles, taken from either end.       *)
LEMMA TxsOfSeq ==
    ASSUME NEW s \in Seq(Seq(Nat))
    PROVE  /\ \A x \in Seq(Nat) : Txs(ToSet(Append(s, x))) = Txs(ToSet(s)) \cup ToSet(x)
           /\ s # << >> => Txs(ToSet(s)) = ToSet(Head(s)) \cup Txs(ToSet(Tail(s)))
           /\ Txs(ToSet(<< >>)) = {}
<1>1. /\ \A x \in Seq(Nat) : ToSet(Append(s, x)) = ToSet(s) \cup {x}
      /\ s # << >> => ToSet(s) = {Head(s)} \cup ToSet(Tail(s))
      /\ ToSet(<< >>) = {}
  BY ToSetFacts
<1>2. ASSUME NEW x \in Seq(Nat) PROVE Txs(ToSet(Append(s, x))) = Txs(ToSet(s)) \cup ToSet(x)
  <2>1. Txs(ToSet(s) \cup {x}) = Txs(ToSet(s)) \cup Txs({x})
    BY TxsFacts, Zenon
  <2>2. Txs({x}) = ToSet(x)
    BY TxsFacts, Zenon
  <2> QED BY <1>1, <2>1, <2>2
<1>3. ASSUME s # << >> PROVE Txs(ToSet(s)) = ToSet(Head(s)) \cup Txs(ToSet(Tail(s)))
  <2>1. Txs({Head(s)} \cup ToSet(Tail(s))) = Txs({Head(s)}) \cup Txs(ToSet(Tail(s)))
    BY TxsFacts, Zenon
  <2>2. Txs({Head(s)}) = ToSet(Head(s))
    BY TxsFacts, Zenon
  <2> QED BY <1>1, <1>3, <2>1, <2>2
<1>4. Txs(ToSet(<< >>)) = {}
  BY <1>1, TxsFacts
<1> QED BY <1>2, <1>3, <1>4

(* Being in order, with more in front, and from either end.                *)
LEMMA InOrderMonotonic ==
    ASSUME NEW s, NEW A, NEW B, A \subseteq B, InOrder(s, A)
    PROVE  InOrder(s, B)
BY DEF InOrder

(* Nothing is always in order.                                             *)
LEMMA InOrderEmpty ==
    ASSUME NEW A
    PROVE  InOrder(<< >>, A) /\ BundlesInOrder(<< >>, A)
BY DEF InOrder, BundlesInOrder

(* A transaction is appended in order when those below it are in front or  *)
(* in the sequence.                                                        *)
LEMMA InOrderAppend ==
    ASSUME NEW s \in Seq(Nat), NEW A, NEW t \in Nat, InOrder(s, A),
           1..(t - 1) \subseteq A \cup ToSet(s)
    PROVE  InOrder(Append(s, t), A)
<1> SUFFICES ASSUME NEW i \in DOMAIN Append(s, t), NEW u \in 1..(Append(s, t)[i] - 1), u \notin A
             PROVE  \E j \in 1..(i - 1) : Append(s, t)[j] = u
  BY DEF InOrder
<1>1. CASE i = Len(s) + 1
  <2>1. Append(s, t)[i] = t
    BY <1>1
  <2>2. u \in ToSet(s)
    BY <2>1
  <2> QED BY <2>2, <1>1 DEF ToSet
<1>2. CASE i # Len(s) + 1
  <2>1. i \in DOMAIN s /\ Append(s, t)[i] = s[i]
    BY <1>2
  <2>2. PICK j \in 1..(i - 1) : s[j] = u
    BY <2>1 DEF InOrder
  <2>3. Append(s, t)[j] = s[j]
    BY <2>1, <2>2
  <2> QED BY <2>2, <2>3
<1> QED BY <1>1, <1>2

(* The head has all those below it in front; the tail has the head in      *)
(* front.                                                                  *)
LEMMA InOrderTail ==
    ASSUME NEW s \in Seq(Nat), NEW A, InOrder(s, A), s # << >>
    PROVE  /\ 1..(Head(s) - 1) \subseteq A
           /\ InOrder(Tail(s), A \cup {Head(s)})
<1>1. /\ Len(s) > 0 /\ Head(s) = s[1] /\ Tail(s) \in Seq(Nat)
      /\ Len(Tail(s)) = Len(s) - 1
      /\ \A i \in 1..Len(Tail(s)) : Tail(s)[i] = s[i + 1]
  OBVIOUS
<1>2. 1..(Head(s) - 1) \subseteq A
  BY <1>1 DEF InOrder
<1>3. ASSUME NEW i \in DOMAIN Tail(s), NEW u \in 1..(Tail(s)[i] - 1), u \notin A, u # Head(s)
      PROVE  \E j \in 1..(i - 1) : Tail(s)[j] = u
  <2>1. i + 1 \in DOMAIN s /\ u \in 1..(s[i + 1] - 1)
    BY <1>1
  <2>2. PICK j \in 1..i : s[j] = u
    BY <1>3, <2>1 DEF InOrder
  <2>3. j - 1 \in 1..(i - 1) /\ Tail(s)[j - 1] = s[j]
    BY <1>1, <1>3, <2>1, <2>2
  <2> QED BY <2>2, <2>3
<1>4. InOrder(Tail(s), A \cup {Head(s)})
  BY <1>3 DEF InOrder
<1> QED BY <1>2, <1>4

(* The same for sequences of bundles.                                      *)
LEMMA BundlesMonotonic ==
    ASSUME NEW s, NEW A, NEW B, A \subseteq B, BundlesInOrder(s, A)
    PROVE  BundlesInOrder(s, B)
<1> SUFFICES ASSUME NEW k \in DOMAIN s
             PROVE  InOrder(s[k], B \cup Txs({s[l] : l \in 1..(k - 1)}))
  BY DEF BundlesInOrder
<1> DEFINE P == Txs({s[l] : l \in 1..(k - 1)})
<1>1. InOrder(s[k], A \cup P)
  BY DEF BundlesInOrder
<1>2. A \cup P \subseteq B \cup P
  OBVIOUS
<1> QED BY <1>1, <1>2, InOrderMonotonic

(* A bundle is appended in order when it is in order behind the others.    *)
LEMMA BundlesAppend ==
    ASSUME NEW s \in Seq(Seq(Nat)), NEW A, NEW b \in Seq(Nat),
           BundlesInOrder(s, A), InOrder(b, A \cup Txs(ToSet(s)))
    PROVE  BundlesInOrder(Append(s, b), A)
<1> SUFFICES ASSUME NEW k \in DOMAIN Append(s, b)
             PROVE  InOrder(Append(s, b)[k], A \cup Txs({Append(s, b)[l] : l \in 1..(k - 1)}))
  BY DEF BundlesInOrder
<1>1. k \in 1..(Len(s) + 1)
  OBVIOUS
<1>2. {Append(s, b)[l] : l \in 1..(k - 1)} = {s[l] : l \in 1..(k - 1)}
  <2>1. \A l \in 1..(k - 1) : Append(s, b)[l] = s[l]
    BY <1>1
  <2> QED BY <2>1
<1>3. CASE k = Len(s) + 1
  <2>1. Append(s, b)[k] = b /\ 1..(k - 1) = DOMAIN s
    BY <1>3
  <2>2. {s[l] : l \in 1..(k - 1)} = ToSet(s)
    BY <2>1 DEF ToSet
  <2> QED BY <2>1, <2>2, <1>2
<1>4. CASE k # Len(s) + 1
  <2>1. Append(s, b)[k] = s[k] /\ k \in DOMAIN s
    BY <1>4, <1>1
  <2> QED BY <2>1, <1>2 DEF BundlesInOrder
<1> QED BY <1>3, <1>4

(* The first bundle needs only what is in front; the others have it in     *)
(* front too.                                                              *)
LEMMA BundlesTail ==
    ASSUME NEW s \in Seq(Seq(Nat)), NEW A, BundlesInOrder(s, A), s # << >>
    PROVE  /\ InOrder(Head(s), A)
           /\ BundlesInOrder(Tail(s), A \cup ToSet(Head(s)))
<1>1. /\ Len(s) > 0 /\ Head(s) = s[1] /\ Tail(s) \in Seq(Seq(Nat))
      /\ Len(Tail(s)) = Len(s) - 1
      /\ \A i \in 1..Len(Tail(s)) : Tail(s)[i] = s[i + 1]
  OBVIOUS
<1>2. InOrder(Head(s), A)
  <2>1. PICK k \in DOMAIN s : k = 1
    BY <1>1
  <2> DEFINE P == {s[l] : l \in 1..(k - 1)}
  <2>2. InOrder(s[k], A \cup Txs(P))
    BY DEF BundlesInOrder
  <2>3. P = {}
    BY <2>1
  <2> HIDE DEF P
  <2>4. A \cup Txs(P) = A
    BY <2>3, TxsFacts
  <2> QED BY <1>1, <2>1, <2>2, <2>4
<1>3. ASSUME NEW k \in DOMAIN Tail(s)
      PROVE  InOrder(Tail(s)[k], (A \cup ToSet(Head(s))) \cup Txs({Tail(s)[l] : l \in 1..(k - 1)}))
  <2> DEFINE P == {s[l] : l \in 1..k}
             Q == {Tail(s)[l] : l \in 1..(k - 1)}
  <2>1. k \in 1..Len(Tail(s)) /\ k + 1 \in DOMAIN s /\ Tail(s)[k] = s[k + 1]
    BY <1>1
  <2>2. InOrder(Tail(s)[k], A \cup Txs(P))
    <3>1. (k + 1) - 1 = k
      BY <2>1
    <3> QED BY <2>1, <3>1 DEF BundlesInOrder
  <2>3. P \subseteq {Head(s)} \cup Q
    <3> SUFFICES ASSUME NEW l \in 1..k, l # 1 PROVE s[l] \in Q
      BY <1>1
    <3>1. l - 1 \in 1..(k - 1) /\ Tail(s)[l - 1] = s[l]
      BY <1>1, <2>1
    <3> QED BY <3>1
  <2> HIDE DEF P, Q
  <2>4. Txs(P) \subseteq Txs({Head(s)} \cup Q)
    BY <2>3, TxsFacts, Zenon
  <2>5. Txs({Head(s)} \cup Q) = Txs({Head(s)}) \cup Txs(Q)
    BY TxsFacts, Zenon
  <2>6. Txs({Head(s)}) = ToSet(Head(s))
    BY TxsFacts, Zenon
  <2>7. A \cup Txs(P) \subseteq (A \cup ToSet(Head(s))) \cup Txs(Q)
    BY <2>4, <2>5, <2>6
  <2>8. InOrder(Tail(s)[k], (A \cup ToSet(Head(s))) \cup Txs(Q))
    BY <2>2, <2>7, InOrderMonotonic
  <2> QED BY <2>8 DEF Q
<1> QED BY <1>2, <1>3 DEF BundlesInOrder

-----------------------------------------------------------------------------
(* The pending nonce *)

(* A nonempty set of natural numbers has a least element.                  *)
LEMMA LeastNatural ==
    ASSUME NEW T \in SUBSET Nat, T # {}
    PROVE  \E x \in T : \A y \in T : x <= y
<1>1. ASSUME NEW R, IsWellFoundedOn(R, Nat),
             \A x, y \in Nat : <<y, x>> \in R <=> y < x
      PROVE  \E x \in T : \A y \in T : x <= y
  <2>1. PICK x \in T : \A y \in T : ~ (<<y, x>> \in R)
    BY <1>1, WFMin
  <2>2. \A y, z \in Nat : ~ (<<y, z>> \in R) => ~ (y < z)
    BY <1>1, Zenon
  <2>3. \A y \in T : ~ (y < x)
    BY <2>1, <2>2, Zenon
  <2> QED BY <2>3, Z3
<1>2. IsWellFoundedOn(OpToRel(<, Nat), Nat)
  BY NatLessThanWellFounded
<1>3. \A x, y \in Nat : <<y, x>> \in OpToRel(<, Nat) <=> y < x
  BY DEF OpToRel
<1> QED BY <1>1, <1>2, <1>3, Zenon

(* the pending nonce of an account with nonce a and mempool M *)
FirstFree(M, a) ==
    CHOOSE n \in a..(a + Cardinality(M)) :
        /\ ~ \E tx \in M : tx.nonce = n
        /\ \A k \in a..(n - 1) : \E tx \in M : tx.nonce = k

(* A mempool that holds the nonces of an interval is at least as large.    *)
LEMMA IntervalFits ==
    ASSUME NEW M, IsFiniteSet(M), NEW a \in Nat, NEW p \in Nat, a <= p,
           \A n \in a..(p - 1) : \E tx \in M : tx.nonce = n
    PROVE  Cardinality(M) \in Nat /\ p <= a + Cardinality(M)
<1> DEFINE f == [n \in a..(p - 1) |-> CHOOSE tx \in M : tx.nonce = n]
<1>1. \A n \in a..(p - 1) : f[n] \in M /\ f[n].nonce = n
  OBVIOUS
<1>2. f \in Injection(a..(p - 1), M)
  <2>1. f \in [a..(p - 1) -> M]
    BY <1>1
  <2>2. \A n, k \in a..(p - 1) : f[n] = f[k] => n = k
    BY <1>1
  <2> HIDE DEF f
  <2> QED BY <2>1, <2>2 DEF Injection, IsInjective
<1> HIDE DEF f
<1>3. Cardinality(a..(p - 1)) <= Cardinality(M)
  BY <1>2, FS_Injection
<1>4. Cardinality(M) \in Nat
  BY FS_CardinalityType
<1>5. Cardinality(a..(p - 1)) = p - a
  BY FS_Interval
<1> QED BY <1>3, <1>4, <1>5

(* The pending nonce is the only one that is free with none free below it. *)
LEMMA FirstFreeNonce ==
    ASSUME NEW M, IsFiniteSet(M), NEW a \in Nat, NEW p \in Nat, a <= p,
           ~ \E tx \in M : tx.nonce = p,
           \A n \in a..(p - 1) : \E tx \in M : tx.nonce = n
    PROVE  p = FirstFree(M, a)
<1> DEFINE In(n) == \E tx \in M : tx.nonce = n
<1>1. p \in a..(a + Cardinality(M)) /\ Cardinality(M) \in Nat
  BY IntervalFits
<1>2. ~In(p) /\ \A k \in a..(p - 1) : In(k)
  OBVIOUS
<1> HIDE DEF In
<1>3. ASSUME NEW n \in a..(a + Cardinality(M)), ~In(n), \A k \in a..(n - 1) : In(k)
      PROVE  n = p
  BY <1>1, <1>2, <1>3
<1>4. p = CHOOSE n \in a..(a + Cardinality(M)) : ~In(n) /\ \A k \in a..(n - 1) : In(k)
  BY <1>1, <1>2, <1>3
<1> QED BY <1>4 DEF In, FirstFree

(* There is one, for a mempool is finite.                                  *)
LEMMA FirstFreeExists ==
    ASSUME NEW M, IsFiniteSet(M), NEW a \in Nat
    PROVE  /\ FirstFree(M, a) \in Nat /\ a <= FirstFree(M, a)
           /\ ~ \E tx \in M : tx.nonce = FirstFree(M, a)
           /\ \A n \in a..(FirstFree(M, a) - 1) : \E tx \in M : tx.nonce = n
<1> DEFINE In(n) == \E tx \in M : tx.nonce = n
           T == {n \in Nat : a <= n /\ ~In(n)}
<1>1. T # {}
  <2> SUFFICES ASSUME T = {} PROVE FALSE
    OBVIOUS
  <2>1. Cardinality(M) \in Nat
    BY FS_CardinalityType
  <2> DEFINE p == a + Cardinality(M) + 1
  <2>2. p \in Nat /\ a <= p /\ \A n \in a..(p - 1) : In(n)
    <3> HIDE DEF In
    <3> QED BY <2>1
  <2>3. p <= a + Cardinality(M)
    <3> HIDE DEF p
    <3> QED BY <2>2, IntervalFits
  <2> QED BY <2>1, <2>3
<1>2. PICK p \in T : \A n \in T : p <= n
  <2> HIDE DEF T
  <2>1. T \in SUBSET Nat
    BY DEF T
  <2> QED BY <1>1, <2>1, LeastNatural
<1>3. p \in Nat /\ a <= p /\ ~In(p)
  BY <1>2
<1>4. \A n \in a..(p - 1) : In(n)
  <2> HIDE DEF In
  <2> QED BY <1>2, <1>3
<1>5. p = FirstFree(M, a)
  BY <1>3, <1>4, FirstFreeNonce
<1> QED BY <1>3, <1>4, <1>5

(* The mempool reports the first free nonce.                               *)
LEMMA PendingNonceIsFirstFree ==
    /\ PendingNonce = FirstFree(sequencer.mempool, Nonce)
    /\ PendingNonce' = FirstFree(sequencer'.mempool, Nonce')
BY DEF PendingNonce, NonceInMempool, FirstFree

(* what the pending nonce p of the Sequencer s is *)
IsPending(s, p) ==
    /\ p \in Nat /\ Len(s.executed) \in Nat /\ Len(s.executed) <= p
    /\ ~ \E tx \in s.mempool : tx.nonce = p
    /\ \A n \in Len(s.executed)..(p - 1) : \E tx \in s.mempool : tx.nonce = n

(* The pending nonce before and after a step.                              *)
LEMMA PendingFacts ==
    /\ TypeOK => IsPending(sequencer, PendingNonce)
    /\ TypeOK' => IsPending(sequencer', PendingNonce')
<1>1. ASSUME TypeOK PROVE IsPending(sequencer, PendingNonce)
  <2>1. IsFiniteSet(sequencer.mempool) /\ Len(sequencer.executed) \in Nat /\ Nonce = Len(sequencer.executed)
    BY <1>1 DEF TypeOK, Nonce
  <2> QED BY <2>1, PendingNonceIsFirstFree, FirstFreeExists DEF IsPending
<1>2. ASSUME TypeOK' PROVE IsPending(sequencer', PendingNonce')
  <2> DEFINE s == sequencer'
  <2>1. IsFiniteSet(s.mempool) /\ Len(s.executed) \in Nat /\ Nonce' = Len(s.executed)
    BY <1>2 DEF TypeOK, Nonce
  <2>2. PendingNonce' = FirstFree(s.mempool, Len(s.executed))
    BY <2>1, PendingNonceIsFirstFree
  <2> HIDE DEF s
  <2>3. IsPending(s, FirstFree(s.mempool, Len(s.executed)))
    BY <2>1, FirstFreeExists DEF IsPending
  <2> QED BY <2>2, <2>3 DEF s
<1> QED BY <1>1, <1>2

(* Nothing else is the pending nonce.                                      *)
LEMMA PendingIs ==
    ASSUME TypeOK', NEW p, IsPending(sequencer', p)
    PROVE  PendingNonce' = p
<1> DEFINE s == sequencer'
<1>1. IsFiniteSet(s.mempool) /\ Nonce' = Len(s.executed)
  BY DEF TypeOK, Nonce
<1>2. PendingNonce' = FirstFree(s.mempool, Len(s.executed))
  BY <1>1, PendingNonceIsFirstFree
<1> HIDE DEF s
<1>3. p = FirstFree(s.mempool, Len(s.executed))
  BY <1>1, FirstFreeNonce DEF IsPending, s
<1> QED BY <1>2, <1>3

-----------------------------------------------------------------------------
(* The bundle factory *)

(* try_push gives a factory.                                               *)
LEMMA TryPushType ==
    ASSUME NEW f \in Factories, NEW t \in Nat
    PROVE  TryPush(f, t) \in Factories
<1>1. f.current \in Seq(Nat) /\ f.finished \in Seq(Seq(Nat))
  BY DEF Factories
<1>2. /\ Append(f.current, t) \in Seq(Nat) /\ <<t>> \in Seq(Nat)
      /\ Append(f.finished, f.current) \in Seq(Seq(Nat))
  BY <1>1
<1>3. /\ [f EXCEPT !.current = Append(@, t)] \in Factories
      /\ [f EXCEPT !.lost = @ \cup {t}] \in Factories
  BY <1>2 DEF Factories
<1>4. [f EXCEPT !.finished = Append(@, f.current), !.current = <<t>>] \in Factories
  BY <1>2 DEF Factories
<1> QED BY <1>3, <1>4 DEF TryPush

(* What was lost stays lost.                                               *)
LEMMA TryPushLost ==
    ASSUME NEW f \in Factories, NEW t \in Nat
    PROVE  f.lost \subseteq TryPush(f, t).lost
<1>1. /\ [f EXCEPT !.current = Append(@, t)].lost = f.lost
      /\ [f EXCEPT !.lost = @ \cup {t}].lost = f.lost \cup {t}
      /\ [f EXCEPT !.finished = Append(@, f.current), !.current = <<t>>].lost = f.lost
  BY DEF Factories
<1>2. TryPush(f, t).lost = f.lost \/ TryPush(f, t).lost = f.lost \cup {t}
  BY <1>1 DEF TryPush
<1> QED BY <1>2

(* What try_push takes, or drops, is behind what the factory held.         *)
LEMMA TryPushInOrder ==
    ASSUME NEW f \in Factories, NEW t \in Nat, NEW ahead,
           FactoryInOrder(f, ahead), 1..(t - 1) \subseteq Behind(f, ahead)
    PROVE  /\ TryPush(f, t) \in Factories
           /\ FactoryInOrder(TryPush(f, t), ahead)
           /\ Behind(TryPush(f, t), ahead) = Behind(f, ahead) \cup {t}
           /\ f.lost \subseteq TryPush(f, t).lost
<1> DEFINE g == TryPush(f, t)
           A == ahead \cup f.lost \cup Txs(ToSet(f.finished))
<1>1. /\ f.current \in Seq(Nat) /\ f.finished \in Seq(Seq(Nat)) /\ f.lost \subseteq Nat
      /\ BundlesInOrder(f.finished, ahead \cup f.lost) /\ InOrder(f.current, A)
      /\ Behind(f, ahead) = A \cup ToSet(f.current)
  BY DEF Factories, FactoryInOrder, Behind
<1>2. CASE Bytes(f.current) + Size[t] <= MaxBytes
  <2>1. g = [f EXCEPT !.current = Append(@, t)]
    BY <1>2 DEF TryPush
  <2>2. g \in Factories /\ g.finished = f.finished /\ g.lost = f.lost /\ g.current = Append(f.current, t)
    <3>1. Append(f.current, t) \in Seq(Nat)
      BY <1>1
    <3> HIDE DEF g
    <3> QED BY <2>1, <3>1 DEF Factories
  <2>3. ToSet(Append(f.current, t)) = ToSet(f.current) \cup {t}
    BY <1>1, ToSetFacts
  <2>4. InOrder(Append(f.current, t), A)
    BY <1>1, InOrderAppend
  <2> HIDE DEF g
  <2> QED BY <1>1, <2>2, <2>3, <2>4 DEF FactoryInOrder, Behind, g
<1>3. CASE /\ ~(Bytes(f.current) + Size[t] <= MaxBytes)
           /\ Size[t] > MaxBytes \/ Len(f.finished) >= QueueCapacity
  <2>1. g = [f EXCEPT !.lost = @ \cup {t}]
    BY <1>3 DEF TryPush
  <2>2. g \in Factories /\ g.finished = f.finished /\ g.current = f.current /\ g.lost = f.lost \cup {t}
    BY <2>1 DEF Factories
  <2>3. BundlesInOrder(f.finished, ahead \cup g.lost)
    BY <1>1, <2>2, BundlesMonotonic
  <2>4. InOrder(f.current, ahead \cup g.lost \cup Txs(ToSet(f.finished)))
    BY <1>1, <2>2, InOrderMonotonic
  <2> HIDE DEF g
  <2> QED BY <2>2, <2>3, <2>4 DEF FactoryInOrder, Behind, g
<1>4. CASE /\ ~(Bytes(f.current) + Size[t] <= MaxBytes)
           /\ ~(Size[t] > MaxBytes \/ Len(f.finished) >= QueueCapacity)
  <2>1. g = [f EXCEPT !.finished = Append(@, f.current), !.current = <<t>>]
    BY <1>4 DEF TryPush
  <2>2. /\ g \in Factories /\ g.finished = Append(f.finished, f.current)
        /\ g.lost = f.lost /\ g.current = <<t>>
    <3>1. Append(f.finished, f.current) \in Seq(Seq(Nat)) /\ <<t>> \in Seq(Nat)
      BY <1>1
    <3> HIDE DEF g
    <3> QED BY <2>1, <3>1 DEF Factories
  <2>3. BundlesInOrder(g.finished, ahead \cup g.lost)
    BY <1>1, <2>2, BundlesAppend
  <2>4. Txs(ToSet(g.finished)) = Txs(ToSet(f.finished)) \cup ToSet(f.current)
    BY <1>1, <2>2, TxsOfSeq
  <2>5. ahead \cup g.lost \cup Txs(ToSet(g.finished)) = Behind(f, ahead)
    BY <2>2, <2>4 DEF Behind
  <2>6. InOrder(<<t>>, Behind(f, ahead))
    BY DEF InOrder
  <2>7. ToSet(<<t>>) = {t}
    BY DEF ToSet
  <2> HIDE DEF g
  <2> QED BY <2>2, <2>3, <2>5, <2>6, <2>7 DEF FactoryInOrder, Behind, g
<1> QED BY <1>2, <1>3, <1>4

(* the factories after the first transactions of the channel, up to m *)
Receives(g, m) ==
    /\ g \in [0..m -> Factories]
    /\ g[0] = factory
    /\ \A n \in 1..m : g[n] = TryPush(g[n - 1], channel[n])

(* Draining the channel is well defined.                                   *)
LEMMA ReceivedDefined ==
    ASSUME TypeOK
    PROVE  Receives(Received, Len(channel))
<1>0. factory \in Factories /\ channel \in Seq(Nat) /\ Len(channel) \in Nat
  BY DEF TypeOK, Factories
<1> DEFINE T == {m \in Nat : m <= Len(channel) /\ ~ \E g : Receives(g, m)}
<1>1. ASSUME T # {} PROVE FALSE
  <2>1. PICK m \in T : \A y \in T : m <= y
    BY <1>1, LeastNatural
  <2>2. CASE m = 0
    <3>1. Receives([n \in 0..0 |-> factory], 0)
      BY <1>0 DEF Receives
    <3> QED BY <2>1, <2>2, <3>1
  <2>3. CASE m # 0
    <3>1. m - 1 \in Nat /\ m - 1 <= Len(channel) /\ m - 1 \notin T /\ m \in 1..Len(channel)
      BY <2>1, <2>3, <1>0
    <3>2. PICK g : Receives(g, m - 1)
      BY <3>1
    <3>3. TryPush(g[m - 1], channel[m]) \in Factories
      BY <3>1, <3>2, <1>0, TryPushType DEF Receives
    <3> DEFINE h == [n \in 0..m |-> IF n = m THEN TryPush(g[m - 1], channel[m]) ELSE g[n]]
    <3>4. h \in [0..m -> Factories] /\ h[0] = factory
      BY <3>1, <3>2, <3>3 DEF Receives
    <3>5. ASSUME NEW n \in 1..m PROVE h[n] = TryPush(h[n - 1], channel[n])
      BY <3>1, <3>2 DEF Receives
    <3>6. Receives(h, m)
      BY <3>4, <3>5 DEF Receives
    <3> QED BY <3>6, <2>1
  <2> QED BY <2>2, <2>3
<1>2. PICK g : Receives(g, Len(channel))
  BY <1>0, <1>1
<1> DEFINE Def(r) == [n \in 0..Len(channel) |->
                         IF n = 0 THEN factory ELSE TryPush(r[n - 1], channel[n])]
<1>3. g = Def(g)
  BY <1>0, <1>2 DEF Receives
<1>4. Received = Def(Received)
  <2> HIDE <1>0, <1>1, <1>2
  <2> QED BY <1>3, Zenon DEF Received
<1>5. ASSUME NEW n \in 1..Len(channel) PROVE Received[n] = TryPush(Received[n - 1], channel[n])
  <2>1. n \in 0..Len(channel) /\ n # 0
    BY <1>0
  <2>2. Def(Received)[n] = TryPush(Received[n - 1], channel[n])
    BY <2>1
  <2> QED BY <1>4, <2>2
<1>6. Received[0] = factory /\ DOMAIN Received = 0..Len(channel)
  BY <1>0, <1>4
<1> DEFINE U == {m \in Nat : m <= Len(channel) /\ Received[m] \notin Factories}
<1>7. ASSUME U # {} PROVE FALSE
  <2>1. PICK m \in U : \A y \in U : m <= y
    BY <1>7, LeastNatural
  <2>2. m # 0
    BY <2>1, <1>6, <1>0
  <2>3. m - 1 \in Nat /\ m - 1 \notin U /\ m \in 1..Len(channel)
    BY <2>1, <2>2, <1>0
  <2>4. Received[m - 1] \in Factories /\ channel[m] \in Nat
    BY <2>3, <1>0
  <2>5. Received[m] = TryPush(Received[m - 1], channel[m])
    BY <1>5, <2>3
  <2>6. Received[m] \in Factories
    BY <2>4, <2>5, TryPushType
  <2> QED BY <2>1, <2>6
<1>8. ASSUME NEW n \in 0..Len(channel) PROVE Received[n] \in Factories
  BY <1>7, <1>0
<1>9. Received \in [0..Len(channel) -> Factories]
  <2>1. Received = [n \in 0..Len(channel) |-> Received[n]]
    BY <1>4
  <2> QED BY <1>8, <2>1
<1> QED BY <1>5, <1>6, <1>9 DEF Receives

(* Draining the channel keeps the order.                                   *)
LEMMA ReceivedInOrder ==
    ASSUME TypeOK, NEW ahead, FactoryInOrder(factory, ahead),
           InOrder(channel, Behind(factory, ahead))
    PROVE  LET f == Received[Len(channel)] IN
           /\ f \in Factories
           /\ FactoryInOrder(f, ahead)
           /\ Behind(f, ahead) = Behind(factory, ahead) \cup ToSet(channel)
           /\ factory.lost \subseteq f.lost
<1>0. factory \in Factories /\ channel \in Seq(Nat) /\ Len(channel) \in Nat
  BY DEF TypeOK, Factories
<1>1. /\ Received \in [0..Len(channel) -> Factories] /\ Received[0] = factory
      /\ \A n \in 1..Len(channel) : Received[n] = TryPush(Received[n - 1], channel[n])
  BY ReceivedDefined DEF Receives
<1> DEFINE Good(n) == /\ FactoryInOrder(Received[n], ahead)
                      /\ Behind(Received[n], ahead)
                           = Behind(factory, ahead) \cup {channel[i] : i \in 1..n}
                      /\ factory.lost \subseteq Received[n].lost
           T == {m \in Nat : m <= Len(channel) /\ ~Good(m)}
<1>2. Good(0)
  <2>1. {channel[i] : i \in 1..0} = {}
    OBVIOUS
  <2> QED BY <1>1, <2>1
<1>3. ASSUME NEW m \in 1..Len(channel), Good(m - 1) PROVE Good(m)
  <2> DEFINE f == Received[m - 1]
             t == channel[m]
  <2>1. f \in Factories /\ t \in Nat /\ Received[m] = TryPush(f, t)
    BY <1>0, <1>1
  <2>2. 1..(t - 1) \subseteq Behind(f, ahead)
    <3> SUFFICES ASSUME NEW u \in 1..(t - 1), u \notin Behind(factory, ahead)
                 PROVE  u \in {channel[i] : i \in 1..(m - 1)}
      BY <1>3
    <3>1. m \in DOMAIN channel /\ u \in 1..(channel[m] - 1)
      BY <1>0
    <3>2. \E j \in 1..(m - 1) : channel[j] = u
      BY <3>1 DEF InOrder
    <3> QED BY <3>2
  <2>3. FactoryInOrder(f, ahead)
    BY <1>3
  <2>4. /\ FactoryInOrder(TryPush(f, t), ahead)
        /\ Behind(TryPush(f, t), ahead) = Behind(f, ahead) \cup {t}
        /\ f.lost \subseteq TryPush(f, t).lost
    <3> HIDE DEF f, t
    <3> QED BY <2>1, <2>2, <2>3, TryPushInOrder
  <2>5. {channel[i] : i \in 1..m} = {channel[i] : i \in 1..(m - 1)} \cup {t}
    <3>1. 1..m = 1..(m - 1) \cup {m}
      BY <1>0
    <3> QED BY <3>1
  <2> QED BY <1>3, <2>1, <2>4, <2>5
<1> HIDE DEF Good
<1>4. ASSUME T # {} PROVE FALSE
  <2>1. PICK m \in T : \A y \in T : m <= y
    BY <1>4, LeastNatural
  <2>2. m \in 1..Len(channel) /\ m - 1 \in Nat /\ m - 1 \notin T
    BY <2>1, <1>0, <1>2
  <2>3. Good(m - 1)
    BY <2>2, <1>0
  <2> QED BY <2>1, <2>2, <2>3, <1>3
<1>5. Good(Len(channel))
  BY <1>0, <1>4
<1>6. {channel[i] : i \in 1..Len(channel)} = ToSet(channel)
  BY <1>0 DEF ToSet
<1> QED BY <1>0, <1>1, <1>5, <1>6 DEF Good

-----------------------------------------------------------------------------
(* The steps of the pipeline *)

(* Behind a factory is what is in it and in front of it.                   *)
LEMMA FactoryMonotonic ==
    ASSUME NEW f, NEW g, NEW A, NEW B, FactoryInOrder(f, A),
           g.finished = f.finished, g.current = f.current,
           A \cup f.lost \subseteq B \cup g.lost
    PROVE  FactoryInOrder(g, B) /\ Behind(f, A) \subseteq Behind(g, B)
<1> DEFINE X == A \cup f.lost
           Y == B \cup g.lost
           P == Txs(ToSet(f.finished))
<1>1. BundlesInOrder(f.finished, X) /\ InOrder(f.current, X \cup P) /\ X \subseteq Y
  BY DEF FactoryInOrder
<1> HIDE DEF X, Y, P
<1>2. BundlesInOrder(f.finished, Y) /\ InOrder(f.current, Y \cup P)
  <2>1. X \cup P \subseteq Y \cup P
    BY <1>1
  <2> QED BY <1>1, <2>1, BundlesMonotonic, InOrderMonotonic
<1>3. FactoryInOrder(g, B)
  BY <1>2 DEF FactoryInOrder, Y, P
<1>4. X \cup P \cup ToSet(f.current) \subseteq Y \cup P \cup ToSet(f.current)
  BY <1>1
<1> QED BY <1>3, <1>4 DEF Behind, X, Y, P

(* The stages stay in order when more transactions are posted or lost,     *)
(* and when the bundle in submission is among them and is forgotten.       *)
LEMMA StagesMonotonic ==
    ASSUME NEW posted, NEW more, NEW b, NEW drain, NEW f, NEW g, NEW queue, NEW todo,
           StagesInOrder(posted, b, drain, f, queue, todo),
           g.finished = f.finished, g.current = f.current,
           posted \cup f.lost \subseteq more \cup g.lost
    PROVE  /\ StagesInOrder(more, b, drain, g, queue, todo)
           /\ Collected(posted, b, drain, f, queue, todo) \subseteq Collected(more, b, drain, g, queue, todo)
<1> DEFINE A == Ahead(posted, b, drain)
           B == Ahead(more, b, drain)
<1>1. A \cup f.lost \subseteq B \cup g.lost
  BY DEF Ahead
<1>2. InOrder(b, more \cup g.lost)
  BY InOrderMonotonic DEF StagesInOrder
<1>3. BundlesInOrder(drain, more \cup g.lost \cup ToSet(b))
  <2>1. posted \cup f.lost \cup ToSet(b) \subseteq more \cup g.lost \cup ToSet(b)
    OBVIOUS
  <2> QED BY <2>1, BundlesMonotonic DEF StagesInOrder
<1>4. FactoryInOrder(f, A) /\ InOrder(queue, Behind(f, A)) /\ InOrder(todo, Behind(f, A) \cup ToSet(queue))
  BY DEF StagesInOrder
<1> HIDE DEF A, B
<1>5. FactoryInOrder(g, B) /\ Behind(f, A) \subseteq Behind(g, B)
  BY <1>1, <1>4, FactoryMonotonic
<1>6. InOrder(queue, Behind(g, B)) /\ InOrder(todo, Behind(g, B) \cup ToSet(queue))
  <2>1. Behind(f, A) \cup ToSet(queue) \subseteq Behind(g, B) \cup ToSet(queue)
    BY <1>5
  <2> QED BY <1>4, <1>5, <2>1, InOrderMonotonic
<1>7. Behind(f, A) \cup ToSet(queue) \cup ToSet(todo) \subseteq Behind(g, B) \cup ToSet(queue) \cup ToSet(todo)
  BY <1>5
<1> QED BY <1>2, <1>3, <1>5, <1>6, <1>7 DEF StagesInOrder, Collected, A, B

(* The bundle in submission is posted, or lost, and the next can follow.   *)
LEMMA StagesAnswered ==
    ASSUME NEW posted, NEW more, NEW b, NEW drain, NEW f, NEW g, NEW queue, NEW todo,
           StagesInOrder(posted, b, drain, f, queue, todo),
           g.finished = f.finished, g.current = f.current,
           posted \cup f.lost \cup ToSet(b) \subseteq more \cup g.lost
    PROVE  /\ StagesInOrder(more, << >>, drain, g, queue, todo)
           /\ Collected(posted, b, drain, f, queue, todo)
                \subseteq Collected(more, << >>, drain, g, queue, todo)
<1>1. ToSet(<< >>) = {}
  BY DEF ToSet
<1> DEFINE A == Ahead(posted, b, drain)
           B == Ahead(more, << >>, drain)
<1>2. A \cup f.lost \subseteq B \cup g.lost
  BY <1>1 DEF Ahead
<1>3. BundlesInOrder(drain, more \cup g.lost \cup ToSet(<< >>))
  <2>1. posted \cup f.lost \cup ToSet(b) \subseteq more \cup g.lost \cup ToSet(<< >>)
    BY <1>1
  <2> QED BY <2>1, BundlesMonotonic DEF StagesInOrder
<1>4. FactoryInOrder(f, A) /\ InOrder(queue, Behind(f, A)) /\ InOrder(todo, Behind(f, A) \cup ToSet(queue))
  BY DEF StagesInOrder
<1> HIDE DEF A, B
<1>5. FactoryInOrder(g, B) /\ Behind(f, A) \subseteq Behind(g, B)
  BY <1>2, <1>4, FactoryMonotonic
<1>6. InOrder(queue, Behind(g, B)) /\ InOrder(todo, Behind(g, B) \cup ToSet(queue))
  <2>1. Behind(f, A) \cup ToSet(queue) \subseteq Behind(g, B) \cup ToSet(queue)
    BY <1>5
  <2> QED BY <1>4, <1>5, <2>1, InOrderMonotonic
<1>7. Behind(f, A) \cup ToSet(queue) \cup ToSet(todo) \subseteq Behind(g, B) \cup ToSet(queue) \cup ToSet(todo)
  BY <1>5
<1>8. InOrder(<< >>, more \cup g.lost)
  BY InOrderEmpty
<1> QED BY <1>3, <1>5, <1>6, <1>7, <1>8 DEF StagesInOrder, Collected, A, B

(* A bundle leaves the bundles of a shutdown for its submission.           *)
LEMMA StagesDrained ==
    ASSUME NEW posted, NEW drain \in Seq(Seq(Nat)), NEW f, NEW queue, NEW todo,
           drain # << >>, StagesInOrder(posted, << >>, drain, f, queue, todo)
    PROVE  /\ StagesInOrder(posted, Head(drain), Tail(drain), f, queue, todo)
           /\ Collected(posted, << >>, drain, f, queue, todo)
                = Collected(posted, Head(drain), Tail(drain), f, queue, todo)
<1>1. ToSet(<< >>) = {}
  BY DEF ToSet
<1>2. Ahead(posted, << >>, drain) = Ahead(posted, Head(drain), Tail(drain))
  <2>1. Txs(ToSet(drain)) = ToSet(Head(drain)) \cup Txs(ToSet(Tail(drain)))
    BY TxsOfSeq
  <2> QED BY <1>1, <2>1 DEF Ahead
<1>3. BundlesInOrder(drain, posted \cup f.lost)
  BY <1>1 DEF StagesInOrder
<1>4. /\ InOrder(Head(drain), posted \cup f.lost)
      /\ BundlesInOrder(Tail(drain), posted \cup f.lost \cup ToSet(Head(drain)))
  BY <1>3, BundlesTail
<1> QED BY <1>2, <1>4 DEF StagesInOrder, Collected

(* A finished bundle leaves the factory for its submission.                *)
LEMMA StagesFinished ==
    ASSUME NEW posted, NEW f \in Factories, NEW queue, NEW todo, f.finished # << >>,
           StagesInOrder(posted, << >>, << >>, f, queue, todo)
    PROVE  LET g == [f EXCEPT !.finished = Tail(@)] IN
           /\ StagesInOrder(posted, Head(f.finished), << >>, g, queue, todo)
           /\ Collected(posted, << >>, << >>, f, queue, todo)
                = Collected(posted, Head(f.finished), << >>, g, queue, todo)
<1> DEFINE g == [f EXCEPT !.finished = Tail(@)]
           b == Head(f.finished)
           A == Ahead(posted, << >>, << >>)
           B == Ahead(posted, b, << >>)
<1>1. ToSet(<< >>) = {} /\ Txs({}) = {}
  BY TxsFacts DEF ToSet
<1>2. A = posted /\ B = posted \cup ToSet(b)
  BY <1>1 DEF Ahead
<1>3. f.finished \in Seq(Seq(Nat)) /\ g.lost = f.lost /\ g.current = f.current /\ g.finished = Tail(f.finished)
  BY DEF Factories
<1>4. FactoryInOrder(f, posted)
  BY <1>2 DEF StagesInOrder
<1>5. InOrder(b, posted \cup f.lost) /\ BundlesInOrder(Tail(f.finished), posted \cup f.lost \cup ToSet(b))
  BY <1>3, <1>4, BundlesTail DEF FactoryInOrder
<1>6. Txs(ToSet(f.finished)) = ToSet(b) \cup Txs(ToSet(Tail(f.finished)))
  BY <1>3, TxsOfSeq
<1>7. FactoryInOrder(g, B)
  <2>1. BundlesInOrder(g.finished, B \cup g.lost)
    <3>1. posted \cup f.lost \cup ToSet(b) = B \cup g.lost
      BY <1>2, <1>3
    <3> QED BY <1>3, <1>5, <3>1
  <2>2. InOrder(g.current, B \cup g.lost \cup Txs(ToSet(g.finished)))
    <3>1. posted \cup f.lost \cup Txs(ToSet(f.finished)) = B \cup g.lost \cup Txs(ToSet(g.finished))
      BY <1>2, <1>3, <1>6
    <3> QED BY <1>3, <1>4, <3>1 DEF FactoryInOrder
  <2> QED BY <2>1, <2>2 DEF FactoryInOrder
<1>8. Behind(f, A) = Behind(g, B)
  BY <1>2, <1>3, <1>6 DEF Behind
<1>9. BundlesInOrder(<< >>, posted \cup f.lost \cup ToSet(b))
  BY InOrderEmpty
<1> HIDE DEF g, b
<1> QED BY <1>3, <1>5, <1>7, <1>8, <1>9 DEF StagesInOrder, Collected, g, b

(* The timer takes the current bundle.                                     *)
LEMMA StagesPreempted ==
    ASSUME NEW posted, NEW f \in Factories, NEW queue, NEW todo, f.finished = << >>,
           StagesInOrder(posted, << >>, << >>, f, queue, todo)
    PROVE  /\ StagesInOrder(posted, f.current, << >>, Emptied(f), queue, todo)
           /\ Collected(posted, << >>, << >>, f, queue, todo)
                = Collected(posted, f.current, << >>, Emptied(f), queue, todo)
<1> DEFINE g == Emptied(f)
           b == f.current
           A == Ahead(posted, << >>, << >>)
           B == Ahead(posted, b, << >>)
<1>1. ToSet(<< >>) = {} /\ Txs({}) = {}
  BY TxsFacts DEF ToSet
<1>2. A = posted /\ B = posted \cup ToSet(b)
  BY <1>1 DEF Ahead
<1>3. g.lost = f.lost /\ g.current = << >> /\ g.finished = << >>
  BY DEF Factories, Emptied
<1>4. FactoryInOrder(f, posted)
  BY <1>2 DEF StagesInOrder
<1>5. InOrder(b, posted \cup f.lost)
  BY <1>1, <1>4 DEF FactoryInOrder
<1>6. FactoryInOrder(g, B) /\ BundlesInOrder(<< >>, posted \cup f.lost \cup ToSet(b))
  BY <1>3, InOrderEmpty DEF FactoryInOrder
<1>7. Behind(f, A) = Behind(g, B)
  BY <1>1, <1>2, <1>3 DEF Behind
<1> HIDE DEF g, b
<1> QED BY <1>3, <1>5, <1>6, <1>7 DEF StagesInOrder, Collected, g, b

(* The executor receives a transaction from the channel.                   *)
LEMMA StagesReceived ==
    ASSUME NEW posted, NEW b, NEW drain, NEW f \in Factories, NEW queue \in Seq(Nat), NEW todo,
           queue # << >>, StagesInOrder(posted, b, drain, f, queue, todo),
           NEW g \in {TryPush(f, Head(queue))}
    PROVE  /\ StagesInOrder(posted, b, drain, g, Tail(queue), todo)
           /\ Collected(posted, b, drain, f, queue, todo)
                = Collected(posted, b, drain, g, Tail(queue), todo)
<1> DEFINE A == Ahead(posted, b, drain)
<1>1. FactoryInOrder(f, A) /\ InOrder(queue, Behind(f, A)) /\ InOrder(todo, Behind(f, A) \cup ToSet(queue))
  BY DEF StagesInOrder
<1>2. /\ Head(queue) \in Nat /\ Tail(queue) \in Seq(Nat)
      /\ ToSet(queue) = {Head(queue)} \cup ToSet(Tail(queue))
  BY ToSetFacts
<1>3. 1..(Head(queue) - 1) \subseteq Behind(f, A) /\ InOrder(Tail(queue), Behind(f, A) \cup {Head(queue)})
  BY <1>1, InOrderTail
<1>4. /\ g \in Factories /\ f.lost \subseteq g.lost
      /\ FactoryInOrder(g, A) /\ Behind(g, A) = Behind(f, A) \cup {Head(queue)}
  <2> HIDE DEF A
  <2> QED BY <1>1, <1>2, <1>3, TryPushInOrder
<1>5. InOrder(b, posted \cup g.lost) /\ BundlesInOrder(drain, posted \cup g.lost \cup ToSet(b))
  <2>1. posted \cup f.lost \subseteq posted \cup g.lost
    BY <1>4
  <2>2. posted \cup f.lost \cup ToSet(b) \subseteq posted \cup g.lost \cup ToSet(b)
    BY <1>4
  <2>3. InOrder(b, posted \cup f.lost) /\ BundlesInOrder(drain, posted \cup f.lost \cup ToSet(b))
    BY DEF StagesInOrder
  <2> QED BY <2>1, <2>2, <2>3, InOrderMonotonic, BundlesMonotonic
<1>6. Behind(f, A) \cup ToSet(queue) = Behind(g, A) \cup ToSet(Tail(queue))
  BY <1>2, <1>4
<1> HIDE DEF A
<1>7. InOrder(Tail(queue), Behind(g, A)) /\ InOrder(todo, Behind(g, A) \cup ToSet(Tail(queue)))
  BY <1>1, <1>3, <1>4, <1>6
<1> QED BY <1>4, <1>5, <1>6, <1>7 DEF StagesInOrder, Collected, A

(* An existing transaction is sent to the channel, or a new one, or it is  *)
(* dropped, in its turn.                                                   *)
LEMMA StagesSent ==
    ASSUME NEW posted, NEW b, NEW drain, NEW f, NEW queue \in Seq(Nat), NEW todo \in Seq(Nat),
           todo # << >>, StagesInOrder(posted, b, drain, f, queue, todo)
    PROVE  /\ StagesInOrder(posted, b, drain, f, Append(queue, Head(todo)), Tail(todo))
           /\ Collected(posted, b, drain, f, queue, todo)
                = Collected(posted, b, drain, f, Append(queue, Head(todo)), Tail(todo))
<1> DEFINE A == Behind(f, Ahead(posted, b, drain))
           t == Head(todo)
           longer == Append(queue, t)
<1>1. InOrder(queue, A) /\ InOrder(todo, A \cup ToSet(queue))
  BY DEF StagesInOrder
<1> HIDE DEF A
<1>2. t \in Nat /\ ToSet(todo) = {t} \cup ToSet(Tail(todo))
  BY ToSetFacts
<1>3. 1..(t - 1) \subseteq A \cup ToSet(queue) /\ InOrder(Tail(todo), A \cup ToSet(queue) \cup {t})
  BY <1>1, InOrderTail
<1> HIDE DEF t
<1>4. ToSet(longer) = ToSet(queue) \cup {t}
  BY <1>2, ToSetFacts
<1>5. InOrder(longer, A)
  BY <1>1, <1>2, <1>3, InOrderAppend
<1> HIDE DEF longer
<1>6. A \cup ToSet(longer) = A \cup ToSet(queue) \cup {t}
  BY <1>4
<1>7. InOrder(Tail(todo), A \cup ToSet(longer))
  BY <1>3, <1>6
<1>8. StagesInOrder(posted, b, drain, f, longer, Tail(todo))
  BY <1>5, <1>7 DEF StagesInOrder, A
<1>9. A \cup ToSet(queue) \cup ToSet(todo) = A \cup ToSet(longer) \cup ToSet(Tail(todo))
  BY <1>2, <1>4
<1>10. Collected(posted, b, drain, f, queue, todo) = Collected(posted, b, drain, f, longer, Tail(todo))
  BY <1>9 DEF Collected, A
<1> QED BY <1>8, <1>10 DEF longer, t

(* A transaction of the subscription goes into the channel after all       *)
(* those below it.                                                         *)
LEMMA StagesSentNew ==
    ASSUME NEW posted, NEW b, NEW drain, NEW f, NEW queue \in Seq(Nat), NEW t \in Nat,
           StagesInOrder(posted, b, drain, f, queue, << >>),
           \A u \in 1..(t - 1) : u \in Collected(posted, b, drain, f, queue, << >>)
    PROVE  /\ StagesInOrder(posted, b, drain, f, Append(queue, t), << >>)
           /\ Collected(posted, b, drain, f, Append(queue, t), << >>)
                = Collected(posted, b, drain, f, queue, << >>) \cup {t}
<1> DEFINE A == Behind(f, Ahead(posted, b, drain))
           longer == Append(queue, t)
<1>1. InOrder(queue, A) /\ ToSet(<< >>) = {}
  BY DEF StagesInOrder, ToSet
<1>2. Collected(posted, b, drain, f, queue, << >>) = A \cup ToSet(queue)
  BY <1>1 DEF Collected
<1>3. Collected(posted, b, drain, f, longer, << >>) = A \cup ToSet(longer)
  BY <1>1 DEF Collected
<1> HIDE DEF A
<1>4. 1..(t - 1) \subseteq A \cup ToSet(queue)
  BY <1>2
<1>5. ToSet(longer) = ToSet(queue) \cup {t}
  BY ToSetFacts
<1>6. InOrder(longer, A)
  BY <1>1, <1>4, InOrderAppend
<1> HIDE DEF longer
<1>7. InOrder(<< >>, A \cup ToSet(longer))
  BY InOrderEmpty
<1>8. StagesInOrder(posted, b, drain, f, longer, << >>)
  BY <1>6, <1>7 DEF StagesInOrder, A
<1>9. Collected(posted, b, drain, f, longer, << >>)
         = Collected(posted, b, drain, f, queue, << >>) \cup {t}
  BY <1>2, <1>3, <1>5
<1> QED BY <1>8, <1>9 DEF longer

(* A send that times out loses the transaction: it no longer has to come   *)
(* before the others.                                                      *)
LEMMA StagesDropped ==
    ASSUME NEW posted, NEW b, NEW drain, NEW f \in Factories, NEW queue, NEW todo \in Seq(Nat),
           NEW t \in Nat, NEW rest,
           StagesInOrder(posted, b, drain, f, queue, todo),
           \/ todo # << >> /\ t = Head(todo) /\ rest = Tail(todo)
           \/ todo = << >> /\ rest = << >>
    PROVE  LET g == [f EXCEPT !.lost = @ \cup {t}] IN
           /\ StagesInOrder(posted, b, drain, g, queue, rest)
           /\ Collected(posted, b, drain, f, queue, todo) \cup {t}
                \subseteq Collected(posted, b, drain, g, queue, rest)
<1> DEFINE g == [f EXCEPT !.lost = @ \cup {t}]
           A == Ahead(posted, b, drain)
<1>1. g.finished = f.finished /\ g.current = f.current /\ g.lost = f.lost \cup {t}
  BY DEF Factories
<1>2. posted \cup f.lost \subseteq posted \cup g.lost
  BY <1>1
<1> HIDE DEF g
<1>3. StagesInOrder(posted, b, drain, g, queue, todo)
  BY <1>1, <1>2, StagesMonotonic
<1>4. Behind(g, A) = Behind(f, A) \cup {t}
  BY <1>1 DEF Behind
<1>5. InOrder(rest, Behind(g, A) \cup ToSet(queue)) /\ ToSet(rest) \cup {t} = ToSet(todo) \cup {t}
  <2> HIDE DEF A
  <2>1. CASE todo # << >> /\ t = Head(todo) /\ rest = Tail(todo)
    <3>1. InOrder(todo, Behind(g, A) \cup ToSet(queue))
      BY <1>3 DEF StagesInOrder, A
    <3>2. InOrder(rest, Behind(g, A) \cup ToSet(queue) \cup {t})
      BY <2>1, <3>1, InOrderTail
    <3>3. Behind(g, A) \cup ToSet(queue) \cup {t} = Behind(g, A) \cup ToSet(queue)
      BY <1>4
    <3>4. ToSet(todo) = {t} \cup ToSet(rest)
      BY <2>1, ToSetFacts
    <3>5. InOrder(rest, Behind(g, A) \cup ToSet(queue))
      BY <3>2, <3>3
    <3> QED BY <3>4, <3>5
  <2>2. CASE todo = << >> /\ rest = << >>
    BY <2>2, InOrderEmpty
  <2> QED BY <2>1, <2>2
<1>6. StagesInOrder(posted, b, drain, g, queue, rest)
  BY <1>3, <1>5 DEF StagesInOrder
<1>7. Behind(f, A) \cup ToSet(queue) \cup ToSet(todo) \cup {t} \subseteq Behind(g, A) \cup ToSet(queue) \cup ToSet(rest)
  <2> HIDE DEF A
  <2> QED BY <1>4, <1>5
<1> QED BY <1>6, <1>7 DEF Collected, g

(* A shutdown drains the channel into the factory, and the factory.        *)
LEMMA StagesShutdown ==
    ASSUME NEW posted, NEW b, NEW todo, TypeOK,
           StagesInOrder(posted, b, << >>, factory, channel, todo)
    PROVE  LET f == Received[Len(channel)] IN
           /\ f \in Factories /\ factory.lost \subseteq f.lost
           /\ PopAll(f) \in Seq(Seq(Nat))
           /\ StagesInOrder(posted, b, PopAll(f), Emptied(f), << >>, << >>)
<1> DEFINE f == Received[Len(channel)]
           g == Emptied(f)
           A == Ahead(posted, b, << >>)
<1>1. ToSet(<< >>) = {} /\ Txs({}) = {}
  BY TxsFacts DEF ToSet
<1>2. A = posted \cup ToSet(b)
  BY <1>1 DEF Ahead
<1>3. /\ InOrder(b, posted \cup factory.lost)
      /\ FactoryInOrder(factory, A) /\ InOrder(channel, Behind(factory, A))
  BY DEF StagesInOrder
<1>4. f \in Factories /\ FactoryInOrder(f, A) /\ factory.lost \subseteq f.lost
  <2> HIDE DEF A
  <2> QED BY <1>3, ReceivedInOrder
<1> HIDE DEF f
<1>5. /\ f.finished \in Seq(Seq(Nat)) /\ f.current \in Seq(Nat)
      /\ g.lost = f.lost /\ g.current = << >> /\ g.finished = << >>
  BY <1>4 DEF Factories, Emptied
<1>6. InOrder(b, posted \cup g.lost)
  BY <1>3, <1>4, <1>5, InOrderMonotonic
<1>7. /\ BundlesInOrder(f.finished, posted \cup g.lost \cup ToSet(b))
      /\ InOrder(f.current, posted \cup g.lost \cup ToSet(b) \cup Txs(ToSet(f.finished)))
  <2>1. A \cup f.lost = posted \cup g.lost \cup ToSet(b)
    BY <1>2, <1>5
  <2> QED BY <1>4, <2>1 DEF FactoryInOrder
<1>8. PopAll(f) \in Seq(Seq(Nat)) /\ BundlesInOrder(PopAll(f), posted \cup g.lost \cup ToSet(b))
  <2>1. CASE f.current = << >>
    BY <2>1, <1>5, <1>7 DEF PopAll
  <2>2. CASE f.current # << >>
    <3>1. PopAll(f) = Append(f.finished, f.current)
      BY <2>2 DEF PopAll
    <3>2. Append(f.finished, f.current) \in Seq(Seq(Nat))
      BY <1>5
    <3>3. BundlesInOrder(Append(f.finished, f.current), posted \cup g.lost \cup ToSet(b))
      BY <1>5, <1>7, BundlesAppend
    <3> QED BY <3>1, <3>2, <3>3
  <2> QED BY <2>1, <2>2
<1>9. StagesInOrder(posted, b, PopAll(f), g, << >>, << >>)
  <2> HIDE DEF g
  <2>1. FactoryInOrder(g, Ahead(posted, b, PopAll(f)))
    BY <1>5, InOrderEmpty DEF FactoryInOrder
  <2> QED BY <1>6, <1>8, <2>1, InOrderEmpty DEF StagesInOrder
<1> QED BY <1>4, <1>8, <1>9 DEF f

-----------------------------------------------------------------------------
(* The Sequencer *)

(* the part of the invariant that is about the Sequencer *)
ChainInv == NonceInv /\ SequencerInv

(* what is posted before any nonce stays posted, or is lost *)
Grows ==
    \A n \in Nat : PostedIn(sequencer, n) \cup factory.lost
                     \subseteq PostedIn(sequencer', n) \cup factory'.lost

(* More is posted before a higher nonce, in a larger mempool and behind a  *)
(* longer chain.                                                           *)
LEMMA PostedMonotonic ==
    ASSUME NEW s, NEW t, NEW m \in Nat, NEW n \in Nat, m <= n,
           s.mempool \subseteq t.mempool, \A tx \in s.mempool : tx.nonce \in Nat,
           Txs(ToSet(s.executed)) \subseteq Txs(ToSet(t.executed))
    PROVE  PostedIn(s, m) \subseteq PostedIn(t, n)
<1> DEFINE B == {tx.bundle : tx \in {x \in s.mempool : x.nonce < m}}
           C == {tx.bundle : tx \in {x \in t.mempool : x.nonce < n}}
<1>1. B \subseteq C
  OBVIOUS
<1> HIDE DEF B, C
<1>2. Txs(B) \subseteq Txs(C)
  BY <1>1 DEF Txs
<1> QED BY <1>2 DEF PostedIn, B, C

(* Steps that leave the chain and the mempool as they are, with a sound    *)
(* transaction broadcast or not.                                           *)
LEMMA ChainKept ==
    ASSUME IInv, sequencer'.executed = sequencer.executed,
           sequencer'.mempool = sequencer.mempool, factory.lost \subseteq factory'.lost,
           \A tx \in sequencer'.wire :
               \/ tx \in sequencer.wire
               \/ InOrder(tx.bundle, factory.lost \cup PostedBefore(tx.nonce))
    PROVE  /\ ChainInv' /\ PendingNonce' = PendingNonce /\ Grows
           /\ \A n : PostedIn(sequencer', n) = PostedIn(sequencer, n)
<1>1. Nonce' = Nonce
  BY DEF Nonce
<1>2. PendingNonce' = PendingNonce
  BY <1>1 DEF PendingNonce, NonceInMempool
<1>3. NonceInv'
  BY <1>1 DEF IInv, NonceInv
<1>4. \A n : PostedIn(sequencer', n) = PostedIn(sequencer, n)
  BY DEF PostedIn
<1>5. ExecutedInOrder'
  BY BundlesMonotonic DEF IInv, SequencerInv, ExecutedInOrder
<1>6. ASSUME NEW tx \in sequencer'.mempool \cup sequencer'.wire
      PROVE  InOrder(tx.bundle, factory'.lost \cup PostedIn(sequencer', tx.nonce))
  <2>1. InOrder(tx.bundle, factory.lost \cup PostedIn(sequencer, tx.nonce))
    BY DEF IInv, SequencerInv, PostedBefore
  <2>2. factory.lost \cup PostedIn(sequencer, tx.nonce) \subseteq factory'.lost \cup PostedIn(sequencer', tx.nonce)
    BY <1>4
  <2> QED BY <2>1, <2>2, InOrderMonotonic
<1>7. SequencerInv'
  BY <1>5, <1>6 DEF SequencerInv, PostedBefore
<1>8. Grows
  BY <1>4 DEF Grows
<1> QED BY <1>2, <1>3, <1>4, <1>7, <1>8 DEF ChainInv

(* The mempool accepts a transaction whose nonce is not used.              *)
LEMMA ChainAccepts ==
    ASSUME IInv, TypeOK', NEW tx \in Tx, Nonce <= tx.nonce, ~NonceInMempool(tx.nonce),
           InOrder(tx.bundle, factory.lost \cup PostedBefore(tx.nonce)),
           sequencer'.executed = sequencer.executed,
           sequencer'.mempool = sequencer.mempool \cup {tx},
           sequencer'.wire \subseteq sequencer.wire, factory' = factory
    PROVE  /\ ChainInv' /\ PendingNonce <= PendingNonce' /\ Grows
           /\ tx.nonce = PendingNonce => PendingNonce + 1 <= PendingNonce'
           /\ ToSet(tx.bundle) \subseteq PostedIn(sequencer', tx.nonce + 1)
<1> DEFINE M == sequencer.mempool
           N == sequencer'.mempool
<1>1. /\ Nonce' = Nonce /\ Nonce \in Nat /\ Nonce = Len(sequencer.executed)
      /\ tx.nonce \in Nat /\ \A x \in N : x.nonce \in Nat
  BY DEF Nonce, IInv, TypeOK, Tx
<1>2. NonceInv'
  <2>1. \A x \in N : Nonce <= x.nonce
    BY DEF IInv, NonceInv
  <2>2. \A x, y \in N : x.nonce = y.nonce => x = y
    BY DEF IInv, NonceInv, NonceInMempool
  <2> QED BY <1>1, <2>1, <2>2 DEF NonceInv
<1>3. PendingNonce <= PendingNonce' /\ (tx.nonce = PendingNonce => PendingNonce + 1 <= PendingNonce')
  <2> DEFINE p == PendingNonce
             q == PendingNonce'
             a == Len(sequencer.executed)
  <2>1. IsPending(sequencer, p) /\ IsPending(sequencer', q)
    BY PendingFacts DEF IInv
  <2>2. /\ p \in Nat /\ q \in Nat /\ a \in Nat /\ a <= q
        /\ ~ \E x \in N : x.nonce = q
        /\ \A n \in a..(p - 1) : \E x \in M : x.nonce = n
    BY <2>1 DEF IsPending
  <2>3. ~ \E x \in M : x.nonce = q
    BY <2>2
  <2>4. q # tx.nonce
    BY <2>2
  <2> HIDE DEF p, q, a, M, N
  <2>5. q \notin a..(p - 1)
    BY <2>2, <2>3
  <2>6. p <= q /\ (tx.nonce = p => p + 1 <= q)
    BY <2>2, <2>4, <2>5
  <2> QED BY <2>6 DEF p, q
<1>4. ASSUME NEW n \in Nat PROVE PostedIn(sequencer, n) \subseteq PostedIn(sequencer', n)
  <2>1. M \subseteq N /\ \A x \in M : x.nonce \in Nat
    BY <1>1
  <2>2. n <= n /\ Txs(ToSet(sequencer.executed)) \subseteq Txs(ToSet(sequencer'.executed))
    OBVIOUS
  <2> QED BY <1>4, <2>1, <2>2, PostedMonotonic
<1>5. Grows
  BY <1>4 DEF Grows
<1>6. ToSet(tx.bundle) \subseteq PostedIn(sequencer', tx.nonce + 1)
  <2>1. tx \in N /\ tx.nonce < tx.nonce + 1
    BY <1>1
  <2>2. tx.bundle \in {x.bundle : x \in {y \in N : y.nonce < tx.nonce + 1}}
    BY <2>1
  <2> DEFINE B == {x.bundle : x \in {y \in N : y.nonce < tx.nonce + 1}}
  <2>3. PostedIn(sequencer', tx.nonce + 1) = Txs(ToSet(sequencer'.executed)) \cup Txs(B)
    BY DEF PostedIn
  <2> HIDE DEF B
  <2>4. ToSet(tx.bundle) \subseteq Txs(B)
    BY <2>2 DEF Txs, B
  <2> QED BY <2>3, <2>4
<1>7. ExecutedInOrder'
  BY DEF IInv, SequencerInv, ExecutedInOrder
<1>8. ASSUME NEW x \in N \cup sequencer'.wire
      PROVE  InOrder(x.bundle, factory.lost \cup PostedIn(sequencer', x.nonce))
  <2>1. InOrder(x.bundle, factory.lost \cup PostedIn(sequencer, x.nonce))
    BY DEF IInv, SequencerInv, PostedBefore
  <2>2. x.nonce \in Nat
    BY DEF TypeOK, Tx
  <2>3. factory.lost \cup PostedIn(sequencer, x.nonce) \subseteq factory.lost \cup PostedIn(sequencer', x.nonce)
    BY <1>4, <2>2
  <2> QED BY <2>1, <2>3, InOrderMonotonic
<1>9. SequencerInv'
  BY <1>7, <1>8 DEF SequencerInv, PostedBefore
<1> QED BY <1>2, <1>3, <1>5, <1>6, <1>9 DEF ChainInv

(* The Sequencer executes the account's next transaction.                  *)
LEMMA ChainExecutes ==
    ASSUME IInv, TypeOK', NEW tx \in sequencer.mempool, tx.nonce = Nonce,
           sequencer'.executed = Append(sequencer.executed, tx.bundle),
           sequencer'.mempool = sequencer.mempool \ {tx},
           sequencer'.wire = sequencer.wire, factory' = factory
    PROVE  ChainInv' /\ PendingNonce' = PendingNonce /\ Grows
<1> DEFINE p == PendingNonce
           M == sequencer.mempool
           N == sequencer'.mempool
           E == sequencer.executed
<1>1. /\ Nonce \in Nat /\ E \in Seq(Seq(Nat)) /\ tx.bundle \in Seq(Nat) /\ tx \in M
      /\ Nonce = Len(E) /\ \A x \in M : x.nonce \in Nat
  <2>1. E \in Seq(Seq(Nat)) /\ tx \in Tx /\ \A x \in M : x.nonce \in Nat
    BY DEF IInv, TypeOK, Tx
  <2> QED BY <2>1 DEF Nonce, Tx
<1>2. /\ \A x \in M : Nonce <= x.nonce
      /\ \A x, y \in M : x.nonce = y.nonce => x = y
  BY DEF IInv, NonceInv
<1>3. Nonce' = Nonce + 1 /\ Nonce' = Len(sequencer'.executed)
  BY <1>1 DEF Nonce
<1>4. \A x \in N : x \in M /\ x.nonce # Nonce /\ Nonce + 1 <= x.nonce
  <2>1. ASSUME NEW x \in N PROVE x \in M /\ x.nonce # Nonce
    BY <1>2
  <2> QED BY <1>1, <1>2, <2>1
<1>5. NonceInv'
  BY <1>2, <1>3, <1>4 DEF NonceInv
<1>6. PendingNonce' = p
  <2>1. IsPending(sequencer, p)
    BY PendingFacts DEF IInv
  <2>2. /\ p \in Nat /\ Nonce <= p /\ p # Nonce
        /\ ~ \E x \in M : x.nonce = p
        /\ \A n \in Nonce..(p - 1) : \E x \in M : x.nonce = n
    BY <1>1, <2>1 DEF IsPending
  <2>3. ASSUME NEW n \in (Nonce + 1)..(p - 1) PROVE \E x \in N : x.nonce = n
    <3>1. n \in Nonce..(p - 1) /\ n # Nonce
      BY <1>1, <2>2
    <3> QED BY <2>2, <3>1
  <2>4. ~ \E x \in N : x.nonce = p
    BY <2>2
  <2>5. Nonce + 1 <= p /\ Nonce + 1 \in Nat
    <3> HIDE DEF p
    <3> QED BY <1>1, <2>2
  <2>6. IsPending(sequencer', p)
    BY <1>3, <2>2, <2>3, <2>4, <2>5 DEF IsPending
  <2> QED BY <2>6, PendingIs
<1>7. Txs(ToSet(sequencer'.executed)) = Txs(ToSet(E)) \cup ToSet(tx.bundle)
  BY <1>1, TxsOfSeq
<1>8. ASSUME NEW n \in Nat PROVE PostedIn(sequencer, n) \subseteq PostedIn(sequencer', n)
  <2> DEFINE B == {x.bundle : x \in {y \in M : y.nonce < n}}
             C == {x.bundle : x \in {y \in N : y.nonce < n}}
  <2>1. B \subseteq C \cup {tx.bundle}
    OBVIOUS
  <2> HIDE DEF B, C
  <2>2. Txs(B) \subseteq Txs(C) \cup ToSet(tx.bundle)
    BY <2>1 DEF Txs
  <2>3. PostedIn(sequencer, n) = Txs(ToSet(E)) \cup Txs(B)
    BY DEF PostedIn, B
  <2>4. PostedIn(sequencer', n) = Txs(ToSet(sequencer'.executed)) \cup Txs(C)
    BY DEF PostedIn, C
  <2> QED BY <1>7, <2>2, <2>3, <2>4
<1>9. Grows
  BY <1>8 DEF Grows
<1>10. ExecutedInOrder'
  <2>1. BundlesInOrder(E, factory.lost)
    BY DEF IInv, SequencerInv, ExecutedInOrder
  <2>2. PostedIn(sequencer, tx.nonce) = Executed
    <3>1. {x \in M : x.nonce < tx.nonce} = {}
      BY <1>1, <1>2
    <3>2. {x.bundle : x \in {y \in M : y.nonce < tx.nonce}} = {}
      BY <3>1
    <3> QED BY <3>2, TxsFacts DEF PostedIn, Executed
  <2>3. InOrder(tx.bundle, factory.lost \cup Executed)
    BY <2>2 DEF IInv, SequencerInv, PostedBefore
  <2>4. BundlesInOrder(Append(E, tx.bundle), factory.lost)
    BY <1>1, <2>1, <2>3, BundlesAppend DEF Executed
  <2> QED BY <2>4 DEF ExecutedInOrder
<1>11. ASSUME NEW x \in N \cup sequencer'.wire
       PROVE  InOrder(x.bundle, factory.lost \cup PostedIn(sequencer', x.nonce))
  <2>1. InOrder(x.bundle, factory.lost \cup PostedIn(sequencer, x.nonce))
    BY DEF IInv, SequencerInv, PostedBefore
  <2>2. x.nonce \in Nat
    BY DEF TypeOK, Tx
  <2>3. factory.lost \cup PostedIn(sequencer, x.nonce) \subseteq factory.lost \cup PostedIn(sequencer', x.nonce)
    BY <1>8, <2>2
  <2> QED BY <2>1, <2>3, InOrderMonotonic
<1>12. SequencerInv'
  BY <1>10, <1>11 DEF SequencerInv, PostedBefore
<1> QED BY <1>5, <1>6, <1>9, <1>12 DEF ChainInv

(* The mempool removes transactions, whose bundles are lost.               *)
LEMMA ChainRemoves ==
    ASSUME IInv, TypeOK', NEW gone, gone \subseteq sequencer.mempool,
           sequencer'.executed = sequencer.executed,
           sequencer'.mempool = sequencer.mempool \ gone,
           sequencer'.wire = sequencer.wire,
           factory'.lost = factory.lost \cup Txs({tx.bundle : tx \in gone})
    PROVE  ChainInv' /\ Grows
<1> DEFINE M == sequencer.mempool
           N == sequencer'.mempool
           L == {tx.bundle : tx \in gone}
<1>1. NonceInv'
  BY DEF IInv, NonceInv, Nonce
<1>2. ASSUME NEW n \in Nat
      PROVE  PostedIn(sequencer, n) \cup factory.lost \subseteq PostedIn(sequencer', n) \cup factory'.lost
  <2> DEFINE B == {x.bundle : x \in {y \in M : y.nonce < n}}
             C == {x.bundle : x \in {y \in N : y.nonce < n}}
  <2>1. B \subseteq C \cup L
    OBVIOUS
  <2>2. PostedIn(sequencer, n) = Txs(ToSet(sequencer.executed)) \cup Txs(B)
    BY DEF PostedIn
  <2>3. PostedIn(sequencer', n) = Txs(ToSet(sequencer.executed)) \cup Txs(C)
    BY DEF PostedIn
  <2>4. factory'.lost = factory.lost \cup Txs(L)
    OBVIOUS
  <2> HIDE DEF B, C, L
  <2>5. Txs(B) \subseteq Txs(C) \cup Txs(L)
    BY <2>1 DEF Txs
  <2> QED BY <2>2, <2>3, <2>4, <2>5
<1>3. Grows
  BY <1>2 DEF Grows
<1>4. ExecutedInOrder'
  <2>1. factory.lost \subseteq factory'.lost
    OBVIOUS
  <2> QED BY <2>1, BundlesMonotonic DEF IInv, SequencerInv, ExecutedInOrder
<1>5. ASSUME NEW x \in N \cup sequencer'.wire
      PROVE  InOrder(x.bundle, factory'.lost \cup PostedIn(sequencer', x.nonce))
  <2>1. InOrder(x.bundle, factory.lost \cup PostedIn(sequencer, x.nonce))
    BY DEF IInv, SequencerInv, PostedBefore
  <2>2. x.nonce \in Nat
    BY DEF TypeOK, Tx
  <2>3. factory.lost \cup PostedIn(sequencer, x.nonce) \subseteq factory'.lost \cup PostedIn(sequencer', x.nonce)
    BY <1>2, <2>2
  <2> DEFINE A == factory.lost \cup PostedIn(sequencer, x.nonce)
             B == factory'.lost \cup PostedIn(sequencer', x.nonce)
  <2>4. InOrder(x.bundle, A) /\ A \subseteq B
    BY <2>1, <2>3
  <2> HIDE DEF A, B
  <2>5. InOrder(x.bundle, B)
    BY <2>4, InOrderMonotonic
  <2> QED BY <2>5 DEF B
<1>6. SequencerInv'
  BY <1>4, <1>5 DEF SequencerInv, PostedBefore
<1> QED BY <1>1, <1>3, <1>6 DEF ChainInv

-----------------------------------------------------------------------------
(* The cursor *)

(* The cursor and what it reaches are nonces.                              *)
LEMMA CursorTypes ==
    /\ TypeOK => Cursor \in Nat /\ Reach \in Nat /\ PendingNonce \in Nat
    /\ TypeOK' => Cursor' \in Nat /\ Reach' \in Nat /\ PendingNonce' \in Nat
<1>1. ASSUME TypeOK PROVE Cursor \in Nat /\ Reach \in Nat /\ PendingNonce \in Nat
  <2>1. PendingNonce \in Nat
    BY <1>1, PendingFacts DEF IsPending
  <2>2. submission.tx.nonce \in Nat /\ executor.nonce \in Nat
    BY <1>1 DEF TypeOK, Submissions, Executors, Tx
  <2> QED BY <2>1, <2>2 DEF Cursor, Reach
<1>2. ASSUME TypeOK' PROVE Cursor' \in Nat /\ Reach' \in Nat /\ PendingNonce' \in Nat
  <2>1. PendingNonce' \in Nat
    BY <1>2, PendingFacts DEF IsPending
  <2>2. submission'.tx.nonce \in Nat /\ executor'.nonce \in Nat
    BY <1>2 DEF TypeOK, Submissions, Executors, Tx
  <2>3. Cursor' \in Nat
    BY <2>2 DEF Cursor
  <2> QED BY <2>1, <2>3 DEF Reach
<1> QED BY <1>1, <1>2

(* What the composer has posted stays posted, or is lost, when its cursor  *)
(* reaches as far as before.                                               *)
LEMMA PostedGrows ==
    ASSUME TypeOK, TypeOK', Grows, Reach <= Reach'
    PROVE  Posted \cup factory.lost \subseteq Posted' \cup factory'.lost
<1> DEFINE m == Reach
           n == Reach'
           t == sequencer'
<1>1. m \in Nat /\ n \in Nat /\ m <= n
  BY CursorTypes
<1>2. Posted = PostedIn(sequencer, m) /\ Posted' = PostedIn(t, n)
  BY DEF Posted, PostedBefore
<1>3. \A x \in t.mempool : x.nonce \in Nat
  BY DEF TypeOK, Tx
<1>4. PostedIn(sequencer, m) \cup factory.lost \subseteq PostedIn(t, m) \cup factory'.lost
  BY <1>1 DEF Grows
<1> HIDE DEF m, n, t
<1>5. PostedIn(t, m) \subseteq PostedIn(t, n)
  BY <1>1, <1>3, PostedMonotonic
<1> QED BY <1>2, <1>4, <1>5

(* Steps that leave the cursor where it is.                                *)
LEMMA CursorKept ==
    ASSUME IInv, TypeOK', Grows, Cursor' = Cursor, Refetches' <=> Refetches,
           Active' <=> Active, ~Active' => Idle' /\ executor'.nonce = 0,
           faults \subseteq faults', PendingNonce <= PendingNonce',
           \A tx \in sequencer'.wire :
               tx \in sequencer.wire \/ (Active /\ ~Refetches /\ tx.nonce = Cursor),
           \A tx \in sequencer'.mempool :
               tx \in sequencer.mempool \/ tx \in sequencer.wire \/ tx.nonce = PendingNonce,
           ~Refetches /\ Contested' /\ PendingNonce' < Cursor => Contested
    PROVE  CursorInv' /\ Posted \cup factory.lost \subseteq Posted' \cup factory'.lost
<1> DEFINE e == Cursor
           p == PendingNonce
           q == PendingNonce'
           M == sequencer.mempool
           W == sequencer.wire
           N == sequencer'.mempool
           V == sequencer'.wire
<1>1. e \in Nat /\ p \in Nat /\ q \in Nat /\ p <= q /\ Cursor' = e
  BY CursorTypes DEF IInv
<1>2. \A x \in M \cup W \cup N \cup V : x.nonce \in Nat
  BY DEF IInv, TypeOK, Tx
<1>3. \A x \in N : x.nonce # q
  BY PendingFacts DEF IsPending
<1>4. ~Refetches /\ p < e => \A x \in M \cup W : x.nonce <= e
  BY DEF IInv, CursorInv
<1>5. ASSUME "removal" \notin faults'
      PROVE  /\ \A x \in M : x.nonce < p
             /\ \A x \in W : x.nonce <= p
             /\ Active /\ ~Refetches => e <= p /\ \A x \in W : x.nonce <= e
  BY <1>5 DEF IInv, CursorInv, NoGap
<1>6. /\ \A x \in V : x \in W \/ (Active /\ ~Refetches /\ x.nonce = e)
      /\ \A x \in N : x \in M \/ x \in W \/ x.nonce = p
  OBVIOUS
<1>7. Reach = (IF Refetches \/ (p < e /\ Contested) THEN p ELSE e)
  BY DEF Reach
<1>8. Reach' = (IF Refetches \/ (q < e /\ Contested') THEN q ELSE e)
  BY DEF Reach
<1>9. ~Refetches /\ Contested' /\ q < e => Contested
  OBVIOUS
<1> HIDE DEF e, p, q, M, W, N, V
<1>10. ASSUME ~Refetches, q < e PROVE \A x \in N \cup V : x.nonce <= e
  <2>1. p < e
    BY <1>1, <1>10
  <2>2. \A x \in M \cup W : x.nonce <= e
    BY <1>4, <1>10, <2>1
  <2> QED BY <1>1, <1>2, <1>6, <2>1, <2>2
<1>11. ASSUME "removal" \notin faults'
       PROVE  /\ \A x \in N : x.nonce < q
              /\ \A x \in V : x.nonce <= q
              /\ Active /\ ~Refetches => e <= q /\ \A x \in V : x.nonce <= e
  <2>1. /\ \A x \in M : x.nonce < p
        /\ \A x \in W : x.nonce <= p
        /\ Active /\ ~Refetches => e <= p /\ \A x \in W : x.nonce <= e
    BY <1>5, <1>11
  <2>2. \A x \in N : x.nonce < q
    <3>1. \A x \in N : x.nonce <= p
      BY <1>1, <1>2, <1>6, <2>1
    <3> QED BY <1>1, <1>2, <1>3, <3>1
  <2>3. ASSUME NEW x \in V PROVE x.nonce <= q /\ (Active /\ ~Refetches => x.nonce <= e)
    <3>1. CASE x \in W
      <4>1. x.nonce <= p /\ (Active /\ ~Refetches => x.nonce <= e)
        BY <2>1, <3>1
      <4> QED BY <1>1, <1>2, <4>1
    <3>2. CASE Active /\ ~Refetches /\ x.nonce = e
      BY <1>1, <2>1, <3>2
    <3> QED BY <1>6, <3>1, <3>2
  <2>4. Active /\ ~Refetches => e <= q
    BY <1>1, <2>1
  <2> QED BY <2>2, <2>3, <2>4
<1>12. Reach <= Reach'
  BY <1>1, <1>7, <1>8, <1>9
<1>13. CursorInv'
  <2>1. (~Refetches /\ PendingNonce < Cursor =>
            \A tx \in sequencer.mempool \cup sequencer.wire : tx.nonce <= Cursor)'
    BY <1>1, <1>10 DEF e, q, N, V
  <2>2. "removal" \notin faults' => NoGap'
    BY <1>1, <1>11 DEF NoGap, e, q, N, V
  <2> QED BY <2>1, <2>2 DEF CursorInv
<1> QED BY <1>12, <1>13, PostedGrows DEF IInv

-----------------------------------------------------------------------------
(* What the steps have in common *)

(* The types of the fields.                                                *)
LEMMA Fields ==
    ASSUME TypeOK
    PROVE  /\ arrived \in Nat /\ channel \in Seq(Nat) /\ factory \in Factories
           /\ collector.todo \in Seq(Nat) /\ collector.next \in Nat
           /\ collector.existing \subseteq Nat
           /\ factory.current \in Seq(Nat) /\ factory.finished \in Seq(Seq(Nat))
           /\ factory.lost \subseteq Nat
           /\ executor.nonce \in Nat /\ executor.drain \in Seq(Seq(Nat))
           /\ submission.tx \in Tx /\ submission.tx.nonce \in Nat
           /\ submission.tx.bundle \in Seq(Nat)
           /\ sequencer.mempool \subseteq Tx /\ sequencer.wire \subseteq Tx
BY DEF TypeOK, Collectors, Factories, Executors, Submissions, Tx

(* The types of a stopped collector and of no submission.                  *)
LEMMA EmptyTypes ==
    /\ NoCollector \in Collectors
    /\ NoSubmission \in Submissions
    /\ << >> \in Seq(Seq(Nat)) /\ << >> \in Seq(Nat)
<1>1. << >> \in Seq(Seq(Nat)) /\ << >> \in Seq(Nat)
  OBVIOUS
<1> QED BY <1>1 DEF NoCollector, NoSubmission, Collectors, Submissions, Tx

(* The parts of the invariant in the new state, put together.              *)
LEMMA Assembled ==
    ASSUME TypeOK', ChainInv', CursorInv', SubmissionInv', PipelineInv'
    PROVE  IInv'
BY DEF IInv, ChainInv

(* Steps that move nothing in the composer: more transactions may be       *)
(* posted, lost, or arrive.                                                *)
LEMMA PipelineKept ==
    ASSUME IInv, TypeOK', executor'.phase # "closed" => executor.phase # "closed",
           submission'.tx.bundle = submission.tx.bundle, executor'.drain = executor.drain,
           factory'.current = factory.current, factory'.finished = factory.finished,
           channel' = channel, collector' = collector, arrived <= arrived',
           Posted \cup factory.lost \subseteq Posted' \cup factory'.lost
    PROVE  PipelineInv'
<1> SUFFICES ASSUME executor'.phase # "closed"
             PROVE  /\ StagesInOrder(Posted', submission'.tx.bundle, executor'.drain, factory',
                                     channel', collector'.todo)
                    /\ CollectorInv(Collected(Posted, submission.tx.bundle, executor.drain,
                                              factory, channel, collector.todo))'
  BY DEF PipelineInv
<1> DEFINE C == Collected(Posted, submission.tx.bundle, executor.drain, factory, channel,
                          collector.todo)
<1>1. /\ StagesInOrder(Posted, submission.tx.bundle, executor.drain, factory, channel,
                       collector.todo)
      /\ CollectorInv(C)
  BY DEF IInv, PipelineInv
<1>2. /\ StagesInOrder(Posted', submission.tx.bundle, executor.drain, factory', channel,
                       collector.todo)
      /\ C \subseteq Collected(Posted', submission.tx.bundle, executor.drain, factory',
                               channel, collector.todo)
  BY <1>1, StagesMonotonic
<1>3. C \subseteq C'
  BY <1>2
<1>4. arrived \in Nat /\ arrived' \in Nat /\ collector.next \in Nat
  BY Fields DEF IInv, TypeOK
<1> HIDE DEF C
<1>5. CollectorInv(C)'
  BY <1>1, <1>3, <1>4 DEF CollectorInv
<1> QED BY <1>2, <1>5 DEF C

(* Steps of the collector and the executor that leave the Sequencer alone. *)
LEMMA SequencerKept ==
    ASSUME IInv, sequencer' = sequencer, factory.lost \subseteq factory'.lost
    PROVE  /\ ChainInv' /\ PendingNonce' = PendingNonce /\ Grows
           /\ PendingNonce \in Nat
<1>1. ChainInv' /\ PendingNonce' = PendingNonce /\ Grows
  BY ChainKept
<1>2. PendingNonce \in Nat
  BY CursorTypes DEF IInv
<1> QED BY <1>1, <1>2

(* Steps that concern neither the Sequencer nor the submission.            *)
LEMMA QuietStep ==
    ASSUME IInv, TypeOK', sequencer' = sequencer, submission' = submission,
           executor'.nonce = executor.nonce, Active' <=> Active,
           factory.lost \subseteq factory'.lost, faults \subseteq faults'
    PROVE  ChainInv' /\ CursorInv' /\ Posted' = Posted
<1>1. ChainInv' /\ PendingNonce' = PendingNonce /\ Grows /\ PendingNonce \in Nat
  BY SequencerKept
<1>2. Cursor' = Cursor /\ Refetches' = Refetches /\ Idle' = Idle
  BY DEF Cursor, Refetches, Idle
<1>3. Contested' = Contested
  BY <1>2 DEF Contested
<1>4. Posted' = Posted
  <2>1. Reach' = Reach
    BY <1>1, <1>2, <1>3 DEF Reach
  <2> QED BY <2>1 DEF Posted, PostedBefore
<1>5. ~Active' => Idle' /\ executor'.nonce = 0
  BY <1>2 DEF IInv, CursorInv
<1>6. PendingNonce <= PendingNonce'
  BY <1>1
<1>7. CursorInv'
  BY <1>1, <1>2, <1>3, <1>5, <1>6, CursorKept
<1> QED BY <1>1, <1>4, <1>7

(* A bundle is taken for submission, with the executor's nonce.            *)
LEMMA SubmitStep ==
    ASSUME IInv, TypeOK', sequencer' = sequencer, Idle, Active, Active',
           submission'.phase = "send", submission'.tx.nonce = executor.nonce,
           factory'.lost = factory.lost, faults \subseteq faults'
    PROVE  /\ ChainInv' /\ CursorInv'
           /\ Posted \cup factory'.lost \subseteq Posted' \cup factory'.lost
<1>1. ChainInv' /\ PendingNonce' = PendingNonce /\ Grows /\ PendingNonce \in Nat
  BY SequencerKept
<1>2. Cursor' = Cursor /\ ~Refetches /\ ~Refetches'
  BY DEF Cursor, Refetches, Idle
<1>3. Contested' => Contested
  BY <1>2 DEF Contested, Idle
<1>4. PendingNonce <= PendingNonce'
  BY <1>1
<1>5. CursorInv' /\ Posted \cup factory.lost \subseteq Posted' \cup factory'.lost
  BY <1>1, <1>2, <1>3, <1>4, CursorKept
<1> QED BY <1>1, <1>5

(* The executor ends: what was in the composer does not matter any more.   *)
LEMMA ExecutorEnds ==
    ASSUME IInv, EndExecutor, UNCHANGED <<arrived, channel, factory, sequencer>>,
           faults \subseteq faults',
           collector' = collector \/ collector' = NoCollector
    PROVE  IInv'
<1>1. TypeOK'
  <2>1. executor' \in Executors
    BY EmptyTypes DEF EndExecutor, Executors
  <2>2. submission' = NoSubmission
    BY DEF EndExecutor
  <2> QED BY <2>1, <2>2, EmptyTypes DEF IInv, TypeOK
<1>2. ChainInv' /\ PendingNonce' = PendingNonce /\ PendingNonce \in Nat
  BY SequencerKept
<1>3. /\ executor'.phase = "closed" /\ executor'.nonce = 0 /\ executor'.drain = << >>
      /\ submission'.phase = "none" /\ submission'.tx.nonce = 0 /\ submission'.tx.bundle = << >>
  BY DEF EndExecutor, NoSubmission
<1>4. SubmissionInv' /\ PipelineInv'
  BY <1>3 DEF SubmissionInv, PipelineInv, Idle
<1>5. CursorInv'
  <2>1. ~Active' /\ ~Refetches' /\ Cursor' = 0 /\ Idle'
    BY <1>3 DEF Active, Refetches, Cursor, Idle
  <2>2. "removal" \notin faults' => NoGap
    BY DEF IInv, CursorInv
  <2>3. "removal" \notin faults' => NoGap'
    BY <1>2, <2>1, <2>2 DEF NoGap
  <2> QED BY <1>2, <1>3, <2>1, <2>3 DEF CursorInv
<1> QED BY <1>1, <1>2, <1>4, <1>5, Assembled

-----------------------------------------------------------------------------
(* The collector *)

(* A new transaction in the rollup's pool is ahead of nothing collected.   *)
LEMMA NewTxIInv == IInv /\ NewTx => IInv'
<1> SUFFICES ASSUME IInv, NewTx PROVE IInv'
  OBVIOUS
<1>1. TypeOK' /\ arrived <= arrived'
  BY DEF IInv, TypeOK, NewTx
<1>2. ChainInv' /\ CursorInv' /\ Posted' = Posted
  BY <1>1, QuietStep DEF NewTx, Active
<1>3. SubmissionInv'
  BY DEF IInv, SubmissionInv, Idle, NewTx
<1>4. PipelineInv'
  BY <1>1, <1>2, PipelineKept DEF NewTx
<1> QED BY <1>1, <1>2, <1>3, <1>4, Assembled

(* Steps of the collector keep the rest.                                   *)
LEMMA CollectorStep ==
    ASSUME IInv, UNCHANGED <<executor, submission, sequencer>>, faults \subseteq faults',
           factory.lost \subseteq factory'.lost, TypeOK', PipelineInv'
    PROVE  IInv'
<1>1. ChainInv' /\ CursorInv'
  BY QuietStep DEF Active
<1>2. SubmissionInv'
  BY DEF IInv, SubmissionInv, Idle
<1> QED BY <1>1, <1>2, Assembled

(* The subscription starts right after the transactions that have          *)
(* arrived.                                                                *)
LEMMA SubscribeIInv == IInv /\ Subscribe => IInv'
<1> SUFFICES ASSUME IInv, Subscribe PROVE IInv'
  OBVIOUS
<1>1. TypeOK'
  <2>0. arrived + 1 \in Nat
    BY DEF IInv, TypeOK
  <2>1. collector' \in Collectors
    BY <2>0 DEF IInv, TypeOK, Subscribe, Collectors
  <2> QED BY <2>1 DEF IInv, TypeOK, Subscribe
<1>2. Posted' = Posted /\ faults \subseteq faults'
  BY <1>1, QuietStep DEF Subscribe, Active
<1>3. /\ collector.phase = "off" /\ executor.phase # "closed"
      /\ collector'.phase = "subscribed" /\ collector'.next = arrived + 1
      /\ collector'.todo = collector.todo /\ collector.todo = << >>
  BY DEF Subscribe, Open, IInv, TypeOK, Collectors, PipelineInv, CollectorInv
<1>4. arrived \in Nat
  BY DEF IInv, TypeOK
<1>5. PipelineInv'
  BY <1>2, <1>3, <1>4 DEF IInv, PipelineInv, CollectorInv, Subscribe
<1> QED BY <1>1, <1>2, <1>5, CollectorStep DEF Subscribe

(* What the collector still held stays in the rollup's pool for the next   *)
(* one.                                                                    *)
LEMMA StreamEndsIInv == IInv /\ StreamEnds => IInv'
<1> SUFFICES ASSUME IInv, StreamEnds PROVE IInv'
  OBVIOUS
<1>1. TypeOK'
  <2>1. collector' = NoCollector /\ UNCHANGED <<arrived, channel, factory, executor, submission, sequencer>>
    BY DEF StreamEnds
  <2> QED BY <2>1, EmptyTypes DEF IInv, TypeOK
<1>2. Posted' = Posted /\ faults \subseteq faults'
  BY <1>1, QuietStep DEF StreamEnds, Active, Fault
<1>3. collector'.phase = "off" /\ collector'.todo = << >> /\ executor.phase # "closed"
  BY DEF StreamEnds, NoCollector, Open
<1>4. StagesInOrder(Posted, submission.tx.bundle, executor.drain, factory, channel, << >>)
  BY <1>3, InOrderEmpty DEF IInv, PipelineInv, StagesInOrder
<1>5. PipelineInv'
  BY <1>2, <1>3, <1>4 DEF PipelineInv, CollectorInv, StreamEnds
<1> QED BY <1>1, <1>2, <1>5, CollectorStep DEF StreamEnds

(* The pool's content starts after a prefix that has been executed, so it  *)
(* is in order.                                                            *)
LEMMA TxpoolContentIInv == IInv /\ TxpoolContent => IInv'
<1> SUFFICES ASSUME IInv, TxpoolContent PROVE IInv'
  OBVIOUS
<1>1. PICK settled \in 0..arrived :
        /\ 1..settled \subseteq Executed
        /\ collector' = [collector EXCEPT
               !.phase = "run",
               !.todo = [i \in 1..(arrived - settled) |-> settled + i],
               !.existing = (settled + 1)..arrived]
  BY DEF TxpoolContent
<1> DEFINE todo == [i \in 1..(arrived - settled) |-> settled + i]
           D == Behind(factory, Ahead(Posted, submission.tx.bundle, executor.drain)) \cup ToSet(channel)
<1>2. arrived \in Nat /\ settled \in Nat /\ settled <= arrived /\ collector.next \in Nat
  BY Fields DEF IInv
<1>3. todo \in Seq(Nat) /\ (settled + 1)..arrived \subseteq Nat
  BY <1>2
<1>4. /\ collector'.phase = "run" /\ collector'.todo = todo /\ collector'.next = collector.next
      /\ collector'.existing = (settled + 1)..arrived
      /\ collector.phase = "subscribed" /\ executor.phase # "closed"
  BY <1>1 DEF TxpoolContent, Open, IInv, TypeOK, Collectors
<1>5. TypeOK'
  <2>1. collector' \in Collectors
    <3> HIDE DEF todo
    <3> QED BY <1>1, <1>3 DEF IInv, TypeOK, todo, Collectors
  <2> QED BY <2>1 DEF IInv, TypeOK, TxpoolContent
<1>6. Posted' = Posted /\ faults \subseteq faults'
  BY <1>5, QuietStep DEF TxpoolContent, Active
<1>7. 1..settled \subseteq D
  <2>1. 1..settled \subseteq Posted
    BY <1>1 DEF Posted, PostedBefore, PostedIn, Executed
  <2> QED BY <2>1 DEF Behind, Ahead
<1> HIDE DEF D
<1>8. InOrder(todo, D)
  <2> SUFFICES ASSUME NEW i \in DOMAIN todo, NEW t \in 1..(todo[i] - 1), t \notin D
               PROVE  \E j \in 1..(i - 1) : todo[j] = t
    BY DEF InOrder
  <2>1. i \in 1..(arrived - settled) /\ t \in 1..(settled + i - 1) /\ t \notin 1..settled
    BY <1>2, <1>7
  <2>2. t - settled \in 1..(i - 1) /\ t - settled \in 1..(arrived - settled)
    BY <1>2, <2>1
  <2>3. todo[t - settled] = t
    BY <1>2, <2>1, <2>2
  <2> QED BY <2>2, <2>3
<1>9. 1..arrived \subseteq D \cup ToSet(todo)
  <2> SUFFICES ASSUME NEW t \in 1..arrived, t \notin 1..settled PROVE t \in ToSet(todo)
    BY <1>7
  <2>1. t - settled \in DOMAIN todo /\ todo[t - settled] = t
    BY <1>2
  <2> HIDE DEF todo
  <2> QED BY <2>1 DEF ToSet
<1>10. collector.next <= arrived + 1
  BY <1>4 DEF IInv, PipelineInv, CollectorInv
<1>11. (settled + 1)..arrived \cup 1..(collector.next - 1) \subseteq 1..arrived
  BY <1>2, <1>10
<1> HIDE DEF todo
<1>12. StagesInOrder(Posted, submission.tx.bundle, executor.drain, factory, channel, todo)
  BY <1>4, <1>8 DEF IInv, PipelineInv, StagesInOrder, D
<1>13. Collected(Posted, submission.tx.bundle, executor.drain, factory, channel, todo)
         = D \cup ToSet(todo)
  BY DEF Collected, D
<1>14. PipelineInv'
  BY <1>4, <1>6, <1>9, <1>11, <1>12, <1>13 DEF PipelineInv, CollectorInv, TxpoolContent
<1> QED BY SMTT(30), <1>5, <1>6, <1>14, CollectorStep DEF TxpoolContent

(* The existing transactions, then the new ones, enter the channel in      *)
(* order or are lost.                                                      *)
LEMMA NextTxIInv == IInv /\ NextTx => IInv'
<1> SUFFICES ASSUME IInv, NextTx PROVE IInv'
  OBVIOUS
<1> DEFINE b == submission.tx.bundle
           d == executor.drain
           C == Collected(Posted, b, d, factory, channel, collector.todo)
<1>0. /\ channel \in Seq(Nat) /\ factory \in Factories /\ collector.todo \in Seq(Nat)
      /\ collector.next \in Nat /\ collector.existing \subseteq Nat /\ arrived \in Nat
  BY Fields DEF IInv
<1>1. /\ executor.phase # "closed" /\ collector.phase = "run"
      /\ UNCHANGED <<arrived, executor, submission, sequencer>>
  BY DEF NextTx, Open
<1>2. /\ StagesInOrder(Posted, b, d, factory, channel, collector.todo)
      /\ collector.existing \cup 1..(collector.next - 1) \subseteq C
  BY <1>1 DEF IInv, PipelineInv, CollectorInv
<1>3. SUFFICES ASSUME Posted' = Posted
               PROVE  /\ factory' \in Factories /\ factory.lost \subseteq factory'.lost
                      /\ channel' \in Seq(Nat)
                      /\ collector' \in Collectors
                      /\ collector'.phase = "run"
                      /\ StagesInOrder(Posted, b, d, factory', channel', collector'.todo)
                      /\ collector'.existing \cup 1..(collector'.next - 1)
                           \subseteq Collected(Posted, b, d, factory', channel', collector'.todo)
  <2>1. Posted' = Posted
    BY <1>1 DEF Posted, PostedBefore, Reach, Refetches, Contested, Cursor, PendingNonce,
       NonceInMempool, Nonce
  <2>2. ASSUME factory' \in Factories, channel' \in Seq(Nat),
               collector' \in Collectors
        PROVE  TypeOK'
    BY <1>1, <2>2 DEF IInv, TypeOK
  <2>3. ASSUME collector'.phase = "run",
               StagesInOrder(Posted, b, d, factory', channel', collector'.todo),
               collector'.existing \cup 1..(collector'.next - 1)
                   \subseteq Collected(Posted, b, d, factory', channel', collector'.todo)
        PROVE  PipelineInv'
    BY <1>1, <2>1, <2>3 DEF PipelineInv, CollectorInv
  <2>4. faults \subseteq faults'
    BY DEF NextTx, ForwardTx, Fault
  <2> QED BY <1>1, <2>1, <2>2, <2>3, <2>4, CollectorStep
<1> HIDE DEF C
<1>4. ASSUME NEW t \in Nat, NEW rest, ForwardTx(t), collector'.todo = rest,
             \/ collector.todo # << >> /\ t = Head(collector.todo) /\ rest = Tail(collector.todo)
             \/ collector.todo = << >> /\ rest = << >> /\ 1..(t - 1) \subseteq C
      PROVE  /\ factory' \in Factories /\ factory.lost \subseteq factory'.lost
             /\ channel' \in Seq(Nat)
             /\ StagesInOrder(Posted, b, d, factory', channel', collector'.todo)
             /\ C \cup {t} \subseteq Collected(Posted, b, d, factory', channel', collector'.todo)
  <2> HIDE DEF b, d
  <2>1. CASE channel' = Append(channel, t) /\ factory' = factory
    <3>1. /\ StagesInOrder(Posted, b, d, factory, Append(channel, t), rest)
          /\ C \cup {t} \subseteq Collected(Posted, b, d, factory, Append(channel, t), rest)
      <4>1. CASE collector.todo # << >> /\ t = Head(collector.todo) /\ rest = Tail(collector.todo)
        <5>1. t \in ToSet(collector.todo)
          BY <1>0, <4>1, ToSetFacts
        <5>2. t \in C
          BY <5>1 DEF C, Collected
        <5>3. /\ StagesInOrder(Posted, b, d, factory, Append(channel, t), rest)
              /\ C = Collected(Posted, b, d, factory, Append(channel, t), rest)
          BY <1>0, <1>2, <4>1, StagesSent DEF C
        <5> QED BY <5>2, <5>3
      <4>2. CASE collector.todo = << >> /\ rest = << >> /\ 1..(t - 1) \subseteq C
        <5>1. StagesInOrder(Posted, b, d, factory, channel, << >>)
          BY <1>2, <4>2
        <5>2. \A u \in 1..(t - 1) : u \in Collected(Posted, b, d, factory, channel, << >>)
          BY <4>2 DEF C
        <5>3. /\ StagesInOrder(Posted, b, d, factory, Append(channel, t), << >>)
              /\ Collected(Posted, b, d, factory, Append(channel, t), << >>)
                   = Collected(Posted, b, d, factory, channel, << >>) \cup {t}
          BY <1>0, <5>1, <5>2, StagesSentNew
        <5> QED BY <4>2, <5>3 DEF C
      <4> QED BY <1>4, <4>1, <4>2
    <3>2. Append(channel, t) \in Seq(Nat)
      BY <1>0
    <3> QED BY <1>0, <1>4, <2>1, <3>1, <3>2
  <2>2. CASE channel' = channel /\ factory' = [factory EXCEPT !.lost = @ \cup {t}]
    <3>1. /\ StagesInOrder(Posted, b, d, factory', channel, rest)
          /\ C \cup {t} \subseteq Collected(Posted, b, d, factory', channel, rest)
      BY <1>0, <1>2, <1>4, <2>2, StagesDropped DEF C
    <3>2. factory' \in Factories /\ factory.lost \subseteq factory'.lost
      BY <1>0, <2>2 DEF Factories
    <3> QED BY <1>0, <1>4, <2>2, <3>1, <3>2
  <2> QED BY <1>4, <2>1, <2>2 DEF ForwardTx, Lose
<1>5. CASE /\ collector.todo # << >>
           /\ ForwardTx(Head(collector.todo))
           /\ collector' = [collector EXCEPT !.todo = Tail(@)]
  <2>1. Head(collector.todo) \in Nat /\ Tail(collector.todo) \in Seq(Nat)
    BY <1>0, <1>5, ToSetFacts
  <2>2. /\ collector' \in Collectors
        /\ collector'.phase = "run" /\ collector'.todo = Tail(collector.todo)
        /\ collector'.next = collector.next /\ collector'.existing = collector.existing
    BY <1>1, <1>5, <2>1 DEF IInv, TypeOK, Collectors
  <2>3. /\ factory' \in Factories /\ factory.lost \subseteq factory'.lost
        /\ channel' \in Seq(Nat)
        /\ StagesInOrder(Posted, b, d, factory', channel', collector'.todo)
        /\ C \cup {Head(collector.todo)} \subseteq Collected(Posted, b, d, factory', channel', collector'.todo)
    BY <1>4, <1>5, <2>1, <2>2
  <2> QED BY <1>2, <2>2, <2>3
<1>6. CASE /\ collector.todo = << >> /\ collector.next <= arrived
           /\ IF collector.next \in collector.existing
              THEN UNCHANGED <<channel, factory, faults>>
              ELSE ForwardTx(collector.next)
           /\ collector' = [collector EXCEPT !.next = @ + 1]
  <2>1. /\ collector' \in Collectors
        /\ collector'.phase = "run" /\ collector'.todo = << >>
        /\ collector'.next = collector.next + 1 /\ collector'.existing = collector.existing
    BY <1>0, <1>1, <1>6 DEF IInv, TypeOK, Collectors
  <2>2. 1..(collector'.next - 1) \subseteq 1..(collector.next - 1) \cup {collector.next}
    BY <1>0, <2>1
  <2>3. CASE collector.next \in collector.existing
    <3>1. collector.next \in C /\ factory' = factory /\ channel' = channel
      BY <1>2, <1>6, <2>3
    <3> QED BY <1>0, <1>2, <1>6, <2>1, <2>2, <3>1 DEF C
  <2>4. CASE collector.next \notin collector.existing
    <3>1. 1..(collector.next - 1) \subseteq C
      BY <1>2
    <3>2. /\ factory' \in Factories /\ factory.lost \subseteq factory'.lost
          /\ channel' \in Seq(Nat)
          /\ StagesInOrder(Posted, b, d, factory', channel', collector'.todo)
          /\ C \cup {collector.next} \subseteq Collected(Posted, b, d, factory', channel', collector'.todo)
      BY <1>0, <1>4, <1>6, <2>1, <2>4, <3>1
    <3> QED BY <1>2, <2>1, <2>2, <3>2
  <2> QED BY <2>3, <2>4
<1> QED BY <1>5, <1>6 DEF NextTx

-----------------------------------------------------------------------------
(* The executor's loop *)

(* The executor starts with the pending nonce.                             *)
LEMMA InitExecutorIInv == IInv /\ InitExecutor => IInv'
<1> SUFFICES ASSUME IInv, InitExecutor PROVE IInv'
  OBVIOUS
<1>1. ChainInv' /\ PendingNonce' = PendingNonce /\ Grows /\ PendingNonce \in Nat
  BY SequencerKept DEF InitExecutor
<1>2. /\ executor' \in Executors /\ executor'.phase = "run" /\ executor'.nonce = PendingNonce
      /\ executor'.drain = executor.drain /\ executor.phase = "init"
  BY <1>1 DEF IInv, TypeOK, Executors, InitExecutor
<1>3. TypeOK'
  BY <1>2 DEF IInv, TypeOK, InitExecutor
<1>4. SubmissionInv'
  BY <1>2 DEF IInv, SubmissionInv, Idle, InitExecutor
<1>5. /\ ~Refetches /\ ~Refetches' /\ Active'
      /\ Cursor = 0 /\ Cursor' = PendingNonce
  <2>1. ~Active
    BY <1>2 DEF Active
  <2>2. Idle /\ executor.nonce = 0
    BY <2>1 DEF IInv, CursorInv
  <2> QED BY <1>2, <2>2 DEF Refetches, Cursor, Idle, Active, InitExecutor
<1>6. Reach = 0 /\ Reach' = PendingNonce
  BY <1>1, <1>5 DEF Reach
<1>7. Posted \cup factory.lost \subseteq Posted' \cup factory'.lost
  BY <1>1, <1>3, <1>6, PostedGrows DEF IInv
<1>8. PipelineInv'
  BY <1>2, <1>3, <1>7, Fields, PipelineKept DEF InitExecutor, IInv
<1>9. CursorInv'
  <2>1. "removal" \notin faults' => NoGap
    BY DEF IInv, CursorInv, InitExecutor
  <2>2. "removal" \notin faults' => NoGap'
    BY <1>1, <1>5, <2>1 DEF NoGap, InitExecutor
  <2> QED BY <1>1, <1>5, <2>2 DEF CursorInv
<1> QED BY <1>1, <1>3, <1>4, <1>8, <1>9, Assembled

(* Steps of an executor that has a session with its submission: what they  *)
(* do to the pipeline.                                                     *)
LEMMA PipelineStep ==
    ASSUME IInv, TypeOK', Posted \cup factory'.lost \subseteq Posted' \cup factory'.lost,
           executor.phase # "closed", collector' = collector, arrived' = arrived,
           StagesInOrder(Posted, submission'.tx.bundle, executor'.drain, factory', channel',
                         collector.todo),
           Collected(Posted, submission.tx.bundle, executor.drain, factory, channel,
                     collector.todo)
             \subseteq Collected(Posted, submission'.tx.bundle, executor'.drain, factory',
                                 channel', collector.todo)
    PROVE  PipelineInv'
<1> DEFINE C == Collected(Posted, submission.tx.bundle, executor.drain, factory, channel,
                          collector.todo)
           D == Collected(Posted, submission'.tx.bundle, executor'.drain, factory', channel',
                          collector.todo)
<1>1. CollectorInv(C)
  BY DEF IInv, PipelineInv
<1>2. /\ StagesInOrder(Posted', submission'.tx.bundle, executor'.drain, factory', channel',
                       collector.todo)
      /\ D \subseteq Collected(Posted', submission'.tx.bundle, executor'.drain, factory',
                               channel', collector.todo)
  BY StagesMonotonic
<1>3. PipelineInv' = (executor'.phase # "closed" =>
          /\ StagesInOrder(Posted', submission'.tx.bundle, executor'.drain, factory', channel',
                           collector.todo)
          /\ CollectorInv(C)')
  BY DEF PipelineInv
<1>4. C \subseteq C'
  BY <1>2
<1> HIDE DEF C, D
<1>5. CollectorInv(C)'
  BY <1>1, <1>4 DEF CollectorInv
<1> QED BY <1>2, <1>3, <1>5

(* The oldest finished bundle becomes the submission.                      *)
LEMMA NextFinishedIInv == IInv /\ NextFinished => IInv'
<1> SUFFICES ASSUME IInv, NextFinished PROVE IInv'
  OBVIOUS
<1>1. /\ factory \in Factories /\ executor.nonce \in Nat
      /\ Head(factory.finished) \in Seq(Nat) /\ Tail(factory.finished) \in Seq(Seq(Nat))
      /\ factory.finished # << >> /\ executor.phase = "run" /\ Idle
      /\ submission.tx.bundle = << >> /\ executor.drain = << >>
  <2>1. factory \in Factories /\ factory.finished \in Seq(Seq(Nat)) /\ executor.nonce \in Nat
    BY Fields DEF IInv
  <2>2. factory.finished # << >> /\ executor.phase = "run" /\ Idle
    BY DEF NextFinished
  <2>3. Head(factory.finished) \in Seq(Nat) /\ Tail(factory.finished) \in Seq(Seq(Nat))
    BY <2>1, <2>2, ToSetFacts
  <2> QED BY <2>1, <2>2, <2>3 DEF IInv, SubmissionInv
<1>2. /\ factory' = [factory EXCEPT !.finished = Tail(@)]
      /\ factory' \in Factories /\ factory'.lost = factory.lost
  BY <1>1 DEF NextFinished, Factories
<1>3. /\ submission' \in Submissions /\ submission'.phase = "send"
      /\ submission'.tx.nonce = executor.nonce /\ submission'.tx.bundle = Head(factory.finished)
  BY <1>1 DEF NextFinished, SubmitBundle, Submissions, Tx
<1>4. TypeOK'
  BY <1>2, <1>3 DEF IInv, TypeOK, NextFinished
<1>5. ChainInv' /\ CursorInv' /\ Posted \cup factory'.lost \subseteq Posted' \cup factory'.lost
  BY <1>1, <1>2, <1>3, <1>4, SubmitStep DEF NextFinished, Active
<1>6. SubmissionInv'
  BY <1>1, <1>3 DEF SubmissionInv, Idle, NextFinished
<1>7. StagesInOrder(Posted, << >>, << >>, factory, channel, collector.todo)
  BY <1>1 DEF IInv, PipelineInv
<1>8. /\ StagesInOrder(Posted, Head(factory.finished), << >>, factory', channel, collector.todo)
      /\ Collected(Posted, << >>, << >>, factory, channel, collector.todo)
           = Collected(Posted, Head(factory.finished), << >>, factory', channel, collector.todo)
  <2> DEFINE g == [factory EXCEPT !.finished = Tail(@)]
  <2>1. /\ StagesInOrder(Posted, Head(factory.finished), << >>, g, channel, collector.todo)
        /\ Collected(Posted, << >>, << >>, factory, channel, collector.todo)
             = Collected(Posted, Head(factory.finished), << >>, g, channel, collector.todo)
    BY <1>1, <1>7, StagesFinished, Zenon
  <2>2. factory' = g
    BY <1>2
  <2> HIDE DEF g
  <2> QED BY <2>1, <2>2
<1>9. PipelineInv'
  BY <1>1, <1>3, <1>4, <1>5, <1>8, PipelineStep DEF NextFinished
<1> QED BY <1>4, <1>5, <1>6, <1>9, Assembled

(* A transaction goes from the channel into the factory.                   *)
LEMMA RecvTxIInv == IInv /\ RecvTx => IInv'
<1> SUFFICES ASSUME IInv, RecvTx PROVE IInv'
  OBVIOUS
<1>1. /\ factory \in Factories /\ channel \in Seq(Nat) /\ channel # << >>
      /\ Tail(channel) \in Seq(Nat) /\ Head(channel) \in Nat /\ executor.phase = "run"
      /\ factory' = TryPush(factory, Head(channel)) /\ channel' = Tail(channel)
  BY Fields, ToSetFacts DEF IInv, RecvTx
<1>2. StagesInOrder(Posted, submission.tx.bundle, executor.drain, factory, channel, collector.todo)
  BY <1>1 DEF IInv, PipelineInv
<1>3. /\ factory' \in Factories /\ factory.lost \subseteq factory'.lost
      /\ StagesInOrder(Posted, submission.tx.bundle, executor.drain, factory', Tail(channel), collector.todo)
      /\ Collected(Posted, submission.tx.bundle, executor.drain, factory, channel, collector.todo)
           = Collected(Posted, submission.tx.bundle, executor.drain, factory', Tail(channel), collector.todo)
  <2>1. factory' \in Factories /\ factory.lost \subseteq factory'.lost
    BY <1>1, TryPushType, TryPushLost
  <2>2. /\ StagesInOrder(Posted, submission.tx.bundle, executor.drain, factory', Tail(channel), collector.todo)
        /\ Collected(Posted, submission.tx.bundle, executor.drain, factory, channel, collector.todo)
             = Collected(Posted, submission.tx.bundle, executor.drain, factory', Tail(channel), collector.todo)
    <3> DEFINE o == Posted
               b == submission.tx.bundle
               d == executor.drain
               l == collector.todo
    <3>1. StagesInOrder(o, b, d, factory, channel, l) /\ factory' \in {TryPush(factory, Head(channel))}
      BY <1>1, <1>2
    <3> HIDE DEF o, b, d, l
    <3>2. /\ StagesInOrder(o, b, d, factory', Tail(channel), l)
          /\ Collected(o, b, d, factory, channel, l) = Collected(o, b, d, factory', Tail(channel), l)
      BY <1>1, <3>1, StagesReceived
    <3> QED BY <3>2 DEF o, b, d, l
  <2> QED BY <2>1, <2>2
<1>4. TypeOK'
  BY <1>1, <1>3 DEF IInv, TypeOK, RecvTx
<1>5. ChainInv' /\ CursorInv' /\ Posted' = Posted
  BY <1>3, <1>4, QuietStep DEF RecvTx, Active
<1>6. SubmissionInv'
  BY DEF IInv, SubmissionInv, Idle, RecvTx
<1>7. PipelineInv'
  BY <1>1, <1>3, <1>4, <1>5, PipelineStep DEF RecvTx
<1> QED BY <1>4, <1>5, <1>6, <1>7, Assembled

(* The timer takes the current bundle only when no finished one is in      *)
(* front of it.                                                            *)
LEMMA BlockTimerIInv == IInv /\ BlockTimer => IInv'
<1> SUFFICES ASSUME IInv, BlockTimer PROVE IInv'
  OBVIOUS
<1>1. /\ factory \in Factories /\ executor.nonce \in Nat /\ factory.current \in Seq(Nat)
      /\ factory.finished = << >> /\ executor.phase = "run"
      /\ submission.tx.bundle = << >> /\ executor.drain = << >>
  BY Fields DEF IInv, SubmissionInv, BlockTimer
<1>2. /\ factory' = Emptied(factory)
      /\ factory' \in Factories /\ factory'.lost = factory.lost
  BY <1>1, EmptyTypes DEF BlockTimer, Factories, Emptied
<1>3. /\ submission' \in Submissions /\ submission'.phase = "send"
      /\ submission'.tx.nonce = executor.nonce /\ submission'.tx.bundle = factory.current
  BY <1>1 DEF BlockTimer, SubmitBundle, Submissions, Tx
<1>4. TypeOK'
  BY <1>2, <1>3 DEF IInv, TypeOK, BlockTimer
<1>5. ChainInv' /\ CursorInv' /\ Posted \cup factory'.lost \subseteq Posted' \cup factory'.lost
  BY <1>1, <1>2, <1>3, <1>4, SubmitStep DEF BlockTimer, Active
<1>6. SubmissionInv'
  BY <1>1, <1>3 DEF SubmissionInv, Idle, BlockTimer
<1>7. StagesInOrder(Posted, << >>, << >>, factory, channel, collector.todo)
  BY <1>1 DEF IInv, PipelineInv
<1>8. /\ StagesInOrder(Posted, factory.current, << >>, factory', channel, collector.todo)
      /\ Collected(Posted, << >>, << >>, factory, channel, collector.todo)
           = Collected(Posted, factory.current, << >>, factory', channel, collector.todo)
  BY <1>1, <1>2, <1>7, StagesPreempted
<1>9. PipelineInv'
  BY <1>1, <1>3, <1>4, <1>5, <1>8, PipelineStep DEF BlockTimer
<1> QED BY <1>4, <1>5, <1>6, <1>9, Assembled

(* A shutdown submits the oldest bundle that is left.                      *)
LEMMA DrainBundleIInv == IInv /\ DrainBundle => IInv'
<1> SUFFICES ASSUME IInv, DrainBundle PROVE IInv'
  OBVIOUS
<1>1. /\ executor.nonce \in Nat /\ executor.drain \in Seq(Seq(Nat)) /\ executor.drain # << >>
      /\ Head(executor.drain) \in Seq(Nat) /\ Tail(executor.drain) \in Seq(Seq(Nat))
      /\ executor.phase = "drain" /\ submission.tx.bundle = << >>
  <2>1. executor.drain \in Seq(Seq(Nat)) /\ executor.nonce \in Nat
    BY Fields DEF IInv
  <2>2. executor.drain # << >> /\ executor.phase = "drain" /\ Idle
    BY DEF DrainBundle
  <2>3. Head(executor.drain) \in Seq(Nat) /\ Tail(executor.drain) \in Seq(Seq(Nat))
    BY <2>1, <2>2, ToSetFacts
  <2> QED BY <2>1, <2>2, <2>3 DEF IInv, SubmissionInv
<1>2. /\ executor' \in Executors /\ executor'.drain = Tail(executor.drain)
      /\ executor'.nonce = executor.nonce /\ executor'.phase = "drain"
  BY <1>1 DEF IInv, TypeOK, DrainBundle, Executors
<1>3. /\ submission' \in Submissions /\ submission'.phase = "send"
      /\ submission'.tx.nonce = executor.nonce /\ submission'.tx.bundle = Head(executor.drain)
  BY <1>1 DEF DrainBundle, SubmitBundle, Submissions, Tx
<1>4. TypeOK'
  BY <1>2, <1>3 DEF IInv, TypeOK, DrainBundle
<1>5. ChainInv' /\ CursorInv' /\ Posted \cup factory'.lost \subseteq Posted' \cup factory'.lost
  BY <1>1, <1>2, <1>3, <1>4, SubmitStep DEF DrainBundle, Active
<1>6. SubmissionInv'
  BY <1>2, <1>3 DEF SubmissionInv, Idle
<1>7. StagesInOrder(Posted, << >>, executor.drain, factory, channel, collector.todo)
  BY <1>1 DEF IInv, PipelineInv
<1>8. /\ StagesInOrder(Posted, Head(executor.drain), Tail(executor.drain), factory, channel, collector.todo)
      /\ Collected(Posted, << >>, executor.drain, factory, channel, collector.todo)
           = Collected(Posted, Head(executor.drain), Tail(executor.drain), factory, channel, collector.todo)
  BY <1>1, <1>7, StagesDrained
<1>9. PipelineInv'
  BY <1>1, <1>2, <1>3, <1>4, <1>5, <1>8, PipelineStep DEF DrainBundle
<1> QED BY <1>4, <1>5, <1>6, <1>9, Assembled

-----------------------------------------------------------------------------
(* The submission and the Sequencer *)

(* What is broadcast with the next nonce is in order behind what was       *)
(* posted.                                                                 *)
LEMMA BroadcastTxIInv == IInv /\ BroadcastTx => IInv'
<1> SUFFICES ASSUME IInv, BroadcastTx PROVE IInv'
  OBVIOUS
<1>1. /\ submission.tx \in Tx /\ executor.phase # "closed" /\ submission.phase = "send"
      /\ submission' = [submission EXCEPT !.phase = "sent"]
      /\ sequencer' = [sequencer EXCEPT !.wire = @ \cup {submission.tx}]
  BY Fields DEF IInv, BroadcastTx, Active
<1>2. submission' \in Submissions /\ submission'.tx = submission.tx /\ submission'.phase = "sent"
  BY <1>1 DEF IInv, TypeOK, Submissions
<1>3. /\ sequencer'.executed = sequencer.executed /\ sequencer'.mempool = sequencer.mempool
      /\ sequencer'.wire = sequencer.wire \cup {submission.tx}
      /\ sequencer' \in [executed : Seq(Seq(Nat)), mempool : SUBSET Tx, wire : SUBSET Tx]
  BY <1>1 DEF IInv, TypeOK
<1>4. TypeOK'
  BY <1>2, <1>3 DEF IInv, TypeOK, BroadcastTx
<1>5. InOrder(submission.tx.bundle, factory.lost \cup PostedBefore(submission.tx.nonce))
  <2>1. InOrder(submission.tx.bundle, Posted \cup factory.lost)
    BY <1>1 DEF IInv, PipelineInv, StagesInOrder
  <2>2. Reach \in Nat /\ Reach <= submission.tx.nonce /\ submission.tx.nonce \in Nat
    <3>1. Cursor = submission.tx.nonce /\ ~Refetches
      BY <1>1 DEF Cursor, Refetches
    <3>2. Cursor \in Nat /\ Reach \in Nat /\ PendingNonce \in Nat
      BY CursorTypes DEF IInv
    <3> QED BY <3>1, <3>2 DEF Reach
  <2>3. \A x \in sequencer.mempool : x.nonce \in Nat
    BY DEF IInv, TypeOK, Tx
  <2>4. Posted \subseteq PostedBefore(submission.tx.nonce)
    BY <2>2, <2>3, PostedMonotonic DEF Posted, PostedBefore
  <2>5. Posted \cup factory.lost \subseteq factory.lost \cup PostedBefore(submission.tx.nonce)
    BY <2>4
  <2> QED BY <2>1, <2>5, InOrderMonotonic
<1>6. /\ ChainInv' /\ CursorInv'
      /\ Posted \cup factory.lost \subseteq Posted' \cup factory'.lost
  <2>1. ChainInv' /\ PendingNonce' = PendingNonce /\ Grows
    BY <1>3, <1>5, ChainKept DEF BroadcastTx
  <2>2. Cursor' = Cursor /\ Cursor = submission.tx.nonce /\ ~Refetches /\ ~Refetches'
    BY <1>1, <1>2 DEF Cursor, Refetches
  <2>3. Active /\ Active' /\ faults' = faults /\ submission.tx \notin sequencer.mempool
    BY DEF BroadcastTx, Active, Known
  <2>4. Contested' => Contested
    BY <1>1, <1>2, <1>3, <2>2, <2>3 DEF Contested
  <2>5. PendingNonce <= PendingNonce'
    BY <2>1, CursorTypes DEF IInv
  <2> QED BY <1>3, <1>4, <2>1, <2>2, <2>3, <2>4, <2>5, CursorKept
<1>7. SubmissionInv'
  BY <1>1, <1>2 DEF IInv, SubmissionInv, Idle, BroadcastTx
<1>8. PipelineInv'
  BY <1>2, <1>4, <1>6, Fields, PipelineKept DEF BroadcastTx, IInv
<1> QED BY <1>4, <1>6, <1>7, <1>8, Assembled

(* The executor ends when its submission fails for good.                   *)
LEMMA GiveUpIInv == IInv /\ GiveUp => IInv'
BY ExecutorEnds DEF GiveUp, Fault

(* A submission gets the pending nonce, above which nothing was posted.    *)
LEMMA GetPendingNonceIInv == IInv /\ GetPendingNonce => IInv'
<1> SUFFICES ASSUME IInv, GetPendingNonce PROVE IInv'
  OBVIOUS
<1>1. ChainInv' /\ PendingNonce' = PendingNonce /\ Grows /\ PendingNonce \in Nat
  BY SequencerKept DEF GetPendingNonce
<1>2. /\ submission' \in Submissions /\ submission'.phase = "send" /\ submission.phase = "nonce"
      /\ submission'.tx.nonce = PendingNonce /\ submission'.tx.bundle = submission.tx.bundle
      /\ executor.phase # "closed"
  BY <1>1, Fields DEF IInv, GetPendingNonce, Submissions, Tx, Active
<1>3. TypeOK'
  BY <1>2 DEF IInv, TypeOK, GetPendingNonce
<1>4. SubmissionInv'
  BY <1>2 DEF IInv, SubmissionInv, Idle, GetPendingNonce
<1>5. Refetches /\ ~Refetches' /\ Cursor' = PendingNonce
  BY <1>2 DEF Refetches, Cursor
<1>6. Reach = PendingNonce /\ Reach' = PendingNonce
  BY <1>1, <1>5 DEF Reach
<1>7. Posted \cup factory.lost \subseteq Posted' \cup factory'.lost
  BY <1>1, <1>3, <1>6, PostedGrows DEF IInv
<1>8. PipelineInv'
  BY <1>2, <1>3, <1>7, Fields, PipelineKept DEF GetPendingNonce, IInv
<1>9. CursorInv'
  <2>1. "removal" \notin faults' => NoGap
    BY DEF IInv, CursorInv, GetPendingNonce
  <2>2. "removal" \notin faults' => NoGap'
    BY <1>1, <1>5, <2>1 DEF NoGap, GetPendingNonce
  <2>3. Active'
    BY DEF Active, GetPendingNonce
  <2> QED BY <1>1, <1>5, <2>2, <2>3 DEF CursorInv
<1> QED BY <1>1, <1>3, <1>4, <1>8, <1>9, Assembled

(* A submission whose answer is lost is sent again; the transaction may    *)
(* be on the wire.                                                         *)
LEMMA LoseAnswerIInv == IInv /\ LoseAnswer => IInv'
<1> SUFFICES ASSUME IInv, LoseAnswer PROVE IInv'
  OBVIOUS
<1>1. ChainInv' /\ PendingNonce' = PendingNonce /\ Grows /\ PendingNonce \in Nat
  BY SequencerKept DEF LoseAnswer
<1>2. /\ submission' \in Submissions /\ submission'.phase = "send" /\ submission.phase = "sent"
      /\ submission'.tx = submission.tx /\ executor.phase # "closed"
  BY DEF IInv, TypeOK, LoseAnswer, Submissions, Active
<1>3. TypeOK'
  BY <1>2 DEF IInv, TypeOK, LoseAnswer
<1>4. SubmissionInv'
  BY <1>2 DEF IInv, SubmissionInv, Idle, LoseAnswer
<1>5. CursorInv' /\ Posted \cup factory.lost \subseteq Posted' \cup factory'.lost
  <2>1. Cursor' = Cursor /\ ~Refetches /\ ~Refetches'
    BY <1>2 DEF Cursor, Refetches
  <2>2. Active /\ Active' /\ faults \subseteq faults' /\ sequencer' = sequencer
    BY DEF LoseAnswer, Active, Fault
  <2>3. Contested' => Contested
    BY <1>2, <2>1, <2>2 DEF Contested
  <2>4. PendingNonce <= PendingNonce'
    BY <1>1
  <2> QED BY <1>1, <1>3, <2>1, <2>2, <2>3, <2>4, CursorKept
<1>6. PipelineInv'
  BY <1>2, <1>3, <1>5, Fields, PipelineKept DEF LoseAnswer, IInv
<1> QED BY <1>1, <1>3, <1>4, <1>5, <1>6, Assembled

(* The Sequencer executes the transaction with the account's nonce.        *)
LEMMA ExecuteTxIInv == IInv /\ ExecuteTx => IInv'
<1> SUFFICES ASSUME IInv, ExecuteTx PROVE IInv'
  OBVIOUS
<1>1. PICK tx \in sequencer.mempool :
        /\ tx.nonce = Nonce
        /\ sequencer' = [sequencer EXCEPT !.executed = Append(@, tx.bundle), !.mempool = @ \ {tx}]
        /\ UNCHANGED <<arrived, collector, channel, factory, executor, submission, faults>>
  BY DEF ExecuteTx
<1>2. /\ sequencer'.executed = Append(sequencer.executed, tx.bundle)
      /\ sequencer'.mempool = sequencer.mempool \ {tx} /\ sequencer'.wire = sequencer.wire
      /\ sequencer' \in [executed : Seq(Seq(Nat)), mempool : SUBSET Tx, wire : SUBSET Tx]
  <2>1. tx \in Tx /\ sequencer.executed \in Seq(Seq(Nat))
    BY DEF IInv, TypeOK
  <2>2. Append(sequencer.executed, tx.bundle) \in Seq(Seq(Nat))
    BY <2>1 DEF Tx
  <2> QED BY <1>1, <2>2 DEF IInv, TypeOK
<1>3. IsFiniteSet(sequencer'.mempool)
  BY <1>2, FS_RemoveElement DEF IInv, TypeOK
<1>4. TypeOK'
  BY <1>1, <1>2, <1>3 DEF IInv, TypeOK
<1>5. ChainInv' /\ CursorInv' /\ Posted \cup factory.lost \subseteq Posted' \cup factory'.lost
  <2>1. ChainInv' /\ PendingNonce' = PendingNonce /\ Grows
    BY <1>1, <1>2, <1>4, ChainExecutes
  <2>2. Cursor' = Cursor /\ Refetches' = Refetches /\ Active' = Active /\ Idle' = Idle
    BY <1>1 DEF Cursor, Refetches, Active, Idle
  <2>3. Contested' => Contested
    BY <1>1, <1>2, <2>2 DEF Contested
  <2>4. PendingNonce <= PendingNonce'
    BY <2>1, CursorTypes DEF IInv
  <2>5. ~Active' => Idle' /\ executor'.nonce = 0
    BY <1>1, <2>2 DEF IInv, CursorInv
  <2> QED BY <1>1, <1>2, <1>4, <2>1, <2>2, <2>3, <2>4, <2>5, CursorKept
<1>6. SubmissionInv'
  BY <1>1 DEF IInv, SubmissionInv, Idle
<1>7. PipelineInv'
  BY <1>1, <1>4, <1>5, Fields, PipelineKept DEF IInv
<1> QED BY <1>4, <1>5, <1>6, <1>7, Assembled

(* A foreign transaction takes the pending nonce and has no rollup         *)
(* transactions.                                                           *)
LEMMA ForeignTxIInv == IInv /\ ForeignTx => IInv'
<1> SUFFICES ASSUME IInv, ForeignTx PROVE IInv'
  OBVIOUS
<1> DEFINE tx == [nonce |-> PendingNonce, bundle |-> << >>]
<1>1. /\ sequencer' = [sequencer EXCEPT !.mempool = @ \cup {tx}]
      /\ UNCHANGED <<arrived, collector, channel, factory, executor, submission>>
  BY DEF ForeignTx
<1>2. PendingNonce \in Nat /\ Nonce <= PendingNonce /\ ~NonceInMempool(PendingNonce)
  BY PendingFacts DEF IInv, IsPending, Nonce, NonceInMempool
<1>3. tx \in Tx /\ tx.nonce = PendingNonce /\ tx.bundle = << >>
  BY <1>2, EmptyTypes DEF Tx
<1> HIDE DEF tx
<1>4. /\ sequencer'.executed = sequencer.executed
      /\ sequencer'.mempool = sequencer.mempool \cup {tx} /\ sequencer'.wire = sequencer.wire
      /\ sequencer' \in [executed : Seq(Seq(Nat)), mempool : SUBSET Tx, wire : SUBSET Tx]
  BY <1>1, <1>3 DEF IInv, TypeOK
<1>5. IsFiniteSet(sequencer'.mempool)
  <2>1. IsFiniteSet(sequencer.mempool)
    BY DEF IInv, TypeOK
  <2>2. IsFiniteSet(sequencer.mempool \cup {tx})
    BY <2>1, FS_AddElement
  <2> QED BY <1>4, <2>2
<1>6. TypeOK'
  BY <1>1, <1>4, <1>5 DEF IInv, TypeOK
<1>7. InOrder(tx.bundle, factory.lost \cup PostedBefore(tx.nonce))
  BY <1>3, InOrderEmpty
<1>8. ChainInv' /\ CursorInv' /\ Posted \cup factory.lost \subseteq Posted' \cup factory'.lost
  <2>1. ChainInv' /\ PendingNonce + 1 <= PendingNonce' /\ Grows
    BY <1>1, <1>2, <1>3, <1>4, <1>6, <1>7, ChainAccepts
  <2>2. Cursor' = Cursor /\ Refetches' = Refetches /\ Active' = Active /\ Idle' = Idle
    BY <1>1 DEF Cursor, Refetches, Active, Idle
  <2>3. PendingNonce <= PendingNonce' /\ (PendingNonce' < Cursor => PendingNonce # Cursor)
    BY <1>2, <1>6, <2>1, CursorTypes DEF IInv
  <2>4. Contested' /\ PendingNonce' < Cursor => Contested
    BY <1>1, <1>3, <1>4, <2>2, <2>3 DEF Contested
  <2>5. ~Active' => Idle' /\ executor'.nonce = 0
    BY <1>1, <2>2 DEF IInv, CursorInv
  <2>6. faults \subseteq faults'
    BY DEF ForeignTx, Fault
  <2>7. \A x \in sequencer'.mempool : x \in sequencer.mempool \/ x.nonce = PendingNonce
    BY <1>3, <1>4
  <2> QED BY <1>4, <1>6, <2>1, <2>2, <2>3, <2>4, <2>5, <2>6, <2>7, CursorKept
<1>9. SubmissionInv'
  BY <1>1 DEF IInv, SubmissionInv, Idle
<1>10. PipelineInv'
  BY <1>1, <1>6, <1>8, Fields, PipelineKept DEF IInv
<1> QED BY <1>6, <1>8, <1>9, <1>10, Assembled

(* The mempool removes transactions: what was posted with them is lost,    *)
(* and the others are below the new pending nonce.                         *)
LEMMA RemoveTxIInv == IInv /\ RemoveTx => IInv'
<1> SUFFICES ASSUME IInv, RemoveTx PROVE IInv'
  OBVIOUS
<1> DEFINE M == sequencer.mempool
           N == sequencer'.mempool
           p == PendingNonce
           q == PendingNonce'
           e == Cursor
<1>1. PICK gone \in {{u \in sequencer.mempool : u.nonce >= tx.nonce} : tx \in sequencer.mempool}
                   \cup {Parked, sequencer.mempool \ Parked} :
        /\ gone # {}
        /\ sequencer' = [sequencer EXCEPT !.mempool = @ \ gone]
        /\ Lose(Txs({tx.bundle : tx \in gone}))
  BY DEF RemoveTx
<1>2. gone \subseteq M
  BY <1>1 DEF Parked
<1>3. /\ sequencer'.executed = sequencer.executed /\ sequencer'.wire = sequencer.wire
      /\ N = M \ gone
      /\ sequencer' \in [executed : Seq(Seq(Nat)), mempool : SUBSET Tx, wire : SUBSET Tx]
  BY <1>1 DEF IInv, TypeOK
<1>4. /\ factory' \in Factories /\ factory'.lost = factory.lost \cup Txs({tx.bundle : tx \in gone})
      /\ factory'.current = factory.current /\ factory'.finished = factory.finished
  <2> DEFINE B == {tx.bundle : tx \in gone}
  <2>1. \A b \in B : b \in Seq(Nat)
    BY <1>2 DEF IInv, TypeOK, Tx
  <2>2. factory' = [factory EXCEPT !.lost = @ \cup Txs(B)]
    BY <1>1 DEF Lose
  <2> HIDE DEF B
  <2>3. \A b \in B : ToSet(b) \subseteq Nat
    BY <2>1 DEF ToSet
  <2>4. Txs(B) \subseteq Nat
    BY <2>3 DEF Txs
  <2>5. factory \in Factories
    BY DEF IInv, TypeOK
  <2>6. /\ factory' \in Factories /\ factory'.lost = factory.lost \cup Txs(B)
        /\ factory'.current = factory.current /\ factory'.finished = factory.finished
    BY <2>2, <2>4, <2>5 DEF Factories
  <2> QED BY <2>6 DEF B
<1>5. /\ UNCHANGED <<arrived, collector, channel, executor, submission>>
      /\ "removal" \notin faults /\ "removal" \in faults'
  BY DEF RemoveTx, Fault
<1>6. TypeOK'
  <2>1. IsFiniteSet(M)
    BY DEF IInv, TypeOK
  <2>2. IsFiniteSet(N)
    BY <1>3, <2>1, FS_Subset
  <2> QED BY <1>3, <1>4, <1>5, <2>2 DEF IInv, TypeOK
<1>7. ChainInv' /\ Grows
  BY <1>2, <1>3, <1>4, <1>6, ChainRemoves
<1>8. /\ p \in Nat /\ q \in Nat /\ e \in Nat /\ Cursor' = e
      /\ Active' = Active /\ Refetches' = Refetches /\ Idle' = Idle
  BY <1>5, <1>6, CursorTypes DEF IInv, Cursor, Active, Refetches, Idle
<1>9. /\ \A x \in M : x.nonce < p /\ x.nonce \in Nat
      /\ Active /\ ~Refetches => e <= p /\ \A x \in sequencer.wire : x.nonce <= e
      /\ ~Active => e = 0 /\ ~Refetches
  BY <1>5 DEF IInv, CursorInv, NoGap, TypeOK, Tx, Cursor, Refetches, Idle
<1>10. ASSUME NEW x \in N PROVE x.nonce < q
  <2>1. IsPending(sequencer, p)
    BY PendingFacts DEF IInv
  <2>2. /\ Len(sequencer.executed) \in Nat
        /\ \A n \in Len(sequencer.executed)..(p - 1) : \E y \in M : y.nonce = n
    BY <2>1 DEF IsPending
  <2>3. \A y \in M : Len(sequencer.executed) <= y.nonce
    BY DEF IInv, NonceInv, Nonce
  <2>4. Parked = {}
    <3> SUFFICES ASSUME NEW y \in M, y.nonce > p PROVE FALSE
      BY DEF Parked
    <3> HIDE DEF p
    <3> QED BY <1>8, <1>9
  <2>5. PICK tx \in M : gone = {u \in M : u.nonce >= tx.nonce}
    <3>1. CASE gone \in {Parked, M \ Parked}
      <4>1. gone = M
        BY <1>1, <2>4, <3>1
      <4> QED BY <1>3, <1>10, <4>1
    <3> QED BY <1>1, <3>1
  <2> DEFINE a == Len(sequencer.executed)
  <2>6. IsPending(sequencer', tx.nonce)
    <3>1. \A y \in N : y \in M /\ y.nonce < tx.nonce
      BY <1>3, <1>9, <2>5
    <3>2. \A y \in M : y.nonce < tx.nonce => y \in N
      BY <1>3, <1>9, <2>5
    <3>3. tx.nonce \in Nat /\ a <= tx.nonce /\ tx.nonce < p /\ a \in Nat
      BY <1>9, <2>2, <2>3
    <3> HIDE DEF a, M, N, p
    <3>4. ~ \E y \in N : y.nonce = tx.nonce
      BY <3>1, <3>3
    <3>5. ASSUME NEW n \in a..(tx.nonce - 1) PROVE \E y \in N : y.nonce = n
      <4>1. n \in a..(p - 1) /\ n < tx.nonce
        BY <1>8, <3>3
      <4>2. PICK y \in M : y.nonce = n
        BY <2>2, <4>1 DEF a
      <4> QED BY <3>2, <4>1, <4>2
    <3>6. Len(sequencer'.executed) = a
      BY <1>3 DEF a
    <3> QED BY <3>3, <3>4, <3>5, <3>6 DEF IsPending, N
  <2>7. q = tx.nonce
    BY <1>6, <2>6, PendingIs
  <2> QED BY <1>3, <1>9, <2>5, <2>7
<1>11. CursorInv'
  <2>1. ~Active' => Idle' /\ executor'.nonce = 0
    BY <1>5, <1>8 DEF IInv, CursorInv
  <2>2. ASSUME ~Refetches, q < e, NEW x \in N \cup sequencer.wire PROVE x.nonce <= e
    <3>1. Active
      <4> HIDE DEF q, e
      <4> QED BY <1>8, <1>9, <2>2
    <3>2. CASE x \in N
      <4>1. x.nonce < q /\ x.nonce \in Nat
        BY <1>3, <1>9, <1>10, <3>2
      <4> HIDE DEF q, e
      <4> QED BY <1>8, <2>2, <4>1
    <3>3. CASE x \in sequencer.wire
      BY <1>9, <2>2, <3>1, <3>3
    <3> QED BY <3>2, <3>3
  <2>3. (~Refetches /\ PendingNonce < Cursor =>
            \A tx \in sequencer.mempool \cup sequencer.wire : tx.nonce <= Cursor)'
    BY <1>3, <1>8, <2>2
  <2> QED BY <1>5, <2>1, <2>3 DEF CursorInv
<1>12. Posted \cup factory.lost \subseteq Posted' \cup factory'.lost
  <2> DEFINE m == Reach
             n == Reach'
             t == sequencer'
  <2>1. m \in Nat /\ n \in Nat
    BY <1>6, CursorTypes DEF IInv
  <2>2. Posted = PostedIn(sequencer, m) /\ Posted' = PostedIn(t, n)
    BY DEF Posted, PostedBefore
  <2>3. PostedIn(sequencer, m) \cup factory.lost \subseteq PostedIn(t, m) \cup factory'.lost
    BY <1>7, <2>1 DEF Grows
  <2>4. CASE n = q
    <3>1. \A x \in N : x.nonce < q /\ x.nonce \in Nat
      BY <1>3, <1>9, <1>10
    <3>2. {x \in N : x.nonce < m} \subseteq {x \in N : x.nonce < q}
      BY <3>1
    <3> DEFINE B == {x.bundle : x \in {y \in N : y.nonce < m}}
               C == {x.bundle : x \in {y \in N : y.nonce < q}}
    <3>3. B \subseteq C
      BY <3>2
    <3>4. PostedIn(t, m) = Txs(ToSet(t.executed)) \cup Txs(B)
      BY DEF PostedIn
    <3>5. PostedIn(t, q) = Txs(ToSet(t.executed)) \cup Txs(C)
      BY DEF PostedIn
    <3> HIDE DEF B, C
    <3>6. Txs(B) \subseteq Txs(C)
      BY <3>3 DEF Txs
    <3> HIDE DEF m, n, t, q
    <3> QED BY <2>2, <2>3, <2>4, <3>4, <3>5, <3>6
  <2>5. CASE n # q
    <3>1. ~Refetches /\ n = e
      BY <1>8, <2>5 DEF Reach
    <3>2. e <= p
      <4> HIDE DEF e, p
      <4> QED BY <1>8, <1>9, <3>1
    <3>3. ~(p < e)
      <4> HIDE DEF e, p
      <4> QED BY <1>8, <3>2
    <3>4. m = e
      BY <3>1, <3>3 DEF Reach
    <3> HIDE DEF m, n, t, e
    <3> QED BY <2>2, <2>3, <3>1, <3>4
  <2> QED BY <2>4, <2>5
<1>13. SubmissionInv'
  BY <1>5 DEF IInv, SubmissionInv, Idle
<1>14. PipelineInv'
  <2>1. arrived <= arrived' /\ submission' = submission /\ executor' = executor
    BY <1>5, Fields DEF IInv
  <2> QED BY <1>4, <1>5, <1>6, <1>12, <2>1, PipelineKept
<1> QED BY <1>6, <1>7, <1>11, <1>13, <1>14, Assembled

(* The bundle in submission is posted, or lost.                            *)
LEMMA PipelineAnswered ==
    ASSUME IInv, executor.phase # "closed",
           submission'.tx.bundle = << >>, executor'.drain = executor.drain,
           factory'.current = factory.current, factory'.finished = factory.finished,
           channel' = channel, collector' = collector, arrived' = arrived,
           Posted \cup factory.lost \cup ToSet(submission.tx.bundle)
             \subseteq Posted' \cup factory'.lost
    PROVE  PipelineInv'
<1> DEFINE C == Collected(Posted, submission.tx.bundle, executor.drain, factory, channel,
                          collector.todo)
<1>1. /\ StagesInOrder(Posted, submission.tx.bundle, executor.drain, factory, channel,
                       collector.todo)
      /\ CollectorInv(C)
  BY DEF IInv, PipelineInv
<1>2. /\ StagesInOrder(Posted', << >>, executor.drain, factory', channel, collector.todo)
      /\ C \subseteq Collected(Posted', << >>, executor.drain, factory', channel, collector.todo)
  BY <1>1, StagesAnswered
<1>3. C \subseteq C'
  BY <1>2
<1>4. PipelineInv' = (executor'.phase # "closed" =>
          /\ StagesInOrder(Posted', << >>, executor.drain, factory', channel, collector.todo)
          /\ CollectorInv(C)')
  BY DEF PipelineInv
<1> HIDE DEF C
<1>5. CollectorInv(C)'
  BY <1>1, <1>3 DEF CollectorInv
<1> QED BY <1>2, <1>4, <1>5

(* What an answer does to the composer, if it waits for one.               *)
LEMMA AnswerFacts ==
    ASSUME IInv, NEW tx, NEW code \in {"ok", "nonce", "rejected"}, Answer(tx, code)
    PROVE  /\ submission' \in Submissions /\ executor' \in Executors /\ factory' \in Factories
           /\ factory'.current = factory.current /\ factory'.finished = factory.finished
           /\ executor'.phase = executor.phase /\ executor'.drain = executor.drain
           /\ \/ ~Awaits(tx) /\ submission' = submission /\ executor' = executor /\ factory' = factory
              \/ /\ Awaits(tx) /\ code = "nonce" /\ executor' = executor /\ factory' = factory
                 /\ submission'.phase = "nonce" /\ submission'.tx = submission.tx
              \/ /\ Awaits(tx) /\ code = "ok" /\ submission' = NoSubmission /\ factory' = factory
                 /\ executor'.nonce = tx.nonce + 1
              \/ /\ Awaits(tx) /\ code = "rejected" /\ submission' = NoSubmission
                 /\ factory'.lost = factory.lost \cup ToSet(tx.bundle)
                 /\ executor'.nonce = tx.nonce
<1>0. /\ submission \in Submissions /\ executor \in Executors /\ factory \in Factories
      /\ submission.tx.nonce \in Nat /\ submission.tx.bundle \in Seq(Nat)
  BY Fields DEF IInv, TypeOK
<1>1. CASE ~Awaits(tx)
  <2>1. submission' = submission /\ executor' = executor /\ factory' = factory
    BY <1>1 DEF Answer
  <2> QED BY <1>0, <1>1, <2>1
<1>2. CASE Awaits(tx)
  <2>1. submission.tx = tx
    BY <1>2 DEF Awaits
  <2>2. Answered(code)
    BY <1>2 DEF Answer
  <2>3. CASE code = "nonce"
    <3>1. submission' = [submission EXCEPT !.phase = "nonce"] /\ executor' = executor /\ factory' = factory
      BY <2>2, <2>3 DEF Answered
    <3>2. submission' \in Submissions /\ submission'.tx = submission.tx /\ submission'.phase = "nonce"
      BY <1>0, <3>1 DEF Submissions
    <3> QED BY <1>0, <1>2, <2>3, <3>1, <3>2
  <2>4. CASE code = "ok"
    <3>1. /\ submission' = NoSubmission /\ factory' = factory
          /\ executor' = [executor EXCEPT !.nonce = submission.tx.nonce + 1]
      BY <2>2, <2>4 DEF Answered
    <3>2. submission.tx.nonce + 1 \in Nat
      BY <1>0
    <3>3. /\ executor' \in Executors /\ executor'.nonce = submission.tx.nonce + 1
          /\ executor'.phase = executor.phase /\ executor'.drain = executor.drain
      BY <1>0, <3>1, <3>2 DEF Executors
    <3> QED BY <1>0, <1>2, <2>1, <2>4, <3>1, <3>3, EmptyTypes
  <2>5. CASE code = "rejected"
    <3>1. /\ submission' = NoSubmission
          /\ executor' = [executor EXCEPT !.nonce = submission.tx.nonce + 0]
          /\ factory' = [factory EXCEPT !.lost = @ \cup ToSet(submission.tx.bundle)]
      BY <2>2, <2>5 DEF Answered, Lose
    <3>2. submission.tx.nonce + 0 = submission.tx.nonce /\ ToSet(submission.tx.bundle) \subseteq Nat
      BY <1>0 DEF ToSet
    <3>3. /\ executor' \in Executors /\ executor'.nonce = submission.tx.nonce
          /\ executor'.phase = executor.phase /\ executor'.drain = executor.drain
      BY <1>0, <3>1, <3>2 DEF Executors
    <3>4. /\ factory' \in Factories /\ factory'.lost = factory.lost \cup ToSet(submission.tx.bundle)
          /\ factory'.current = factory.current /\ factory'.finished = factory.finished
      BY <1>0, <3>1, <3>2 DEF Factories
    <3> QED BY <1>0, <1>2, <2>1, <2>5, <3>1, <3>3, <3>4, EmptyTypes
  <2> QED BY <2>3, <2>4, <2>5
<1> QED BY <1>1, <1>2

(* A composer that has sent a transaction and not given it up waits for    *)
(* its answer, and its cursor is at the transaction's nonce.               *)
LEMMA AwaitsFacts ==
    ASSUME IInv, NEW tx
    PROVE  /\ Awaits(tx) => /\ Active /\ executor.phase # "closed" /\ submission.phase = "sent"
                            /\ submission.tx = tx /\ Cursor = tx.nonce /\ ~Refetches
           /\ submission.phase = "sent" /\ submission.tx = tx => Awaits(tx)
<1>1. ASSUME Awaits(tx)
      PROVE  /\ Active /\ executor.phase # "closed" /\ submission.phase = "sent"
             /\ submission.tx = tx /\ Cursor = tx.nonce /\ ~Refetches
  <2>1. Active /\ submission.phase = "sent" /\ submission.tx = tx
    BY <1>1 DEF Awaits
  <2> QED BY <2>1 DEF Active, Cursor, Refetches
<1>2. ASSUME submission.phase = "sent", submission.tx = tx PROVE Awaits(tx)
  <2>1. Active
    BY <1>2 DEF IInv, CursorInv, Idle
  <2>2. submission = [phase |-> "sent", tx |-> tx]
    BY <1>2 DEF IInv, TypeOK, Submissions
  <2> QED BY <2>1, <2>2 DEF Awaits
<1> QED BY <1>1, <1>2

(* The nonce of a transaction that CheckTx accepts: if it is not above the *)
(* pending nonce, it is the pending nonce.                                 *)
LEMMA UnusedNonce ==
    ASSUME IInv, NEW tx \in sequencer.wire, ~(tx.nonce < Nonce \/ NonceInMempool(tx.nonce))
    PROVE  /\ tx \in Tx /\ tx.nonce \in Nat /\ Nonce <= tx.nonce /\ PendingNonce <= tx.nonce
           /\ InOrder(tx.bundle, factory.lost \cup PostedBefore(tx.nonce))
<1>1. tx \in Tx /\ tx.nonce \in Nat /\ Nonce \in Nat
  BY DEF IInv, TypeOK, Tx, Nonce
<1>2. PendingNonce \in Nat /\ \A n \in Nonce..(PendingNonce - 1) : NonceInMempool(n)
  BY PendingFacts DEF IInv, IsPending, Nonce, NonceInMempool
<1>3. Nonce <= tx.nonce /\ PendingNonce <= tx.nonce
  BY <1>1, <1>2
<1> QED BY <1>1, <1>3 DEF IInv, SequencerInv

(* CheckTx of a transaction that the composer no longer waits for: it      *)
(* enters the mempool or not.                                              *)
LEMMA CheckedLate ==
    ASSUME IInv, TypeOK', NEW tx \in sequencer.wire, ~Awaits(tx),
           UNCHANGED <<arrived, collector, channel, submission, executor, factory>>,
           faults \subseteq faults', ChainInv', Grows, PendingNonce <= PendingNonce',
           sequencer'.wire = sequencer.wire \ {tx},
           sequencer'.mempool \subseteq sequencer.mempool \cup {tx}
    PROVE  IInv'
<1>1. Cursor' = Cursor /\ Refetches' = Refetches /\ Active' = Active /\ Idle' = Idle
  BY DEF Cursor, Refetches, Active, Idle
<1>2. ~Refetches /\ Contested' => Contested
  <2> SUFFICES ASSUME ~Refetches, Contested' PROVE Contested
    OBVIOUS
  <2>1. submission.phase \in {"none", "send", "sent", "nonce"} /\ submission.phase # "nonce"
    BY DEF IInv, TypeOK, Submissions, Refetches
  <2>2. ~(submission.phase = "sent" /\ submission.tx = tx)
    BY AwaitsFacts
  <2> QED BY <1>1, <2>1, <2>2 DEF Contested
<1>3. ~Active' => Idle' /\ executor'.nonce = 0
  BY <1>1 DEF IInv, CursorInv
<1>4. CursorInv' /\ Posted \cup factory.lost \subseteq Posted' \cup factory'.lost
  BY <1>1, <1>2, <1>3, CursorKept
<1>5. SubmissionInv'
  BY DEF IInv, SubmissionInv, Idle
<1>6. PipelineInv'
  BY <1>4, Fields, PipelineKept DEF IInv
<1> QED BY <1>4, <1>5, <1>6, Assembled

(* The bundle is accepted: nobody else has the next nonce, unless it is    *)
(* below the pending one.                                                  *)
LEMMA CheckedOk ==
    ASSUME IInv, TypeOK', NEW tx \in sequencer.wire, Awaits(tx),
           ~(tx.nonce < Nonce \/ NonceInMempool(tx.nonce)),
           UNCHANGED <<arrived, collector, channel, factory, faults>>,
           submission' = NoSubmission, executor'.nonce = tx.nonce + 1,
           executor'.phase = executor.phase, executor'.drain = executor.drain,
           ChainInv', Grows, PendingNonce <= PendingNonce',
           tx.nonce = PendingNonce => PendingNonce + 1 <= PendingNonce',
           ToSet(tx.bundle) \subseteq PostedIn(sequencer', tx.nonce + 1),
           sequencer'.wire = sequencer.wire \ {tx},
           sequencer'.mempool = sequencer.mempool \cup {tx}
    PROVE  IInv'
<1> DEFINE e == tx.nonce
           p == PendingNonce
           q == PendingNonce'
           N == sequencer'.mempool
           V == sequencer'.wire
<1>1. /\ Active /\ executor.phase # "closed" /\ submission.tx = tx /\ Cursor = e /\ ~Refetches
  BY AwaitsFacts
<1>2. /\ submission'.phase = "none" /\ submission'.tx.bundle = << >>
      /\ Cursor' = e + 1 /\ ~Refetches' /\ Active'
  BY <1>1 DEF NoSubmission, Cursor, Refetches, Active
<1>3. e \in Nat /\ p \in Nat /\ q \in Nat /\ p <= e /\ p <= q /\ (e = p => p + 1 <= q)
  BY UnusedNonce, CursorTypes DEF IInv
<1>4. \A x \in N \cup V : x.nonce \in Nat
  BY DEF TypeOK, Tx
<1>5. \A x \in N : x.nonce # q
  BY PendingFacts DEF IsPending
<1>6. p < e => \A x \in N \cup V : x.nonce <= e
  <2>1. p < e => \A x \in sequencer.mempool \cup sequencer.wire : x.nonce <= e
    BY <1>1 DEF IInv, CursorInv
  <2>2. \A x \in N \cup V : x \in sequencer.mempool \cup sequencer.wire
    OBVIOUS
  <2> QED BY <2>1, <2>2
<1>7. ASSUME q < e + 1 PROVE p < e
  <2> HIDE DEF e, p, q
  <2> QED BY <1>3, <1>7
<1>8. ASSUME "removal" \notin faults
      PROVE  e = p /\ (\A x \in N : x.nonce <= p) /\ (\A x \in V : x.nonce <= p)
  <2>1. e <= p /\ (\A x \in sequencer.mempool : x.nonce < p) /\ \A x \in sequencer.wire : x.nonce <= p
    BY <1>1, <1>8 DEF IInv, CursorInv, NoGap
  <2>2. e = p
    <3> HIDE DEF e, p
    <3> QED BY <1>3, <2>1
  <2>3. ASSUME NEW x \in N PROVE x.nonce <= p
    <3>1. CASE x \in sequencer.mempool
      <4>1. x.nonce < p /\ x.nonce \in Nat
        BY <1>4, <2>1, <3>1
      <4> HIDE DEF p
      <4> QED BY <1>3, <4>1
    <3>2. CASE x = tx
      BY <1>3, <2>2, <3>2
    <3> QED BY <3>1, <3>2
  <2> QED BY <2>1, <2>2, <2>3
<1>9. CursorInv'
  <2>1. ASSUME q < e + 1, NEW x \in N \cup V PROVE x.nonce <= e + 1
    <3>1. x.nonce <= e /\ x.nonce \in Nat
      BY <1>4, <1>6, <1>7, <2>1
    <3> HIDE DEF e
    <3> QED BY <1>3, <3>1
  <2>2. ASSUME "removal" \notin faults
        PROVE  /\ \A x \in N : x.nonce < q
               /\ \A x \in V : x.nonce <= q /\ x.nonce <= e + 1
               /\ e + 1 <= q
    <3>1. e = p /\ (\A x \in N : x.nonce <= p) /\ (\A x \in V : x.nonce <= p)
      BY <1>8, <2>2
    <3> HIDE DEF e, p, q, N, V
    <3> QED BY <1>3, <1>4, <3>1
  <2>3. "removal" \notin faults' => NoGap'
    BY <1>2, <2>2 DEF NoGap
  <2>4. (~Refetches /\ PendingNonce < Cursor =>
            \A x \in sequencer.mempool \cup sequencer.wire : x.nonce <= Cursor)'
    BY <1>2, <2>1
  <2> QED BY <1>2, <2>3, <2>4 DEF CursorInv
<1>10. Reach <= Reach' /\ Reach' = e + 1
  <2>1. ASSUME q < e + 1 PROVE ~Contested'
    <3>1. \A x \in N \cup V : x.nonce # e + 1
      <4>1. \A x \in N \cup V : x.nonce <= e
        BY <1>6, <1>7, <2>1
      <4> HIDE DEF e, N, V
      <4> QED BY <1>3, <1>4, <4>1
    <3> QED BY <1>2, <3>1 DEF Contested
  <2>2. Reach' = e + 1
    BY <1>2, <2>1 DEF Reach
  <2>3. Reach = (IF p < e /\ Contested THEN p ELSE e)
    BY <1>1 DEF Reach
  <2> HIDE DEF e, p
  <2> QED BY <1>3, <2>2, <2>3
<1>11. Posted \cup factory.lost \cup ToSet(submission.tx.bundle) \subseteq Posted' \cup factory'.lost
  <2>1. Posted \cup factory.lost \subseteq Posted' \cup factory'.lost
    BY <1>10, PostedGrows DEF IInv
  <2>2. Posted' = PostedIn(sequencer', e + 1)
    BY <1>10 DEF Posted, PostedBefore
  <2> QED BY <1>1, <2>1, <2>2
<1>12. SubmissionInv'
  BY <1>1, <1>2 DEF IInv, SubmissionInv, Idle
<1>13. PipelineInv'
  BY <1>1, <1>2, <1>11, PipelineAnswered
<1> QED BY <1>9, <1>12, <1>13, Assembled

(* The nonce is used: what the composer has posted is below the pending    *)
(* nonce, or another transaction has its place ahead of a gap.             *)
LEMMA CheckedNonce ==
    ASSUME IInv, TypeOK', NEW tx \in sequencer.wire, Awaits(tx),
           tx.nonce < Nonce \/ NonceInMempool(tx.nonce),
           UNCHANGED <<arrived, collector, channel, executor, factory, faults>>,
           submission'.phase = "nonce", submission'.tx = submission.tx,
           ChainInv', Grows, PendingNonce' = PendingNonce,
           sequencer'.wire = sequencer.wire \ {tx}, sequencer'.mempool = sequencer.mempool
    PROVE  IInv'
<1> DEFINE e == tx.nonce
           p == PendingNonce
<1>1. /\ Active /\ executor.phase # "closed" /\ submission.phase = "sent"
      /\ submission.tx = tx /\ Cursor = e /\ ~Refetches
  BY AwaitsFacts
<1>2. Refetches' /\ Active' /\ Reach' = p
  BY <1>1 DEF Refetches, Active, Reach
<1>3. e \in Nat /\ p \in Nat /\ Nonce \in Nat /\ Nonce <= p
  <2>1. e \in Nat
    BY DEF IInv, TypeOK, Tx
  <2>2. IsPending(sequencer, p)
    BY PendingFacts DEF IInv
  <2> QED BY <2>1, <2>2 DEF IsPending, Nonce
<1>4. ASSUME p < e PROVE Contested
  <2>1. NonceInMempool(e)
    <3> HIDE DEF e, p
    <3>1. ~(e < Nonce)
      BY <1>3, <1>4
    <3> QED BY <3>1 DEF e
  <2> QED BY <1>1, <2>1 DEF Contested, NonceInMempool
<1>5. Reach <= Reach'
  <2>1. Reach = (IF p < e /\ Contested THEN p ELSE e)
    BY <1>1 DEF Reach
  <2> HIDE DEF e, p
  <2> QED BY <1>2, <1>3, <1>4, <2>1
<1>6. Posted \cup factory.lost \subseteq Posted' \cup factory'.lost
  BY <1>5, PostedGrows DEF IInv
<1>7. CursorInv'
  <2>1. "removal" \notin faults => NoGap
    BY DEF IInv, CursorInv
  <2>2. "removal" \notin faults' => NoGap'
    BY <1>2, <2>1 DEF NoGap
  <2> QED BY <1>2, <2>2 DEF CursorInv
<1>8. SubmissionInv'
  BY <1>1 DEF IInv, SubmissionInv, Idle
<1>9. PipelineInv'
  BY <1>6, Fields, PipelineKept DEF IInv
<1> QED BY <1>7, <1>8, <1>9, Assembled

(* The bundle is rejected and lost; the next one gets the same nonce.      *)
LEMMA CheckedRejected ==
    ASSUME IInv, TypeOK', NEW tx \in sequencer.wire, Awaits(tx),
           UNCHANGED <<arrived, collector, channel>>, faults \subseteq faults',
           submission' = NoSubmission, executor'.nonce = tx.nonce,
           executor'.phase = executor.phase, executor'.drain = executor.drain,
           factory'.current = factory.current, factory'.finished = factory.finished,
           factory'.lost = factory.lost \cup ToSet(tx.bundle),
           ChainInv', Grows, PendingNonce' = PendingNonce,
           sequencer'.wire = sequencer.wire \ {tx}, sequencer'.mempool = sequencer.mempool
    PROVE  IInv'
<1>1. /\ Active /\ executor.phase # "closed" /\ submission.phase = "sent"
      /\ submission.tx = tx /\ Cursor = tx.nonce /\ ~Refetches
  BY AwaitsFacts
<1>2. /\ submission'.phase = "none" /\ submission'.tx.bundle = << >>
      /\ Cursor' = Cursor /\ ~Refetches' /\ Active'
  BY <1>1 DEF NoSubmission, Cursor, Refetches, Active
<1>3. Contested' => Contested
  BY <1>1, <1>2 DEF Contested
<1>4. PendingNonce <= PendingNonce'
  BY CursorTypes DEF IInv
<1>5. CursorInv' /\ Posted \cup factory.lost \subseteq Posted' \cup factory'.lost
  BY <1>1, <1>2, <1>3, <1>4, CursorKept
<1>6. Posted \cup factory.lost \cup ToSet(submission.tx.bundle) \subseteq Posted' \cup factory'.lost
  BY <1>1, <1>5
<1>7. SubmissionInv'
  BY <1>1, <1>2 DEF IInv, SubmissionInv, Idle
<1>8. PipelineInv'
  BY <1>1, <1>2, <1>6, PipelineAnswered
<1> QED BY <1>5, <1>7, <1>8, Assembled

(* CheckTx accepts, refuses or rejects a transaction on the wire, whether  *)
(* or not the composer still waits for it.                                 *)
LEMMA CheckTxIInv == IInv /\ CheckTx => IInv'
<1> SUFFICES ASSUME IInv, CheckTx PROVE IInv'
  OBVIOUS
<1> DEFINE used(tx) == tx.nonce < Nonce \/ NonceInMempool(tx.nonce)
<1>1. PICK tx \in sequencer.wire :
        /\ \/ /\ ~used(tx)
              /\ sequencer' = [sequencer EXCEPT !.wire = @ \ {tx}, !.mempool = @ \cup {tx}]
              /\ Answer(tx, "ok") /\ UNCHANGED faults
           \/ /\ used(tx)
              /\ sequencer' = [sequencer EXCEPT !.wire = @ \ {tx}]
              /\ Answer(tx, "nonce") /\ UNCHANGED faults
           \/ /\ ~used(tx) /\ Fault("reject")
              /\ sequencer' = [sequencer EXCEPT !.wire = @ \ {tx}]
              /\ Answer(tx, "rejected")
        /\ UNCHANGED <<arrived, collector, channel>>
  BY DEF CheckTx
<1>2. UNCHANGED <<arrived, collector, channel>> /\ faults \subseteq faults'
  BY <1>1 DEF Fault
<1>3. CASE /\ ~used(tx)
           /\ sequencer' = [sequencer EXCEPT !.wire = @ \ {tx}, !.mempool = @ \cup {tx}]
           /\ Answer(tx, "ok") /\ UNCHANGED faults
  <2>1. /\ tx \in Tx /\ tx.nonce \in Nat /\ Nonce <= tx.nonce
        /\ InOrder(tx.bundle, factory.lost \cup PostedBefore(tx.nonce))
    BY <1>3, UnusedNonce
  <2>2. /\ sequencer'.executed = sequencer.executed
        /\ sequencer'.mempool = sequencer.mempool \cup {tx}
        /\ sequencer'.wire = sequencer.wire \ {tx}
        /\ sequencer' \in [executed : Seq(Seq(Nat)), mempool : SUBSET Tx, wire : SUBSET Tx]
    BY <1>3, <2>1 DEF IInv, TypeOK
  <2>3. IsFiniteSet(sequencer'.mempool)
    <3>1. IsFiniteSet(sequencer.mempool)
      BY DEF IInv, TypeOK
    <3>2. IsFiniteSet(sequencer.mempool \cup {tx})
      BY <3>1, FS_AddElement
    <3> QED BY <2>2, <3>2
  <2>4. /\ submission' \in Submissions /\ executor' \in Executors /\ factory' \in Factories
        /\ executor'.phase = executor.phase /\ executor'.drain = executor.drain
        /\ \/ ~Awaits(tx) /\ submission' = submission /\ executor' = executor /\ factory' = factory
           \/ /\ Awaits(tx) /\ submission' = NoSubmission /\ factory' = factory
              /\ executor'.nonce = tx.nonce + 1
    BY <1>3, AnswerFacts
  <2>5. TypeOK'
    BY <1>2, <2>2, <2>3, <2>4 DEF IInv, TypeOK
  <2>6. /\ ChainInv' /\ PendingNonce <= PendingNonce' /\ Grows
        /\ tx.nonce = PendingNonce => PendingNonce + 1 <= PendingNonce'
        /\ ToSet(tx.bundle) \subseteq PostedIn(sequencer', tx.nonce + 1)
    <3>1. ~NonceInMempool(tx.nonce) /\ factory' = factory /\ sequencer'.wire \subseteq sequencer.wire
      BY <1>3, <2>2, <2>4
    <3> QED BY <2>1, <2>2, <2>5, <3>1, ChainAccepts
  <2>7. CASE ~Awaits(tx) /\ submission' = submission /\ executor' = executor /\ factory' = factory
    <3>1. sequencer'.mempool \subseteq sequencer.mempool \cup {tx}
      BY <2>2
    <3> QED BY <1>2, <2>2, <2>5, <2>6, <2>7, <3>1, CheckedLate
  <2>8. CASE /\ Awaits(tx) /\ submission' = NoSubmission /\ factory' = factory
             /\ executor'.nonce = tx.nonce + 1
    BY <1>2, <1>3, <2>2, <2>4, <2>5, <2>6, <2>8, CheckedOk
  <2> QED BY <2>4, <2>7, <2>8
<1>4. ASSUME NEW code \in {"nonce", "rejected"}, Answer(tx, code),
             sequencer' = [sequencer EXCEPT !.wire = @ \ {tx}],
             code = "nonce" => used(tx) /\ faults' = faults
      PROVE  IInv'
  <2>1. /\ sequencer'.executed = sequencer.executed /\ sequencer'.mempool = sequencer.mempool
        /\ sequencer'.wire = sequencer.wire \ {tx}
        /\ sequencer' \in [executed : Seq(Seq(Nat)), mempool : SUBSET Tx, wire : SUBSET Tx]
    BY <1>4 DEF IInv, TypeOK
  <2>2. /\ submission' \in Submissions /\ executor' \in Executors /\ factory' \in Factories
        /\ factory'.current = factory.current /\ factory'.finished = factory.finished
        /\ executor'.phase = executor.phase /\ executor'.drain = executor.drain
        /\ \/ ~Awaits(tx) /\ submission' = submission /\ executor' = executor /\ factory' = factory
           \/ /\ Awaits(tx) /\ code = "nonce" /\ executor' = executor /\ factory' = factory
              /\ submission'.phase = "nonce" /\ submission'.tx = submission.tx
           \/ /\ Awaits(tx) /\ submission' = NoSubmission
              /\ factory'.lost = factory.lost \cup ToSet(tx.bundle)
              /\ executor'.nonce = tx.nonce
    BY <1>4, AnswerFacts
  <2>3. TypeOK' /\ factory.lost \subseteq factory'.lost
    BY <1>2, <2>1, <2>2 DEF IInv, TypeOK
  <2>4. ChainInv' /\ PendingNonce' = PendingNonce /\ Grows
    BY <2>1, <2>3, ChainKept
  <2>5. CASE ~Awaits(tx) /\ submission' = submission /\ executor' = executor /\ factory' = factory
    <3>1. sequencer'.mempool \subseteq sequencer.mempool \cup {tx} /\ PendingNonce <= PendingNonce'
      BY <2>1, <2>4, CursorTypes DEF IInv
    <3> QED BY <1>2, <2>1, <2>3, <2>4, <2>5, <3>1, CheckedLate
  <2>6. CASE /\ Awaits(tx) /\ code = "nonce" /\ executor' = executor /\ factory' = factory
             /\ submission'.phase = "nonce" /\ submission'.tx = submission.tx
    BY <1>2, <1>4, <2>1, <2>3, <2>4, <2>6, CheckedNonce
  <2>7. CASE /\ Awaits(tx) /\ submission' = NoSubmission
             /\ factory'.lost = factory.lost \cup ToSet(tx.bundle)
             /\ executor'.nonce = tx.nonce
    BY <1>2, <2>1, <2>2, <2>3, <2>4, <2>7, CheckedRejected
  <2> QED BY <2>2, <2>5, <2>6, <2>7
<1> HIDE DEF used
<1> QED BY <1>1, <1>3, <1>4

-----------------------------------------------------------------------------
(* The process *)

(* A stopped collector asks nothing of what was collected.                 *)
LEMMA CollectorOff ==
    ASSUME collector' = NoCollector,
           StagesInOrder(Posted', submission'.tx.bundle, executor'.drain, factory', channel',
                         << >>)
    PROVE  PipelineInv'
<1> DEFINE C == Collected(Posted, submission.tx.bundle, executor.drain, factory, channel,
                          collector.todo)
<1>1. collector'.phase = "off" /\ collector'.todo = << >>
  BY DEF NoCollector
<1>2. StagesInOrder(Posted, submission.tx.bundle, executor.drain, factory, channel,
                    collector.todo)'
  BY <1>1
<1> HIDE DEF C
<1>3. CollectorInv(C)'
  BY <1>1 DEF CollectorInv
<1> QED BY <1>2, <1>3 DEF PipelineInv, C

(* A shutdown drains channel and factory into bundles in their order.      *)
LEMMA ShutdownIInv == IInv /\ Shutdown => IInv'
<1> SUFFICES ASSUME IInv, Shutdown PROVE IInv'
  OBVIOUS
<1>1. CASE executor.phase = "init"
  <2>1. /\ EndExecutor /\ UNCHANGED <<arrived, channel, factory, sequencer>> /\ collector' = NoCollector
        /\ faults \subseteq faults'
    BY <1>1 DEF Shutdown, Fault
  <2> QED BY <2>1, ExecutorEnds
<1>2. CASE executor.phase # "init"
  <2> DEFINE f == Received[Len(channel)]
  <2>1. /\ executor' = [executor EXCEPT !.phase = "drain", !.drain = PopAll(f)]
        /\ factory' = Emptied(f) /\ channel' = << >> /\ submission' = submission
        /\ collector' = NoCollector /\ arrived' = arrived /\ sequencer' = sequencer
        /\ executor.phase = "run"
    BY <1>2 DEF Shutdown, Open
  <2>2. StagesInOrder(Posted, submission.tx.bundle, << >>, factory, channel, collector.todo)
    BY <2>1 DEF IInv, PipelineInv, SubmissionInv
  <2>3. /\ f \in Factories /\ factory.lost \subseteq f.lost
        /\ PopAll(f) \in Seq(Seq(Nat))
        /\ StagesInOrder(Posted, submission.tx.bundle, PopAll(f), Emptied(f), << >>, << >>)
    BY <2>2, StagesShutdown DEF IInv
  <2> HIDE DEF f
  <2>4. /\ executor' \in Executors /\ executor'.phase = "drain" /\ executor'.drain = PopAll(f)
        /\ executor'.nonce = executor.nonce
    BY <2>1, <2>3 DEF IInv, TypeOK, Executors
  <2>5. factory' \in Factories /\ factory'.lost = f.lost
    BY <2>1, <2>3, EmptyTypes DEF Factories, Emptied
  <2>6. TypeOK'
    BY <2>1, <2>4, <2>5, EmptyTypes DEF IInv, TypeOK
  <2>7. ChainInv' /\ CursorInv' /\ Posted' = Posted
    <3>1. Active /\ Active' /\ faults \subseteq faults'
      BY <2>1, <2>4 DEF Active, Shutdown, Fault
    <3> QED BY <2>1, <2>3, <2>4, <2>5, <2>6, <3>1, QuietStep
  <2>8. SubmissionInv'
    BY <2>1, <2>4 DEF IInv, SubmissionInv, Idle
  <2>9. PipelineInv'
    BY <2>1, <2>3, <2>4, <2>7, CollectorOff
  <2> QED BY <2>6, <2>7, <2>8, <2>9, Assembled
<1> QED BY <1>1, <1>2

(* The drain ends, or its time is over.                                    *)
LEMMA EndDrainIInv == IInv /\ EndDrain => IInv'
BY ExecutorEnds DEF EndDrain, Fault

(* A crash loses what the process held, not what is on the wire.           *)
LEMMA CrashIInv == IInv /\ Crash => IInv'
BY ExecutorEnds DEF Crash, Fault

(* An empty composer is in order, whatever has been posted and lost.       *)
LEMMA StagesEmpty ==
    ASSUME NEW posted, NEW f, f.finished = << >>, f.current = << >>
    PROVE  StagesInOrder(posted, << >>, << >>, f, << >>, << >>)
BY InOrderEmpty DEF StagesInOrder, FactoryInOrder

(* A new process starts empty, with the Sequencer as the old one left it.  *)
LEMMA RestartIInv == IInv /\ Restart => IInv'
<1> SUFFICES ASSUME IInv, Restart PROVE IInv'
  OBVIOUS
<1>1. executor.phase = "closed" /\ submission.tx.bundle = << >> /\ executor.drain = << >>
  BY DEF IInv, SubmissionInv, Restart
<1>2. /\ executor' \in Executors /\ executor'.phase = "init" /\ executor'.nonce = executor.nonce
      /\ executor'.drain = << >>
  BY <1>1 DEF IInv, TypeOK, Restart, Executors
<1>3. /\ factory' \in Factories /\ factory'.lost = factory.lost
      /\ factory'.finished = << >> /\ factory'.current = << >>
  BY EmptyTypes DEF IInv, TypeOK, Restart, Factories, Emptied
<1>4. TypeOK'
  BY <1>2, <1>3, EmptyTypes DEF IInv, TypeOK, Restart
<1>5. ChainInv' /\ CursorInv'
  <2>1. ~Active /\ ~Active'
    BY <1>1, <1>2 DEF Active
  <2> QED BY <1>2, <1>3, <1>4, <2>1, QuietStep DEF Restart
<1>6. SubmissionInv'
  BY <1>1, <1>2 DEF IInv, SubmissionInv, Restart, Idle
<1>7. PipelineInv'
  <2>1. channel' = << >> /\ collector' = NoCollector /\ submission' = submission
    BY DEF Restart
  <2>2. StagesInOrder(Posted', << >>, << >>, factory', << >>, << >>)
    BY <1>3, StagesEmpty
  <2> QED BY <1>1, <1>2, <2>1, <2>2, CollectorOff
<1> QED BY <1>4, <1>5, <1>6, <1>7, Assembled

-----------------------------------------------------------------------------
(* The theorems *)

(* The invariant holds initially.                                          *)
LEMMA InitIInv == Init => IInv
<1> SUFFICES ASSUME Init PROVE IInv
  OBVIOUS
<1>1. /\ sequencer.executed = << >> /\ sequencer.mempool = {} /\ sequencer.wire = {}
      /\ factory.finished = << >> /\ factory.current = << >>
      /\ executor.phase = "init" /\ executor.nonce = 0 /\ executor.drain = << >>
      /\ submission.phase = "none" /\ submission.tx.nonce = 0 /\ submission.tx.bundle = << >>
      /\ collector.phase = "off" /\ collector.todo = << >> /\ channel = << >>
  BY DEF Init, NoSubmission, NoCollector
<1>2. TypeOK
  <2>1. factory \in Factories /\ executor \in Executors
    BY EmptyTypes DEF Init, Factories, Executors
  <2>2. sequencer \in [executed : Seq(Seq(Nat)), mempool : SUBSET Tx, wire : SUBSET Tx]
    BY EmptyTypes DEF Init
  <2>3. IsFiniteSet(sequencer.mempool)
    BY <1>1, FS_EmptySet
  <2> QED BY <2>1, <2>2, <2>3, EmptyTypes DEF Init, TypeOK
<1>3. Nonce = 0
  BY <1>1 DEF Nonce
<1>4. PendingNonce \in Nat
  BY <1>2, CursorTypes
<1>5. NonceInv /\ CursorInv
  <2>1. NonceInv
    BY <1>1 DEF NonceInv
  <2>2. ~Active /\ Idle /\ ~Refetches /\ Cursor = 0
    BY <1>1 DEF Active, Idle, Refetches, Cursor
  <2>3. NoGap
    BY <1>1, <2>2 DEF NoGap
  <2> QED BY <1>1, <1>4, <2>1, <2>2, <2>3 DEF CursorInv
<1>6. SequencerInv
  BY <1>1, InOrderEmpty DEF SequencerInv, ExecutedInOrder
<1>7. SubmissionInv
  BY <1>1 DEF SubmissionInv, Idle
<1>8. PipelineInv
  <2>1. StagesInOrder(Posted, << >>, << >>, factory, << >>, << >>)
    BY <1>1, StagesEmpty
  <2> QED BY <1>1, <2>1 DEF PipelineInv, CollectorInv
<1> QED BY <1>2, <1>5, <1>6, <1>7, <1>8 DEF IInv

(* A stuttering step preserves the invariant.                              *)
LEMMA StutterIInv == IInv /\ UNCHANGED vars => IInv'
<1> SUFFICES ASSUME IInv, UNCHANGED vars PROVE IInv'
  OBVIOUS
<1>1. TypeOK'
  BY DEF IInv, TypeOK, vars
<1>2. ChainInv' /\ CursorInv' /\ Posted' = Posted
  BY <1>1, QuietStep DEF vars, Active
<1>3. SubmissionInv'
  BY DEF IInv, SubmissionInv, Idle, vars
<1>4. PipelineInv'
  BY <1>1, <1>2, Fields, PipelineKept DEF IInv, vars
<1> QED BY <1>1, <1>2, <1>3, <1>4, Assembled

(* Every step preserves the invariant.                                     *)
LEMMA StepIInv == IInv /\ [Next]_vars => IInv'
<1> SUFFICES ASSUME IInv, [Next]_vars PROVE IInv'
  OBVIOUS
<1>1. CASE NewTx
  BY <1>1, NewTxIInv
<1>2. CASE Collect
  BY <1>2, SubscribeIInv, TxpoolContentIInv, NextTxIInv DEF Collect
<1>3. CASE Run
  BY <1>3, InitExecutorIInv, NextFinishedIInv, RecvTxIInv, DrainBundleIInv, EndDrainIInv,
     RestartIInv DEF Run
<1>4. CASE BlockTimer
  BY <1>4, BlockTimerIInv
<1>5. CASE Submit
  BY <1>5, BroadcastTxIInv, GetPendingNonceIInv, GiveUpIInv DEF Submit
<1>6. CASE CheckTx
  BY <1>6, CheckTxIInv
<1>7. CASE ExecuteTx
  BY <1>7, ExecuteTxIInv
<1>8. CASE Disturb
  BY <1>8, StreamEndsIInv, LoseAnswerIInv, RemoveTxIInv, ForeignTxIInv, ShutdownIInv,
     CrashIInv DEF Disturb
<1>9. CASE UNCHANGED vars
  BY <1>9, StutterIInv
<1> QED BY <1>1, <1>2, <1>3, <1>4, <1>5, <1>6, <1>7, <1>8, <1>9 DEF Next

(* The invariant holds in every reachable state: it holds initially, and   *)
(* every step of the collector, the executor, the submission, the          *)
(* Sequencer and every fault preserves it.                                 *)
THEOREM Invariance == Spec => []IInv
<1> QED BY InitIInv, StepIInv, PTL DEF Spec

(* Every variable keeps its type, in particular the Sequencer's mempool    *)
(* stays finite and the nonces of the executor stay natural numbers.       *)
THEOREM TypeCorrect == Spec => []TypeOK
<1>1. IInv => TypeOK
  BY DEF IInv
<1> QED BY <1>1, Invariance, PTL

(* The bundle queue, the timer, the drain of a shutdown, a nonce fetched   *)
(* anew for a bundle that was submitted already, a removal from the        *)
(* Sequencer's mempool that leaves later bundles parked there, and         *)
(* restarts keep the rollup's transactions in the order of their nonces,   *)
(* but for those that were dropped.                                        *)
THEOREM ExecutedInOrderHolds == Spec => []ExecutedInOrder
<1>1. IInv => ExecutedInOrder
  BY DEF IInv, SequencerInv
<1> QED BY <1>1, Invariance, PTL

=============================================================================
