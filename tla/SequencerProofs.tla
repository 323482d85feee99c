-------------------------- MODULE SequencerProofs --------------------------
(***************************************************************************)
(* Proofs about the sequencer: the state the actions of a block change     *)
(* (Ledger), the transactions waiting for a block (Mempool) and the ABCI   *)
(* application that builds, checks, executes and commits it (App).  Each   *)
(* part opens with the facts about its operators and ends with its         *)
(* inductive invariant and the theorems that follow from it.               *)
(***************************************************************************)
EXTENDS Ledger, Mempool, App, FiniteSetTheorems, SequenceTheorems,
        WellFoundedInduction, TLAPS

-----------------------------------------------------------------------------
(* Sums over finite sets *)

First(s) == CHOOSE x \in s : TRUE

(* g gives the sum of f over each set of D *)
Sums(g, f, D) ==
    g = [s \in D |-> IF s = {} THEN 0 ELSE f[First(s)] + g[s \ {First(s)}]]

(* the subsets of S with at most n elements *)
SmallSubsets(S, n) == {s \in SUBSET S : Cardinality(s) <= n}

(* Every nonempty set of natural numbers has a least element.              *)
LEMMA LeastNatural ==
    ASSUME NEW T \in SUBSET Nat, T # {}
    PROVE  \E x \in T : \A y \in T : x <= y
<1>1. ASSUME NEW R, IsWellFoundedOn(R, Nat),
             \A x, y \in Nat : <<y, x>> \in R <=> y < x
      PROVE  \E x \in T : \A y \in T : x <= y
  <2>1. PICK x \in T : \A y \in T : ~ (<<y, x>> \in R)
    BY <1>1, WFMin
  <2>2. \A y, z \in Nat : ~ (<<y, z>> \in R) => ~ (y < z)
    BY <1>1, Zenon
  <2>3. \A y \in T : ~ (y < x)
    BY <2>1, <2>2, Zenon
  <2> QED BY <2>3, Z3
<1>2. IsWellFoundedOn(OpToRel(<, Nat), Nat)
  BY NatLessThanWellFounded
<1>3. \A x, y \in Nat : <<y, x>> \in OpToRel(<, Nat) <=> y < x
  BY DEF OpToRel
<1> QED BY <1>1, <1>2, <1>3, Zenon

(* A subset of a finite set, without its first element.                    *)
LEMMA WithoutFirst ==
    ASSUME NEW S, IsFiniteSet(S), NEW s \in SUBSET S
    PROVE  /\ IsFiniteSet(s) /\ Cardinality(s) \in Nat
           /\ Cardinality(s) = 0 <=> s = {}
           /\ s # {} => /\ First(s) \in s /\ s \ {First(s)} \in SUBSET S
                        /\ Cardinality(s \ {First(s)}) = Cardinality(s) - 1
<1>1. IsFiniteSet(s) /\ Cardinality(s) \in Nat
  BY FS_Subset, FS_CardinalityType
<1>2. Cardinality(s) = 0 <=> s = {}
  BY <1>1, FS_EmptySet
<1>3. ASSUME s # {}
      PROVE  /\ First(s) \in s /\ s \ {First(s)} \in SUBSET S
             /\ Cardinality(s \ {First(s)}) = Cardinality(s) - 1
  <2>1. First(s) \in s
    BY <1>3 DEF First
  <2>2. Cardinality(s \ {First(s)}) = Cardinality(s) - 1
    BY <1>1, <2>1, FS_RemoveElement
  <2> QED BY <2>1, <2>2
<1> QED BY <1>1, <1>2, <1>3

(* Summing a finite set is well defined.                                   *)
LEMMA SumsExist ==
    ASSUME NEW S, IsFiniteSet(S), NEW f
    PROVE  \E g : Sums(g, f, SUBSET S)
<1> DEFINE T == {n \in Nat : ~ \E g : Sums(g, f, SmallSubsets(S, n))}
<1>1. ASSUME T # {} PROVE FALSE
  <2>1. PICK n \in T : \A m \in T : n <= m
    BY <1>1, LeastNatural
  <2>2. CASE n = 0
    <3> DEFINE g == [s \in SmallSubsets(S, 0) |-> 0]
    <3>1. ASSUME NEW s \in SmallSubsets(S, 0) PROVE s = {}
      <4>1. s \in SUBSET S /\ Cardinality(s) <= 0
        BY DEF SmallSubsets
      <4>2. Cardinality(s) \in Nat /\ (Cardinality(s) = 0 <=> s = {})
        BY <4>1, WithoutFirst
      <4> QED BY <4>1, <4>2
    <3>2. Sums(g, f, SmallSubsets(S, 0))
      BY <3>1 DEF Sums
    <3> QED BY <2>1, <2>2, <3>2
  <2>3. CASE n # 0
    <3>1. n - 1 \in Nat /\ n - 1 \notin T
      BY <2>1, <2>3
    <3>2. PICK g : Sums(g, f, SmallSubsets(S, n - 1))
      BY <3>1
    <3> DEFINE h == [s \in SmallSubsets(S, n) |-> IF s = {} THEN 0 ELSE f[First(s)] + g[s \ {First(s)}]]
    <3>3. ASSUME NEW s \in SmallSubsets(S, n), s # {}
          PROVE  h[s \ {First(s)}] = g[s \ {First(s)}]
      <4> DEFINE t == s \ {First(s)}
      <4>1. t \in SmallSubsets(S, n - 1) /\ t \in SmallSubsets(S, n)
        <5>1. /\ t \in SUBSET S /\ Cardinality(t) = Cardinality(s) - 1
              /\ Cardinality(s) \in Nat /\ Cardinality(s) <= n
          BY <3>3, WithoutFirst DEF SmallSubsets
        <5> QED BY <5>1, <2>1 DEF SmallSubsets
      <4> HIDE DEF t
      <4>2. g[t] = IF t = {} THEN 0 ELSE f[First(t)] + g[t \ {First(t)}]
        BY <3>2, <4>1 DEF Sums
      <4>3. h[t] = IF t = {} THEN 0 ELSE f[First(t)] + g[t \ {First(t)}]
        BY <4>1
      <4> QED BY <4>2, <4>3 DEF t
    <3>4. Sums(h, f, SmallSubsets(S, n))
      BY <3>3 DEF Sums
    <3> QED BY <2>1, <3>4
  <2> QED BY <2>2, <2>3
<1>2. Cardinality(S) \in Nat
  BY FS_CardinalityType
<1>3. SmallSubsets(S, Cardinality(S)) = SUBSET S
  <2>1. \A s \in SUBSET S : Cardinality(s) <= Cardinality(S)
    BY FS_Subset
  <2> QED BY <2>1 DEF SmallSubsets
<1>4. \E g : Sums(g, f, SmallSubsets(S, Cardinality(S)))
  <2> DEFINE c == Cardinality(S)
  <2>1. c \in Nat /\ c \notin T
    BY <1>1, <1>2
  <2> QED BY <2>1
<1> QED BY <1>3, <1>4

(* SumFunctionOnSet is that sum.                                           *)
LEMMA SumIsDefined ==
    ASSUME NEW S, IsFiniteSet(S), NEW f
    PROVE  \E g : Sums(g, f, SUBSET S) /\ SumFunctionOnSet(f, S) = g[S]
<1> DEFINE Def(g) == [s \in SUBSET S |-> IF s = {} THEN 0 ELSE f[First(s)] + g[s \ {First(s)}]]
           iter == CHOOSE g : g = Def(g)
<1>1. \E g : g = Def(g)
  <2>1. PICK g : Sums(g, f, SUBSET S)
    BY SumsExist
  <2>2. g = Def(g)
    BY <2>1, Zenon DEF Sums
  <2> QED BY <2>2, Zenon
<1>2. iter = Def(iter)
  BY <1>1, Zenon
<1>3. SumFunctionOnSet(f, S) = iter[S]
  BY DEF SumFunctionOnSet, FoldFunctionOnSet, MapThenFoldSet, First
<1> HIDE DEF iter
<1> QED BY <1>2, <1>3 DEF Sums

(* Two sums agree on a set on which the summands agree.                    *)
LEMMA SumsAgree ==
    ASSUME NEW S, IsFiniteSet(S), NEW R, IsFiniteSet(R), NEW f, NEW k, NEW g, NEW h,
           Sums(g, f, SUBSET S), Sums(h, k, SUBSET R),
           NEW s \in SUBSET S, s \in SUBSET R, \A x \in s : f[x] = k[x]
    PROVE  g[s] = h[s]
<1> DEFINE T == {n \in Nat : \E t \in SUBSET s : Cardinality(t) = n /\ g[t] # h[t]}
<1>1. ASSUME T # {} PROVE FALSE
  <2>1. PICK n \in T : \A m \in T : n <= m
    BY <1>1, LeastNatural
  <2>2. PICK t \in SUBSET s : Cardinality(t) = n /\ g[t] # h[t]
    BY <2>1
  <2>3. t \in SUBSET S /\ t \in SUBSET R
    OBVIOUS
  <2>4. /\ g[t] = IF t = {} THEN 0 ELSE f[First(t)] + g[t \ {First(t)}]
        /\ h[t] = IF t = {} THEN 0 ELSE k[First(t)] + h[t \ {First(t)}]
    BY <2>3 DEF Sums
  <2>5. t # {}
    BY <2>2, <2>4
  <2>6. First(t) \in t /\ Cardinality(t \ {First(t)}) = n - 1 /\ n \in Nat /\ n # 0
    BY <2>2, <2>3, <2>5, WithoutFirst
  <2>7. n - 1 \in Nat /\ n - 1 \notin T
    BY <2>1, <2>6
  <2>8. g[t \ {First(t)}] = h[t \ {First(t)}]
    <3>1. t \ {First(t)} \in SUBSET s
      OBVIOUS
    <3> QED BY <2>6, <2>7, <3>1
  <2>9. f[First(t)] = k[First(t)]
    BY <2>6
  <2> QED BY <2>2, <2>4, <2>8, <2>9
<1>2. Cardinality(s) \in Nat
  BY WithoutFirst
<1> QED BY <1>1, <1>2

(* A sum of natural numbers is a natural number.                           *)
LEMMA SumsNat ==
    ASSUME NEW S, IsFiniteSet(S), NEW f, NEW g, Sums(g, f, SUBSET S),
           \A x \in S : f[x] \in Nat, NEW s \in SUBSET S
    PROVE  g[s] \in Nat
<1> DEFINE T == {n \in Nat : \E t \in SUBSET S : Cardinality(t) = n /\ g[t] \notin Nat}
<1>1. ASSUME T # {} PROVE FALSE
  <2>1. PICK n \in T : \A m \in T : n <= m
    BY <1>1, LeastNatural
  <2>2. PICK t \in SUBSET S : Cardinality(t) = n /\ g[t] \notin Nat
    BY <2>1
  <2>3. g[t] = IF t = {} THEN 0 ELSE f[First(t)] + g[t \ {First(t)}]
    BY DEF Sums
  <2>4. t # {}
    BY <2>2, <2>3
  <2>5. /\ First(t) \in t /\ Cardinality(t \ {First(t)}) = n - 1 /\ n \in Nat /\ n # 0
        /\ t \ {First(t)} \in SUBSET S
    BY <2>2, <2>4, WithoutFirst
  <2>6. n - 1 \in Nat /\ n - 1 \notin T
    BY <2>1, <2>5
  <2>7. g[t \ {First(t)}] \in Nat
    BY <2>5, <2>6
  <2>8. f[First(t)] \in Nat
    BY <2>5
  <2> QED BY <2>2, <2>3, <2>4, <2>7, <2>8
<1>2. Cardinality(s) \in Nat
  BY WithoutFirst
<1> QED BY <1>1, <1>2

(* Whatever the order, an element adds its summand.                        *)
LEMMA SumsAdd ==
    ASSUME NEW S, IsFiniteSet(S), NEW f, NEW g, Sums(g, f, SUBSET S),
           \A x \in S : f[x] \in Nat, NEW s \in SUBSET S, NEW a \in s
    PROVE  g[s] = f[a] + g[s \ {a}]
<1> DEFINE T == {n \in Nat : \E t \in SUBSET S : \E x \in t :
                     Cardinality(t) = n /\ g[t] # f[x] + g[t \ {x}]}
<1>1. ASSUME T # {} PROVE FALSE
  <2>1. PICK n \in T : \A m \in T : n <= m
    BY <1>1, LeastNatural
  <2>0. PICK t \in SUBSET S : \E x \in t : Cardinality(t) = n /\ g[t] # f[x] + g[t \ {x}]
    BY <2>1
  <2>2. PICK x \in t : Cardinality(t) = n /\ g[t] # f[x] + g[t \ {x}]
    BY <2>0
  <2> DEFINE y == First(t)
             u == t \ {x}
             v == t \ {y}
             w == (t \ {x}) \ {y}
  <2>3. t # {} /\ y \in t /\ Cardinality(v) = n - 1 /\ n \in Nat /\ n # 0
    BY <2>2, WithoutFirst
  <2>4. g[t] = f[y] + g[v]
    BY <2>3 DEF Sums
  <2>5. x # y
    BY <2>2, <2>4
  <2> HIDE DEF y
  <2>6. Cardinality(u) = n - 1
    BY <2>2, WithoutFirst, FS_RemoveElement
  <2>7. n - 1 \in Nat /\ n - 1 \notin T
    <3> HIDE DEF T
    <3> QED BY <2>1, <2>3
  <2>8. g[v] = f[x] + g[v \ {x}]
    <3>1. v \in SUBSET S /\ x \in v
      BY <2>5
    <3> QED BY <2>3, <2>7, <3>1
  <2>9. g[u] = f[y] + g[u \ {y}]
    <3>1. u \in SUBSET S /\ y \in u
      BY <2>3, <2>5
    <3> QED BY <2>6, <2>7, <3>1
  <2>10. v \ {x} = w /\ u \ {y} = w /\ w \in SUBSET S
    OBVIOUS
  <2>11. g[w] \in Nat /\ f[x] \in Nat /\ f[y] \in Nat
    BY <2>3, <2>10, SumsNat
  <2> HIDE DEF u, v, w
  <2>12. g[t] = f[x] + g[u]
    <3>1. g[v] = f[x] + g[w] /\ g[u] = f[y] + g[w]
      BY <2>8, <2>9, <2>10
    <3> QED BY <2>4, <2>11, <3>1
  <2> QED BY <2>2, <2>12 DEF u
<1>2. Cardinality(s) \in Nat
  BY WithoutFirst
<1> QED BY <1>1, <1>2

(* What the other proofs use of sums.                                      *)
LEMMA SumFacts ==
    ASSUME NEW S, IsFiniteSet(S), NEW f, \A x \in S : f[x] \in Nat
    PROVE  /\ SumFunctionOnSet(f, S) \in Nat
           /\ S = {} => SumFunctionOnSet(f, S) = 0
           /\ \A a \in S : SumFunctionOnSet(f, S) = f[a] + SumFunctionOnSet(f, S \ {a})
<1>1. PICK g : Sums(g, f, SUBSET S) /\ SumFunctionOnSet(f, S) = g[S]
  BY SumIsDefined
<1>2. SumFunctionOnSet(f, S) \in Nat
  BY <1>1, SumsNat
<1>3. ASSUME S = {} PROVE SumFunctionOnSet(f, S) = 0
  BY <1>1, <1>3 DEF Sums
<1>4. ASSUME NEW a \in S PROVE SumFunctionOnSet(f, S) = f[a] + SumFunctionOnSet(f, S \ {a})
  <2> DEFINE R == S \ {a}
  <2>1. IsFiniteSet(R)
    BY FS_Subset
  <2>2. PICK h : Sums(h, f, SUBSET R) /\ SumFunctionOnSet(f, R) = h[R]
    BY <2>1, SumIsDefined
  <2>3. g[R] = h[R]
    <3>1. R \in SUBSET S /\ R \in SUBSET R
      OBVIOUS
    <3> HIDE DEF R
    <3> QED BY <1>1, <2>1, <2>2, <3>1, SumsAgree
  <2>4. S \in SUBSET S
    OBVIOUS
  <2>5. g[S] = f[a] + g[R]
    BY <1>1, <2>4, SumsAdd
  <2> QED BY <1>1, <2>2, <2>3, <2>5
<1> QED BY <1>2, <1>3, <1>4

(* Equal summands have equal sums.                                         *)
LEMMA SumEqual ==
    ASSUME NEW S, IsFiniteSet(S), NEW f, NEW k, \A x \in S : f[x] = k[x]
    PROVE  SumFunctionOnSet(f, S) = SumFunctionOnSet(k, S)
<1>1. PICK g : Sums(g, f, SUBSET S) /\ SumFunctionOnSet(f, S) = g[S]
  BY SumIsDefined
<1>2. PICK h : Sums(h, k, SUBSET S) /\ SumFunctionOnSet(k, S) = h[S]
  BY SumIsDefined
<1>3. S \in SUBSET S
  OBVIOUS
<1> QED BY <1>1, <1>2, <1>3, SumsAgree

-----------------------------------------------------------------------------
(* The inductive invariant of the ledger *)

Bridge == [asset : Assets, withdrawer : Accounts, sudo : Accounts]

IbcPacket == [id : Nat, asset : Assets, form : Forms, amount : Nat,
              sender : Accounts, memo : BOOLEAN]

Event == [bridge : Accounts, id : Nat, amount : Nat]

StateType(s) ==
    /\ s \in [balance : [Accounts -> [Assets -> Nat]],
              bridges : UNION {[B -> Bridge] : B \in SUBSET Accounts},
              used : SUBSET (Accounts \X Nat), deposits : [Accounts -> Nat], fees : Nat,
              paid : [Accounts -> Nat], escrow : [Assets -> Nat],
              packets : SUBSET IbcPacket, sent : Nat]
    /\ IsFiniteSet(s.packets)

TypeOK ==
    /\ StateType(state)
    /\ rollup \in [supply : [Accounts -> Nat], events : SUBSET Event]
    /\ IsFiniteSet(rollup.events)
    /\ outside \in [held : [Assets -> Nat], stranded : [Assets -> Nat]]
    /\ shortfall \in [lent : Nat, unbacked : [Accounts -> Nat]]

(* The identifiers of packets and of withdrawals are not used again. *)
EventsInv ==
    \A e \in rollup.events : /\ e.id < Cardinality(rollup.events)
                             /\ \A d \in rollup.events : d.id = e.id => d = e

FreshIds(s) ==
    /\ \A p \in s.packets : p.id < s.sent
    /\ \A u \in s.used : u[2] < Cardinality(rollup.events)

(* no rollup has a claim on b *)
NoClaims(s, b) ==
    /\ s.deposits[b] = 0 /\ rollup.supply[b] = 0
    /\ \A e \in rollup.events : e.bridge # b

Own(s, b) ==
    s.balance[b][s.bridges[b].asset]
        + (IF s.bridges[b].asset = Native THEN s.paid[b] ELSE 0)

Backing(s, b) == Own(s, b) + shortfall.unbacked[b]

Owed(s, b) == s.deposits[b] + rollup.supply[b] + Total(Open(s, b))

Escrowed(s) ==
    s.escrow[Native] + shortfall.lent = InFlight(Traced(s.packets), Native) + outside.held[Native]

Backed(s) ==
    /\ Escrowed(s)
    /\ \A b \in Bridges(s) : Backing(s, b) >= Owed(s, b)

(* what each action of a transaction preserves *)
StateInv(s) ==
    /\ StateType(s) /\ FreshIds(s)
    /\ \A b \in Accounts \ Bridges(s) : NoClaims(s, b)
    /\ Backed(s)

(* the assets that the Sequencer accounts for *)
Funds(s, asset) ==
    Held(s.balance, asset) + (IF asset = Native THEN s.fees ELSE 0) + InFlight(s.packets, asset)

(* no deposit lacks its funds as long as the escrow was not drawn on *)
ShortfallInv == (\E b \in Accounts : shortfall.unbacked[b] > 0) => shortfall.lent > 0

IInv == TypeOK /\ EventsInv /\ StateInv(state) /\ AssetsConserved /\ ShortfallInv


-----------------------------------------------------------------------------
(* Sums of amounts *)

(* What other proofs use of the total of some amounts.                     *)
LEMMA TotalFacts ==
    ASSUME NEW S, IsFiniteSet(S), \A x \in S : x.amount \in Nat
    PROVE  /\ Total(S) \in Nat
           /\ S = {} => Total(S) = 0
           /\ \A a \in S : Total(S) = a.amount + Total(S \ {a})
<1> DEFINE f == [x \in S |-> x.amount]
<1>1. Total(S) = SumFunctionOnSet(f, S)
  BY DEF Total, SumFunction
<1>2. \A x \in S : f[x] \in Nat
  OBVIOUS
<1>3. /\ SumFunctionOnSet(f, S) \in Nat
      /\ S = {} => SumFunctionOnSet(f, S) = 0
      /\ \A a \in S : SumFunctionOnSet(f, S) = f[a] + SumFunctionOnSet(f, S \ {a})
  <2> HIDE DEF f
  <2> QED BY <1>2, SumFacts
<1>4. ASSUME NEW a \in S PROVE Total(S) = a.amount + Total(S \ {a})
  <2> DEFINE R == S \ {a}
             k == [x \in R |-> x.amount]
  <2>1. Total(R) = SumFunctionOnSet(k, R)
    BY DEF Total, SumFunction
  <2>2. SumFunctionOnSet(f, R) = SumFunctionOnSet(k, R)
    <3>1. IsFiniteSet(R) /\ \A x \in R : f[x] = k[x]
      BY FS_Subset
    <3> HIDE DEF f, k, R
    <3> QED BY <3>1, SumEqual
  <2>3. f[a] = a.amount
    OBVIOUS
  <2>4. SumFunctionOnSet(f, S) = f[a] + SumFunctionOnSet(f, R)
    BY <1>3
  <2> QED BY <1>1, <2>1, <2>2, <2>3, <2>4
<1> QED BY <1>1, <1>3, <1>4

(* A packet that is sent adds its amount to what is under way of its       *)
(* asset; one that is taken away takes it.                                 *)
LEMMA InFlightFacts ==
    ASSUME NEW P, IsFiniteSet(P), \A q \in P : q.amount \in Nat, NEW asset
    PROVE  /\ InFlight(P, asset) \in Nat
           /\ P = {} => InFlight(P, asset) = 0
           /\ \A p \in P : InFlight(P, asset) =
                 InFlight(P \ {p}, asset) + (IF p.asset = asset THEN p.amount ELSE 0)
<1> DEFINE S == {p \in P : p.asset = asset}
<1>1. IsFiniteSet(S) /\ \A x \in S : x.amount \in Nat
  BY FS_Subset
<1>2. /\ Total(S) \in Nat
      /\ S = {} => Total(S) = 0
      /\ \A a \in S : Total(S) = a.amount + Total(S \ {a})
  <2> HIDE DEF S
  <2> QED BY <1>1, TotalFacts
<1>3. ASSUME NEW p \in P
      PROVE  InFlight(P, asset) =
                 InFlight(P \ {p}, asset) + (IF p.asset = asset THEN p.amount ELSE 0)
  <2>1. CASE p.asset = asset
    <3>1. {q \in P \ {p} : q.asset = asset} = S \ {p} /\ p \in S
      BY <2>1
    <3>2. IsFiniteSet(S \ {p}) /\ \A x \in S \ {p} : x.amount \in Nat
      BY <1>1, FS_Subset
    <3>3. Total(S \ {p}) \in Nat /\ p.amount \in Nat
      BY <3>2, TotalFacts
    <3>4. InFlight(P, asset) = Total(S) /\ InFlight(P \ {p}, asset) = Total(S \ {p})
      BY <3>1, Zenon DEF InFlight
    <3>5. Total(S) = p.amount + Total(S \ {p})
      BY <1>2, <3>1
    <3> HIDE DEF S
    <3> QED BY <2>1, <3>3, <3>4, <3>5
  <2>2. CASE p.asset # asset
    <3>1. {q \in P \ {p} : q.asset = asset} = S
      BY <2>2
    <3>2. InFlight(P, asset) = Total(S) /\ InFlight(P \ {p}, asset) = Total(S)
      BY <3>1, Zenon DEF InFlight
    <3> HIDE DEF S
    <3> QED BY <1>2, <2>2, <3>2
  <2> QED BY <2>1, <2>2
<1>4. P = {} => S = {}
  OBVIOUS
<1> QED BY <1>2, <1>3, <1>4 DEF InFlight

(* The same for the packets that name their asset by its trace.            *)
LEMMA TracedFacts ==
    ASSUME NEW P, IsFiniteSet(P), \A q \in P : q.amount \in Nat, NEW asset
    PROVE  /\ InFlight(Traced(P), asset) \in Nat
           /\ P = {} => InFlight(Traced(P), asset) = 0
           /\ \A p \in P : InFlight(Traced(P), asset) =
                 InFlight(Traced(P \ {p}), asset)
                     + (IF p.form = "trace" /\ p.asset = asset THEN p.amount ELSE 0)
<1> DEFINE T == Traced(P)
<1>1. IsFiniteSet(T) /\ (\A q \in T : q.amount \in Nat) /\ (P = {} => T = {})
  BY FS_Subset DEF Traced
<1>2. /\ InFlight(T, asset) \in Nat
      /\ T = {} => InFlight(T, asset) = 0
      /\ \A p \in T : InFlight(T, asset) =
            InFlight(T \ {p}, asset) + (IF p.asset = asset THEN p.amount ELSE 0)
  <2> HIDE DEF T
  <2> QED BY <1>1, InFlightFacts
<1>3. ASSUME NEW p \in P
      PROVE  InFlight(T, asset) = InFlight(Traced(P \ {p}), asset)
                + (IF p.form = "trace" /\ p.asset = asset THEN p.amount ELSE 0)
  <2>1. CASE p.form = "trace"
    <3>1. p \in T /\ Traced(P \ {p}) = T \ {p}
      BY <2>1 DEF Traced
    <3> HIDE DEF T
    <3> QED BY <1>2, <2>1, <3>1
  <2>2. CASE p.form # "trace"
    <3>1. Traced(P \ {p}) = T
      BY <2>2 DEF Traced
    <3> HIDE DEF T
    <3> QED BY <1>2, <2>2, <3>1
  <2> QED BY <2>1, <2>2
<1> QED BY <1>1, <1>2, <1>3

(* no balance but x's of the asset is different in new *)
ChangesOnly(old, new, x, asset) ==
    /\ old \in [Accounts -> [Assets -> Nat]] /\ new \in [Accounts -> [Assets -> Nat]]
    /\ \A y \in Accounts, z \in Assets : (y # x \/ z # asset) => new[y][z] = old[y][z]

(* What the accounts hold changes with the one balance that changes.       *)
LEMMA HeldUpdate ==
    ASSUME NEW old, NEW new, NEW x \in Accounts, NEW asset \in Assets,
           ChangesOnly(old, new, x, asset)
    PROVE  /\ Held(old, asset) \in Nat /\ Held(new, asset) \in Nat
           /\ Held(new, asset) + old[x][asset] = Held(old, asset) + new[x][asset]
           /\ \A z \in Assets \ {asset} : Held(new, z) = Held(old, z)
<1>0. IsFiniteSet(Accounts)
  BY LedgerAssumption
<1> DEFINE f == [y \in Accounts |-> old[y][asset]]
           k == [y \in Accounts |-> new[y][asset]]
           R == Accounts \ {x}
<1>1. Held(old, asset) = SumFunctionOnSet(f, Accounts) /\ Held(new, asset) = SumFunctionOnSet(k, Accounts)
  BY DEF Held, SumFunction
<1>2. \A y \in Accounts : f[y] \in Nat /\ k[y] \in Nat
  BY DEF ChangesOnly
<1>3. f[x] = old[x][asset] /\ k[x] = new[x][asset] /\ \A y \in R : f[y] = k[y]
  BY DEF ChangesOnly
<1>4. IsFiniteSet(R) /\ \A y \in R : f[y] \in Nat
  BY <1>0, <1>2, FS_Subset
<1>5. SumFunctionOnSet(f, Accounts) = f[x] + SumFunctionOnSet(f, R)
  <2> HIDE DEF f
  <2> QED BY <1>0, <1>2, SumFacts
<1>6. SumFunctionOnSet(k, Accounts) = k[x] + SumFunctionOnSet(k, R)
  <2> HIDE DEF k
  <2> QED BY <1>0, <1>2, SumFacts
<1>7. SumFunctionOnSet(f, R) = SumFunctionOnSet(k, R) /\ SumFunctionOnSet(f, R) \in Nat
  <2> HIDE DEF f, k, R
  <2> QED BY <1>3, <1>4, SumEqual, SumFacts
<1>8. f[x] \in Nat /\ k[x] \in Nat
  BY <1>2
<1>9. ASSUME NEW z \in Assets \ {asset} PROVE Held(new, z) = Held(old, z)
  <2>1. [y \in Accounts |-> old[y][z]] = [y \in Accounts |-> new[y][z]]
    BY DEF ChangesOnly
  <2> QED BY <2>1 DEF Held
<1> HIDE DEF f, k, R
<1>10. /\ SumFunctionOnSet(f, Accounts) \in Nat /\ SumFunctionOnSet(k, Accounts) \in Nat
       /\ SumFunctionOnSet(k, Accounts) + f[x] = SumFunctionOnSet(f, Accounts) + k[x]
  BY <1>5, <1>6, <1>7, <1>8
<1> QED BY <1>1, <1>3, <1>9, <1>10

(* that balance grows *)
GrowsBy(old, new, x, asset, more) ==
    ChangesOnly(old, new, x, asset) /\ new[x][asset] = old[x][asset] + more

(* What the accounts hold grows with it.                                   *)
LEMMA HeldMore ==
    ASSUME NEW old, NEW new, NEW x \in Accounts, NEW asset \in Assets, NEW more \in Nat,
           GrowsBy(old, new, x, asset, more)
    PROVE  \A z \in Assets : /\ Held(new, z) = Held(old, z) + (IF z = asset THEN more ELSE 0)
                             /\ Held(old, z) \in Nat
<1>1. /\ Held(old, asset) \in Nat /\ Held(new, asset) \in Nat
      /\ Held(new, asset) + old[x][asset] = Held(old, asset) + new[x][asset]
      /\ \A z \in Assets \ {asset} : Held(new, z) = Held(old, z)
  <2>1. ChangesOnly(old, new, x, asset)
    BY DEF GrowsBy
  <2> QED BY <2>1, HeldUpdate
<1>2. old[x][asset] \in Nat
  BY DEF GrowsBy, ChangesOnly
<1>3. Held(new, asset) = Held(old, asset) + more
  <2> DEFINE n == Held(new, asset)
             o == Held(old, asset)
             b == old[x][asset]
  <2>1. n \in Nat /\ o \in Nat /\ b \in Nat /\ n + b = o + (b + more)
    BY <1>1, <1>2 DEF GrowsBy
  <2> HIDE DEF n, o, b
  <2>2. n = o + more
    BY <2>1
  <2> QED BY <2>2 DEF n, o
<1>4. ASSUME NEW z \in Assets, z # asset PROVE Held(new, z) = Held(old, z) /\ Held(old, z) \in Nat
  <2>1. ChangesOnly(old, old, x, z)
    BY DEF GrowsBy, ChangesOnly
  <2> QED BY <1>1, <1>4, <2>1, HeldUpdate
<1> QED BY <1>1, <1>3, <1>4

(* The withdrawals that may still be paid out: using one takes its amount  *)
(* from those of its bridge account alone.                                 *)
LEMMA OpenFacts ==
    ASSUME TypeOK, NEW s, NEW b
    PROVE  /\ IsFiniteSet(Open(s, b)) /\ \A e \in Open(s, b) : e.amount \in Nat
           /\ Total(Open(s, b)) \in Nat
<1>1. IsFiniteSet(Open(s, b)) /\ \A e \in Open(s, b) : e.amount \in Nat
  <2>1. Open(s, b) \subseteq rollup.events
    BY DEF Open
  <2>2. IsFiniteSet(rollup.events) /\ \A e \in rollup.events : e.amount \in Nat
    BY DEF TypeOK, Event
  <2> QED BY <2>1, <2>2, FS_Subset
<1> QED BY <1>1, TotalFacts

(* The same for the withdrawal that is used.                               *)
LEMMA OpenUse ==
    ASSUME TypeOK, EventsInv, NEW s, NEW t, NEW e \in rollup.events, Unused(s, e),
           t.used = s.used \cup {<<e.bridge, e.id>>}, NEW b
    PROVE  Total(Open(s, b)) = Total(Open(t, b)) + (IF e.bridge = b THEN e.amount ELSE 0)
<1>1. CASE e.bridge = b
  <2>1. e \in Open(s, b)
    BY <1>1 DEF Open
  <2>2. Open(t, b) = Open(s, b) \ {e}
    BY <1>1 DEF Open, Unused, EventsInv
  <2>3. Total(Open(s, b)) = e.amount + Total(Open(s, b) \ {e})
    BY <2>1, OpenFacts, TotalFacts
  <2>4. Total(Open(t, b)) \in Nat /\ e.amount \in Nat
    BY <2>1, OpenFacts
  <2> QED BY <1>1, <2>2, <2>3, <2>4
<1>2. CASE e.bridge # b
  <2>1. Open(t, b) = Open(s, b)
    BY <1>2 DEF Open, Unused
  <2> QED BY <1>2, <2>1, OpenFacts
<1> QED BY <1>1, <1>2

(* The same where none is used.                                            *)
LEMMA OpenSame ==
    ASSUME NEW s, NEW t, t.used = s.used, NEW b
    PROVE  Open(t, b) = Open(s, b)
BY DEF Open, Unused

-----------------------------------------------------------------------------
(* Balances *)

(* t is s with amount taken from one account and given to the other, which *)
(* may be the same                                                         *)
Moved(s, t, from, to, asset, amount) ==
    /\ t.bridges = s.bridges /\ t.used = s.used /\ t.deposits = s.deposits
    /\ t.fees = s.fees /\ t.paid = s.paid /\ t.escrow = s.escrow
    /\ t.packets = s.packets /\ t.sent = s.sent
    /\ \A b \in Accounts, z \in Assets :
          t.balance[b][z] = IF z # asset \/ from = to THEN s.balance[b][z]
                            ELSE IF b = from THEN s.balance[b][z] - amount
                            ELSE IF b = to THEN s.balance[b][z] + amount
                            ELSE s.balance[b][z]
    /\ \A z \in Assets : Held(t.balance, z) = Held(s.balance, z)

(* execute_transfer does that, and nothing is lost.                        *)
LEMMA MoveFacts ==
    ASSUME NEW s, StateType(s), NEW from \in Accounts, NEW to \in Accounts,
           NEW asset \in Assets, NEW amount \in Nat, s.balance[from][asset] >= amount
    PROVE  /\ StateType(Move(s, from, to, asset, amount))
           /\ Moved(s, Move(s, from, to, asset, amount), from, to, asset, amount)
<1> DEFINE paid == [s EXCEPT !.balance[from][asset] = @ - amount]
<1>1. s.balance[from][asset] - amount \in Nat
  BY DEF StateType
<1>2. /\ StateType(paid)
      /\ paid.bridges = s.bridges /\ paid.used = s.used /\ paid.deposits = s.deposits
      /\ paid.fees = s.fees /\ paid.paid = s.paid /\ paid.escrow = s.escrow
      /\ paid.packets = s.packets /\ paid.sent = s.sent
      /\ \A b \in Accounts, z \in Assets :
            paid.balance[b][z] = IF z = asset /\ b = from THEN s.balance[b][z] - amount
                                 ELSE s.balance[b][z]
  <2>1. paid.balance \in [Accounts -> [Assets -> Nat]]
    BY <1>1 DEF StateType
  <2> QED BY <1>1, <2>1 DEF StateType
<1> DEFINE t == Move(s, from, to, asset, amount)
<1>3. t = [paid EXCEPT !.balance[to][asset] = @ + amount]
  BY DEF Move
<1> HIDE DEF paid, t
<1>4. paid.balance[to][asset] + amount \in Nat
  BY <1>2 DEF StateType
<1>5. /\ StateType(t)
      /\ t.bridges = paid.bridges /\ t.used = paid.used /\ t.deposits = paid.deposits
      /\ t.fees = paid.fees /\ t.paid = paid.paid /\ t.escrow = paid.escrow
      /\ t.packets = paid.packets /\ t.sent = paid.sent
      /\ \A b \in Accounts, z \in Assets :
            t.balance[b][z] = IF z = asset /\ b = to THEN paid.balance[b][z] + amount
                              ELSE paid.balance[b][z]
  <2>1. t.balance \in [Accounts -> [Assets -> Nat]]
    BY <1>2, <1>3, <1>4 DEF StateType
  <2>2. /\ t.bridges = paid.bridges /\ t.used = paid.used /\ t.deposits = paid.deposits
        /\ t.fees = paid.fees /\ t.paid = paid.paid /\ t.escrow = paid.escrow
        /\ t.packets = paid.packets /\ t.sent = paid.sent
    BY <1>2, <1>3 DEF StateType
  <2>3. StateType(t)
    BY <1>2, <1>3, <2>1 DEF StateType
  <2>4. ASSUME NEW b \in Accounts, NEW z \in Assets
        PROVE  t.balance[b][z] = IF z = asset /\ b = to THEN paid.balance[b][z] + amount
                                 ELSE paid.balance[b][z]
    <3>1. t.balance = [paid.balance EXCEPT ![to][asset] = @ + amount]
      BY <1>2, <1>3 DEF StateType
    <3>2. paid.balance \in [Accounts -> [Assets -> Nat]]
      BY <1>2 DEF StateType
    <3> QED BY <3>1, <3>2
  <2> QED BY <2>2, <2>3, <2>4
<1>6. /\ s.balance \in [Accounts -> [Assets -> Nat]]
      /\ paid.balance \in [Accounts -> [Assets -> Nat]]
      /\ t.balance \in [Accounts -> [Assets -> Nat]]
  BY <1>2, <1>5 DEF StateType
<1>7. ASSUME NEW z \in Assets PROVE Held(t.balance, z) = Held(s.balance, z)
  <2>1. \A y \in Assets : /\ Held(s.balance, y) = Held(paid.balance, y) + (IF y = asset THEN amount ELSE 0)
                          /\ Held(paid.balance, y) \in Nat
    <3> DEFINE old == paid.balance
               new == s.balance
    <3>1. GrowsBy(old, new, from, asset, amount)
      BY <1>2, <1>6 DEF GrowsBy, ChangesOnly
    <3> HIDE DEF old, new
    <3>2. \A y \in Assets : /\ Held(new, y) = Held(old, y) + (IF y = asset THEN amount ELSE 0)
                            /\ Held(old, y) \in Nat
      BY <3>1, HeldMore
    <3> QED BY <3>2 DEF old, new
  <2>2. \A y \in Assets : /\ Held(t.balance, y) = Held(paid.balance, y) + (IF y = asset THEN amount ELSE 0)
                          /\ Held(paid.balance, y) \in Nat
    <3> DEFINE old == paid.balance
               new == t.balance
    <3>1. GrowsBy(old, new, to, asset, amount)
      BY <1>5, <1>6 DEF GrowsBy, ChangesOnly
    <3> HIDE DEF old, new
    <3>2. \A y \in Assets : /\ Held(new, y) = Held(old, y) + (IF y = asset THEN amount ELSE 0)
                            /\ Held(old, y) \in Nat
      BY <3>1, HeldMore
    <3> QED BY <3>2 DEF old, new
  <2> QED BY <2>1, <2>2
<1>8. ASSUME NEW b \in Accounts, NEW z \in Assets
      PROVE  t.balance[b][z] = IF z # asset \/ from = to THEN s.balance[b][z]
                                   ELSE IF b = from THEN s.balance[b][z] - amount
                                   ELSE IF b = to THEN s.balance[b][z] + amount
                                   ELSE s.balance[b][z]
  <2>1. s.balance[b][z] \in Nat
    BY <1>6
  <2> QED BY <1>2, <1>5, <2>1
<1>9. StateType(t) /\ Moved(s, t, from, to, asset, amount)
  BY <1>2, <1>5, <1>7, <1>8 DEF Moved
<1> QED BY <1>9 DEF t

(* No rollup that has claims loses more backing than claims.               *)
StaysSolvent(s, t) ==
    \A b \in Bridges(s) : \/ Backing(s, b) - Owed(s, b) <= Backing(t, b) - Owed(t, b)
                          \/ Owed(t, b) = 0

(* The numbers that a bridge account's solvency is about.                  *)
LEMMA ClaimTypes ==
    ASSUME TypeOK, NEW s, StateType(s), NEW b \in Bridges(s)
    PROVE  /\ b \in Accounts /\ s.bridges[b].asset \in Assets
           /\ s.balance[b][s.bridges[b].asset] \in Nat /\ s.paid[b] \in Nat
           /\ s.deposits[b] \in Nat /\ rollup.supply[b] \in Nat
           /\ Total(Open(s, b)) \in Nat /\ Own(s, b) \in Nat /\ shortfall.unbacked[b] \in Nat
           /\ Backing(s, b) \in Nat /\ Owed(s, b) \in Nat
<1>1. b \in Accounts /\ s.bridges[b] \in Bridge
  BY DEF StateType, Bridges
<1>2. /\ s.bridges[b].asset \in Assets
      /\ s.balance[b][s.bridges[b].asset] \in Nat /\ s.paid[b] \in Nat
      /\ s.deposits[b] \in Nat /\ rollup.supply[b] \in Nat /\ shortfall.unbacked[b] \in Nat
  BY <1>1 DEF StateType, Bridge, TypeOK
<1>3. Total(Open(s, b)) \in Nat
  BY OpenFacts
<1> QED BY <1>1, <1>2, <1>3 DEF Own, Backing, Owed

(* Then the bridge accounts that were solvent are.                         *)
LEMMA StillSolvent ==
    ASSUME TypeOK, NEW s, StateInv(s), NEW t, StateType(t), t.bridges = s.bridges,
           StaysSolvent(s, t), NEW b \in Bridges(t)
    PROVE  Backing(t, b) >= Owed(t, b)
<1>1. b \in Bridges(s) /\ Backing(s, b) >= Owed(s, b)
  BY DEF StateInv, Backed, Bridges
<1>2. Backing(s, b) - Owed(s, b) <= Backing(t, b) - Owed(t, b) \/ Owed(t, b) = 0
  BY <1>1 DEF StaysSolvent
<1>3. Backing(s, b) \in Nat /\ Backing(t, b) \in Nat
  BY <1>1, ClaimTypes DEF StateInv, Bridges
<1>4. Owed(s, b) \in Nat /\ Owed(t, b) \in Nat
  <2>1. b \in Accounts
    BY <1>1 DEF StateInv, StateType, Bridges
  <2>2. Total(Open(s, b)) \in Nat /\ Total(Open(t, b)) \in Nat
    BY OpenFacts
  <2> QED BY <2>1, <2>2 DEF Owed, StateInv, StateType, TypeOK
<1> QED BY <1>1, <1>2, <1>3, <1>4

(* What an action keeps of the invariant when it changes no bridge account *)
(* and the escrow only with what is under way.                             *)
LEMMA Preserves ==
    ASSUME TypeOK, NEW s, StateInv(s), NEW t, StateType(t), FreshIds(t),
           t.bridges = s.bridges,
           \A b \in Accounts \ Bridges(s) : t.deposits[b] = s.deposits[b],
           Escrowed(t), StaysSolvent(s, t)
    PROVE  StateInv(t)
<1>1. \A b \in Accounts \ Bridges(t) : NoClaims(t, b)
  BY DEF StateInv, NoClaims, Bridges
<1>2. ASSUME NEW b \in Bridges(t) PROVE Backing(t, b) >= Owed(t, b)
  BY <1>2, StillSolvent
<1> QED BY <1>1, <1>2 DEF StateInv, Backed

(* Where no fee is paid, a bridge account whose balance gains what is      *)
(* deposited, but for what is used of its rollup's withdrawals, is as      *)
(* solvent as before.                                                      *)
LEMMA Surplus ==
    ASSUME TypeOK, NEW s, StateType(s), NEW t, StateType(t),
           t.bridges = s.bridges, t.paid = s.paid, NEW b \in Bridges(s),
           NEW gains \in Nat, NEW uses \in Nat,
           Total(Open(t, b)) + uses <= Total(Open(s, b)),
           t.deposits[b] = s.deposits[b] + gains,
           t.balance[b][s.bridges[b].asset] + uses >= s.balance[b][s.bridges[b].asset] + gains
    PROVE  Backing(s, b) - Owed(s, b) <= Backing(t, b) - Owed(t, b)
<1>1. b \in Bridges(t)
  BY DEF Bridges
<1>2. /\ s.balance[b][s.bridges[b].asset] \in Nat /\ s.paid[b] \in Nat
      /\ s.deposits[b] \in Nat /\ rollup.supply[b] \in Nat
      /\ Total(Open(s, b)) \in Nat /\ Backing(s, b) \in Nat /\ Owed(s, b) \in Nat
  BY ClaimTypes
<1>3. /\ t.balance[b][s.bridges[b].asset] \in Nat
      /\ t.deposits[b] \in Nat
      /\ Total(Open(t, b)) \in Nat /\ Backing(t, b) \in Nat /\ Owed(t, b) \in Nat
  BY <1>1, ClaimTypes
<1>4. Backing(t, b) + uses >= Backing(s, b) + gains
  <2>1. shortfall.unbacked[b] \in Nat
    BY ClaimTypes
  <2> QED BY <1>2, <1>3, <2>1 DEF Own, Backing
<1>5. Owed(t, b) + uses <= Owed(s, b) + gains
  BY <1>2, <1>3 DEF Owed
<1> QED BY <1>2, <1>3, <1>4, <1>5

(* the invariant holds in t, and it accounts for the same funds as s *)
Kept(s, t) ==
    /\ StateInv(t) /\ t.bridges = s.bridges
    /\ \A asset \in Assets : Funds(t, asset) = Funds(s, asset)

-----------------------------------------------------------------------------
(* The actions of a transaction *)

(* Transfer: the signer is not a bridge account.                           *)
LEMMA TransferKeeps ==
    ASSUME TypeOK, NEW s, StateInv(s), NEW signer \in Accounts,
           NEW a, a.to \in Accounts, a.asset \in Assets, a.amount \in Nat,
           Transfer(s, signer, a) # << >>
    PROVE  Kept(s, Transfer(s, signer, a)[1])
<1> DEFINE t == Move(s, signer, a.to, a.asset, a.amount)
<1>1. /\ signer \notin Bridges(s) /\ s.balance[signer][a.asset] >= a.amount
      /\ Transfer(s, signer, a)[1] = t
  BY DEF Transfer, Ensure, MayTransfer
<1>2. StateType(s)
  BY DEF StateInv
<1>3. StateType(t) /\ Moved(s, t, signer, a.to, a.asset, a.amount)
  BY <1>1, <1>2, MoveFacts
<1> HIDE DEF t
<1>4. /\ t.bridges = s.bridges /\ t.used = s.used /\ t.deposits = s.deposits
      /\ t.fees = s.fees /\ t.paid = s.paid /\ t.escrow = s.escrow
      /\ t.packets = s.packets /\ t.sent = s.sent
  BY <1>3 DEF Moved
<1>5. ASSUME NEW b \in Bridges(s)
      PROVE  Backing(s, b) - Owed(s, b) <= Backing(t, b) - Owed(t, b)
  <2> DEFINE z == s.bridges[b].asset
  <2>1. /\ b \in Accounts /\ z \in Assets /\ s.balance[b][z] \in Nat
        /\ s.deposits[b] \in Nat /\ Total(Open(s, b)) \in Nat
    BY <1>2, ClaimTypes
  <2>2. b # signer
    BY <1>1
  <2>3. t.balance[b][z] + 0 >= s.balance[b][z] + 0
    <3> HIDE DEF z
    <3> QED BY <1>3, <2>1, <2>2 DEF Moved
  <2>4. t.deposits[b] = s.deposits[b] + 0 /\ Total(Open(t, b)) + 0 <= Total(Open(s, b))
    BY <1>4, <2>1, OpenSame
  <2> QED BY <1>2, <1>3, <1>4, <2>3, <2>4, Surplus
<1>6. StateInv(t)
  <2>1. FreshIds(t)
    BY <1>4 DEF FreshIds, StateInv
  <2>2. Escrowed(t)
    BY <1>4 DEF StateInv, Backed, Escrowed
  <2>3. StaysSolvent(s, t)
    BY <1>5 DEF StaysSolvent
  <2> QED BY <1>3, <1>4, <2>1, <2>2, <2>3, Preserves
<1>7. \A asset \in Assets : Funds(t, asset) = Funds(s, asset)
  BY <1>3, <1>4 DEF Funds, Moved
<1> QED BY <1>1, <1>4, <1>6, <1>7 DEF Kept

(* t is s with a deposit of amount for a bridge account *)
Deposited(s, t, bridge, amount) ==
    /\ t.balance = s.balance /\ t.bridges = s.bridges /\ t.used = s.used
    /\ t.fees = s.fees /\ t.paid = s.paid /\ t.escrow = s.escrow
    /\ t.packets = s.packets /\ t.sent = s.sent
    /\ \A b \in Accounts :
          t.deposits[b] = s.deposits[b] + (IF b = bridge THEN amount ELSE 0)

(* Recording a deposit.                                                    *)
LEMMA DepositFacts ==
    ASSUME NEW s, StateType(s), NEW bridge \in Accounts, NEW amount \in Nat
    PROVE  /\ StateType(Deposit(s, bridge, amount))
           /\ Deposited(s, Deposit(s, bridge, amount), bridge, amount)
<1> DEFINE t == Deposit(s, bridge, amount)
<1>1. s.deposits \in [Accounts -> Nat]
  BY DEF StateType
<1>2. t.deposits = [s.deposits EXCEPT ![bridge] = @ + amount]
  BY DEF Deposit, StateType
<1>3. t.deposits \in [Accounts -> Nat]
  BY <1>1, <1>2
<1>4. StateType(t)
  BY <1>3 DEF Deposit, StateType
<1>5. /\ t.balance = s.balance /\ t.bridges = s.bridges /\ t.used = s.used
      /\ t.fees = s.fees /\ t.paid = s.paid /\ t.escrow = s.escrow
      /\ t.packets = s.packets /\ t.sent = s.sent
  BY DEF Deposit, StateType
<1> HIDE DEF t
<1>6. \A b \in Accounts :
         t.deposits[b] = s.deposits[b] + (IF b = bridge THEN amount ELSE 0)
  BY <1>1, <1>2
<1>7. StateType(t) /\ Deposited(s, t, bridge, amount)
  BY <1>4, <1>5, <1>6 DEF Deposited
<1> QED BY <1>7 DEF t

(* Using a withdrawal event.                                               *)
LEMMA UseFacts ==
    ASSUME NEW s, StateType(s), NEW e \in Event
    PROVE  /\ StateType(Use(s, e))
           /\ Use(s, e) = [s EXCEPT !.used = s.used \cup {<<e.bridge, e.id>>}]
           /\ Use(s, e).used = s.used \cup {<<e.bridge, e.id>>}
           /\ Use(s, e).balance = s.balance /\ Use(s, e).bridges = s.bridges
           /\ Use(s, e).deposits = s.deposits /\ Use(s, e).fees = s.fees
           /\ Use(s, e).paid = s.paid /\ Use(s, e).escrow = s.escrow
           /\ Use(s, e).packets = s.packets /\ Use(s, e).sent = s.sent
<1>1. s.used \cup {<<e.bridge, e.id>>} \in SUBSET (Accounts \X Nat)
  BY DEF StateType, Event
<1> QED BY <1>1 DEF StateType, Use

(* execute_bridge_lock moves the signer's funds to the bridge account and  *)
(* deposits them.                                                          *)
LEMMA LockFacts ==
    ASSUME NEW s, StateType(s), NEW signer \in Accounts, NEW to \in Accounts,
           NEW asset \in Assets, NEW amount \in Nat,
           ExecuteBridgeLock(s, signer, to, asset, amount) # << >>
    PROVE  \E m : /\ StateType(m) /\ Moved(s, m, signer, to, asset, amount)
                  /\ StateType(ExecuteBridgeLock(s, signer, to, asset, amount)[1])
                  /\ Deposited(m, ExecuteBridgeLock(s, signer, to, asset, amount)[1], to, amount)
<1> DEFINE m == Move(s, signer, to, asset, amount)
           t == Deposit(m, to, amount)
<1>1. /\ s.balance[signer][asset] >= amount
      /\ ExecuteBridgeLock(s, signer, to, asset, amount)[1] = t
  BY DEF ExecuteBridgeLock, Ensure, MayTransfer
<1>2. StateType(m) /\ Moved(s, m, signer, to, asset, amount)
  BY <1>1, MoveFacts
<1> HIDE DEF m
<1>3. StateType(t) /\ Deposited(m, t, to, amount)
  BY <1>2, DepositFacts
<1> QED BY <1>1, <1>2, <1>3

(* the signer has used an event of its own for the amount, if the signer   *)
(* is a bridge account                                                     *)
UsesOwn(s, u, signer, amount) ==
    \A b \in Bridges(s) :
        Total(Open(u, b)) + (IF b = signer THEN amount ELSE 0) <= Total(Open(s, b))

(* A deposit of what was moved to a bridge account keeps it solvent; a     *)
(* bridge account that pays has used an event of its own.                  *)
LEMMA LockKeeps ==
    ASSUME TypeOK, NEW s, StateInv(s), NEW u, StateType(u), FreshIds(u),
           u.balance = s.balance, u.bridges = s.bridges, u.deposits = s.deposits,
           u.fees = s.fees, u.paid = s.paid, u.escrow = s.escrow, u.packets = s.packets,
           NEW signer \in Accounts, NEW to \in Bridges(s), NEW amount \in Nat,
           UsesOwn(s, u, signer, amount),
           signer \in Bridges(s) => s.bridges[signer].asset = s.bridges[to].asset,
           ExecuteBridgeLock(u, signer, to, s.bridges[to].asset, amount) # << >>
    PROVE  Kept(s, ExecuteBridgeLock(u, signer, to, s.bridges[to].asset, amount)[1])
<1>1. StateType(s)
  BY DEF StateInv
<1> DEFINE asset == s.bridges[to].asset
<1>2. asset \in Assets /\ to \in Accounts
  BY <1>1, ClaimTypes
<1> HIDE DEF asset
<1> DEFINE t == ExecuteBridgeLock(u, signer, to, asset, amount)[1]
<1>3. ExecuteBridgeLock(u, signer, to, asset, amount) # << >>
  BY DEF asset
<1>4. PICK m : /\ StateType(m) /\ Moved(u, m, signer, to, asset, amount)
               /\ StateType(t) /\ Deposited(m, t, to, amount)
  BY <1>2, <1>3, LockFacts
<1> HIDE DEF t
<1>5. /\ t.bridges = s.bridges /\ t.used = u.used /\ t.fees = s.fees /\ t.paid = s.paid
      /\ t.escrow = s.escrow /\ t.packets = s.packets /\ t.sent = u.sent
      /\ t.balance = m.balance
  BY <1>4 DEF Moved, Deposited
<1>6. \A b \in Accounts :
         t.deposits[b] = s.deposits[b] + (IF b = to THEN amount ELSE 0)
  BY <1>4 DEF Moved, Deposited
<1>7. ASSUME NEW b \in Bridges(s)
      PROVE  Backing(s, b) - Owed(s, b) <= Backing(t, b) - Owed(t, b)
  <2> DEFINE z == s.bridges[b].asset
  <2>1. b \in Accounts /\ z \in Assets /\ s.balance[b][z] \in Nat
    BY <1>1, ClaimTypes
  <2>2. Total(Open(t, b)) + (IF b = signer THEN amount ELSE 0) <= Total(Open(s, b))
    <3>1. Open(t, b) = Open(u, b)
      BY <1>5, OpenSame
    <3> QED BY <3>1 DEF UsesOwn
  <2>3. t.deposits[b] = s.deposits[b] + (IF b = to THEN amount ELSE 0)
    BY <1>6, <2>1
  <2>4. b = to \/ b = signer => z = asset
    BY DEF asset
  <2>5. t.balance[b][z] + (IF b = signer THEN amount ELSE 0)
           >= s.balance[b][z] + (IF b = to THEN amount ELSE 0)
    <3> HIDE DEF z
    <3>1. t.balance[b][z] = IF z # asset \/ signer = to THEN s.balance[b][z]
                            ELSE IF b = signer THEN s.balance[b][z] - amount
                            ELSE IF b = to THEN s.balance[b][z] + amount
                            ELSE s.balance[b][z]
      BY <1>4, <1>5, <2>1 DEF Moved
    <3> QED BY <2>1, <2>4, <3>1
  <2> DEFINE gains == IF b = to THEN amount ELSE 0
             uses == IF b = signer THEN amount ELSE 0
  <2>6. gains \in Nat /\ uses \in Nat
    OBVIOUS
  <2>7. /\ Total(Open(t, b)) + uses <= Total(Open(s, b))
        /\ t.deposits[b] = s.deposits[b] + gains
        /\ t.balance[b][s.bridges[b].asset] + uses >= s.balance[b][s.bridges[b].asset] + gains
    BY <2>2, <2>3, <2>5
  <2> HIDE DEF gains, uses
  <2> QED BY <1>1, <1>4, <1>5, <2>6, <2>7, Surplus
<1>8. StateInv(t)
  <2>1. FreshIds(t)
    BY <1>5 DEF FreshIds
  <2>2. Escrowed(t)
    BY <1>5 DEF StateInv, Backed, Escrowed
  <2>3. \A b \in Accounts \ Bridges(s) : t.deposits[b] = s.deposits[b]
    <3>1. \A b \in Accounts : s.deposits[b] \in Nat
      BY <1>1 DEF StateType
    <3> QED BY <1>6, <3>1
  <2>4. StaysSolvent(s, t)
    BY <1>7 DEF StaysSolvent
  <2> QED BY <1>4, <1>5, <2>1, <2>2, <2>3, <2>4, Preserves
<1>9. \A x \in Assets : Funds(t, x) = Funds(s, x)
  BY <1>4, <1>5 DEF Funds, Moved
<1>10. Kept(s, t)
  BY <1>5, <1>8, <1>9 DEF Kept
<1> QED BY <1>10 DEF t, asset

(* BridgeLock                                                              *)
LEMMA BridgeLockKeeps ==
    ASSUME TypeOK, NEW s, StateInv(s), NEW signer \in Accounts,
           NEW a, a.to \in Accounts, a.asset \in Assets, a.amount \in Nat,
           BridgeLock(s, signer, a) # << >>
    PROVE  Kept(s, BridgeLock(s, signer, a)[1])
<1>1. /\ signer \notin Bridges(s) /\ a.to \in Bridges(s) /\ s.bridges[a.to].asset = a.asset
      /\ BridgeLock(s, signer, a) = ExecuteBridgeLock(s, signer, a.to, a.asset, a.amount)
  BY DEF BridgeLock
<1>2. StateType(s) /\ FreshIds(s)
  BY DEF StateInv
<1>3. ASSUME NEW b \in Bridges(s)
      PROVE  Total(Open(s, b)) + (IF b = signer THEN a.amount ELSE 0) <= Total(Open(s, b))
  <2>1. b # signer /\ Total(Open(s, b)) \in Nat
    BY <1>1, OpenFacts
  <2> QED BY <2>1
<1>4. UsesOwn(s, s, signer, a.amount)
  BY <1>3 DEF UsesOwn
<1> QED BY <1>1, <1>2, <1>4, LockKeeps

(* BridgeTransfer: the signer pays, whose own bridge account the event is  *)
(* of, if the signer is one.                                               *)
LEMMA BridgeTransferKeeps ==
    ASSUME TypeOK, EventsInv, NEW s, StateInv(s), NEW signer \in Accounts,
           NEW a, a.to \in Accounts, NEW e \in rollup.events, a.event = <<e>>,
           signer \in Bridges(s) => e.bridge = signer,
           BridgeTransfer(s, signer, a) # << >>
    PROVE  Kept(s, BridgeTransfer(s, signer, a)[1])
<1>1. a.event[1] = e /\ e \in Event
  BY DEF TypeOK
<1>2. /\ e.bridge \in Bridges(s) /\ a.to \in Bridges(s)
      /\ s.bridges[e.bridge].asset = s.bridges[a.to].asset /\ Unused(s, e)
      /\ BridgeTransfer(s, signer, a) =
            ExecuteBridgeLock(Use(s, e), signer, a.to, s.bridges[a.to].asset, e.amount)
  BY <1>1 DEF BridgeTransfer
<1>3. StateType(s) /\ FreshIds(s)
  BY DEF StateInv
<1> DEFINE u == Use(s, e)
<1>4. /\ StateType(u) /\ u.used = s.used \cup {<<e.bridge, e.id>>}
      /\ u.balance = s.balance /\ u.bridges = s.bridges /\ u.deposits = s.deposits
      /\ u.fees = s.fees /\ u.paid = s.paid /\ u.escrow = s.escrow
      /\ u.packets = s.packets /\ u.sent = s.sent
  BY <1>1, <1>3, UseFacts
<1> HIDE DEF u
<1>5. FreshIds(u)
  <2>1. e.id < Cardinality(rollup.events)
    BY DEF EventsInv
  <2> QED BY <1>3, <1>4, <2>1 DEF FreshIds
<1>6. e.amount \in Nat
  BY <1>1 DEF Event
<1>7. ASSUME NEW b \in Bridges(s)
      PROVE  Total(Open(u, b)) + (IF b = signer THEN e.amount ELSE 0) <= Total(Open(s, b))
  <2>1. Total(Open(s, b)) = Total(Open(u, b)) + (IF e.bridge = b THEN e.amount ELSE 0)
    BY <1>2, <1>4, OpenUse
  <2>2. Total(Open(u, b)) \in Nat
    BY OpenFacts
  <2>3. b = signer => e.bridge = b
    BY <1>7
  <2> QED BY <1>6, <2>1, <2>2, <2>3
<1>8. signer \in Bridges(s) => s.bridges[signer].asset = s.bridges[a.to].asset
  BY <1>2
<1>9. BridgeTransfer(s, signer, a) =
         ExecuteBridgeLock(u, signer, a.to, s.bridges[a.to].asset, e.amount)
  BY <1>2 DEF u
<1>10. ExecuteBridgeLock(u, signer, a.to, s.bridges[a.to].asset, e.amount) # << >>
  BY <1>9
<1>11. UsesOwn(s, u, signer, e.amount)
  BY <1>7 DEF UsesOwn
<1>12. Kept(s, ExecuteBridgeLock(u, signer, a.to, s.bridges[a.to].asset, e.amount)[1])
  BY <1>2, <1>4, <1>5, <1>6, <1>8, <1>10, <1>11, LockKeeps
<1> QED BY <1>9, <1>12

(* BridgeUnlock: what the bridge account pays out was an open withdrawal.  *)
LEMMA BridgeUnlockKeeps ==
    ASSUME TypeOK, EventsInv, NEW s, StateInv(s), NEW signer \in Accounts,
           NEW a, a.to \in Accounts, NEW e \in rollup.events, a.event = <<e>>,
           BridgeUnlock(s, signer, a) # << >>
    PROVE  Kept(s, BridgeUnlock(s, signer, a)[1])
<1>1. a.event[1] = e /\ e \in Event
  BY DEF TypeOK
<1> DEFINE asset == s.bridges[e.bridge].asset
           u == Use(s, e)
           t == Move(u, e.bridge, a.to, asset, e.amount)
<1>2. /\ e.bridge \in Bridges(s) /\ a.to \notin Bridges(s) /\ Unused(s, e)
      /\ s.balance[e.bridge][asset] >= e.amount
      /\ BridgeUnlock(s, signer, a)[1] = t
  BY <1>1 DEF BridgeUnlock, Ensure, MayTransfer
<1>3. StateType(s) /\ FreshIds(s)
  BY DEF StateInv
<1>4. /\ StateType(u) /\ u.used = s.used \cup {<<e.bridge, e.id>>}
      /\ u.balance = s.balance /\ u.bridges = s.bridges /\ u.deposits = s.deposits
      /\ u.fees = s.fees /\ u.paid = s.paid /\ u.escrow = s.escrow
      /\ u.packets = s.packets /\ u.sent = s.sent
  BY <1>1, <1>3, UseFacts
<1>5. e.bridge \in Accounts /\ asset \in Assets /\ e.amount \in Nat
  BY <1>1, <1>2, <1>3, ClaimTypes DEF Event
<1> HIDE DEF u, asset
<1>6. StateType(t) /\ Moved(u, t, e.bridge, a.to, asset, e.amount)
  BY <1>2, <1>4, <1>5, MoveFacts
<1> HIDE DEF t
<1>7. /\ t.bridges = s.bridges /\ t.used = s.used \cup {<<e.bridge, e.id>>}
      /\ t.deposits = s.deposits /\ t.fees = s.fees /\ t.paid = s.paid
      /\ t.escrow = s.escrow /\ t.packets = s.packets /\ t.sent = s.sent
  BY <1>4, <1>6 DEF Moved
<1>8. ASSUME NEW b \in Bridges(s)
      PROVE  Backing(s, b) - Owed(s, b) <= Backing(t, b) - Owed(t, b)
  <2> DEFINE z == s.bridges[b].asset
             uses == IF e.bridge = b THEN e.amount ELSE 0
  <2>1. /\ b \in Accounts /\ z \in Assets /\ s.balance[b][z] \in Nat
        /\ s.deposits[b] \in Nat /\ Total(Open(s, b)) \in Nat /\ Total(Open(t, b)) \in Nat
    BY <1>3, ClaimTypes, OpenFacts
  <2>2. Total(Open(s, b)) = Total(Open(t, b)) + uses
    BY <1>2, <1>7, OpenUse
  <2>3. uses \in Nat /\ t.deposits[b] = s.deposits[b] + 0
    BY <1>5, <1>7, <2>1
  <2>4. t.balance[b][z] + uses >= s.balance[b][z] + 0
    <3>1. b # a.to /\ (b = e.bridge => z = asset)
      BY <1>2 DEF asset
    <3> HIDE DEF z
    <3>2. t.balance[b][z] = IF z # asset \/ e.bridge = a.to THEN s.balance[b][z]
                            ELSE IF b = e.bridge THEN s.balance[b][z] - e.amount
                            ELSE IF b = a.to THEN s.balance[b][z] + e.amount
                            ELSE s.balance[b][z]
      BY <1>4, <1>6, <2>1 DEF Moved
    <3> QED BY <1>5, <2>1, <3>1, <3>2
  <2>5. Total(Open(t, b)) + uses <= Total(Open(s, b))
    BY <2>1, <2>2
  <2> HIDE DEF uses
  <2> QED BY <1>3, <1>6, <1>7, <2>3, <2>4, <2>5, Surplus
<1>9. StateInv(t)
  <2>1. FreshIds(t)
    <3>1. e.id < Cardinality(rollup.events)
      BY DEF EventsInv
    <3> QED BY <1>3, <1>7, <3>1 DEF FreshIds
  <2>2. Escrowed(t)
    BY <1>7 DEF StateInv, Backed, Escrowed
  <2>3. StaysSolvent(s, t)
    BY <1>8 DEF StaysSolvent
  <2> QED BY <1>6, <1>7, <2>1, <2>2, <2>3, Preserves
<1>10. \A x \in Assets : Funds(t, x) = Funds(s, x)
  BY <1>4, <1>6, <1>7 DEF Funds, Moved
<1> QED BY <1>2, <1>7, <1>9, <1>10 DEF Kept

(* s after a packet is sent *)
Sent(s, from, p, used, toEscrow) ==
    [s EXCEPT !.balance[from][p.asset] = @ - p.amount, !.used = used,
              !.escrow[p.asset] = IF toEscrow THEN @ + p.amount ELSE @,
              !.packets = @ \cup {p}, !.sent = @ + 1]

(* t has the packet p under way, and the funds of s *)
UnderWay(s, t, from, p, used, toEscrow) ==
    /\ t.bridges = s.bridges /\ t.used = used /\ t.deposits = s.deposits
    /\ t.fees = s.fees /\ t.paid = s.paid
    /\ t.escrow[Native] = s.escrow[Native] + (IF toEscrow /\ p.asset = Native THEN p.amount ELSE 0)
    /\ \A q \in t.packets : q.id < t.sent
    /\ \A b \in Accounts, z \in Assets :
          t.balance[b][z] = s.balance[b][z] - (IF b = from /\ z = p.asset THEN p.amount ELSE 0)
    /\ \A z \in Assets :
          InFlight(t.packets, z) = InFlight(s.packets, z) + (IF z = p.asset THEN p.amount ELSE 0)
    /\ InFlight(Traced(t.packets), Native) = InFlight(Traced(s.packets), Native)
          + (IF p.form = "trace" /\ p.asset = Native THEN p.amount ELSE 0)
    /\ \A z \in Assets : Funds(t, z) = Funds(s, z)

(* What a withdrawal over IBC takes from an account is under way in its    *)
(* packet.                                                                 *)
LEMMA SentFacts ==
    ASSUME NEW s, StateType(s), FreshIds(s), NEW p \in IbcPacket, p.id = s.sent, NEW from \in Accounts,
           NEW used \in SUBSET (Accounts \X Nat), NEW toEscrow \in BOOLEAN,
           s.balance[from][p.asset] >= p.amount
    PROVE  /\ StateType(Sent(s, from, p, used, toEscrow))
           /\ UnderWay(s, Sent(s, from, p, used, toEscrow), from, p, used, toEscrow)
<1> DEFINE t == Sent(s, from, p, used, toEscrow)
<1>1. /\ p.asset \in Assets /\ p.amount \in Nat
      /\ s.balance \in [Accounts -> [Assets -> Nat]] /\ s.escrow \in [Assets -> Nat]
      /\ s.sent \in Nat /\ s.packets \in SUBSET IbcPacket /\ IsFiniteSet(s.packets)
  BY DEF StateType, IbcPacket
<1>2. s.balance[from][p.asset] - p.amount \in Nat
  BY <1>1
<1>3. /\ t.balance = [s.balance EXCEPT ![from][p.asset] = @ - p.amount]
      /\ t.escrow = [s.escrow EXCEPT ![p.asset] = IF toEscrow THEN @ + p.amount ELSE @]
      /\ t.packets = s.packets \cup {p} /\ t.sent = s.sent + 1 /\ t.used = used
      /\ t.bridges = s.bridges /\ t.deposits = s.deposits
      /\ t.fees = s.fees /\ t.paid = s.paid
  BY DEF StateType, Sent
<1>4. t.balance \in [Accounts -> [Assets -> Nat]] /\ t.escrow \in [Assets -> Nat]
  BY <1>1, <1>2, <1>3
<1>5. t.packets \in SUBSET IbcPacket /\ IsFiniteSet(t.packets) /\ t.sent \in Nat
  <2>1. IsFiniteSet(s.packets \cup {p})
    BY <1>1, FS_AddElement
  <2> QED BY <1>1, <1>3, <2>1
<1>6. StateType(t)
  BY <1>3, <1>4, <1>5 DEF StateType, Sent
<1> HIDE DEF t
<1>7. \A b \in Accounts, z \in Assets :
         t.balance[b][z] = s.balance[b][z] - (IF b = from /\ z = p.asset THEN p.amount ELSE 0)
  BY <1>1, <1>3
<1>8. t.escrow[Native] = s.escrow[Native] + (IF toEscrow /\ p.asset = Native THEN p.amount ELSE 0)
  <2>1. Native \in Assets
    BY DEF Assets
  <2> QED BY <1>1, <1>3, <2>1
<1>9. \A q \in t.packets : q.id < t.sent
  <2>1. \A q \in s.packets : q.id \in Nat /\ q.id < s.sent
    BY <1>1 DEF FreshIds, IbcPacket
  <2> QED BY <1>1, <1>3, <2>1
<1>10. ASSUME NEW z \in Assets
       PROVE  /\ InFlight(t.packets, z) = InFlight(s.packets, z) + (IF z = p.asset THEN p.amount ELSE 0)
              /\ InFlight(s.packets, z) \in Nat
  <2>1. p \notin s.packets
    BY <1>1 DEF FreshIds
  <2>2. t.packets \ {p} = s.packets /\ p \in t.packets
    BY <1>3, <2>1
  <2>3. (\A q \in t.packets : q.amount \in Nat) /\ (\A q \in s.packets : q.amount \in Nat)
    BY <1>1, <1>5 DEF IbcPacket
  <2>4. InFlight(t.packets, z)
           = InFlight(t.packets \ {p}, z) + (IF p.asset = z THEN p.amount ELSE 0)
    BY <1>5, <2>2, <2>3, InFlightFacts
  <2>5. InFlight(s.packets, z) \in Nat
    BY <1>1, <2>3, InFlightFacts
  <2> QED BY <2>2, <2>4, <2>5
<1>11. ASSUME NEW z \in Assets PROVE Funds(t, z) = Funds(s, z)
  <2> DEFINE x == from
             asset == p.asset
             amount == p.amount
  <2>1. /\ x \in Accounts /\ asset \in Assets /\ amount \in Nat
        /\ \A b \in Accounts, y \in Assets :
              t.balance[b][y] = s.balance[b][y] - (IF b = x /\ y = asset THEN amount ELSE 0)
    BY <1>1, <1>7
  <2>2. /\ InFlight(t.packets, z) = InFlight(s.packets, z) + (IF z = asset THEN amount ELSE 0)
        /\ InFlight(s.packets, z) \in Nat
    BY <1>10
  <2> HIDE DEF x, asset, amount
  <2>3. \A y \in Assets : /\ Held(s.balance, y) = Held(t.balance, y) + (IF y = asset THEN amount ELSE 0)
                          /\ Held(t.balance, y) \in Nat
    <3> DEFINE old == t.balance
               new == s.balance
    <3>1. GrowsBy(old, new, x, asset, amount)
      BY <1>1, <1>4, <2>1 DEF GrowsBy, ChangesOnly
    <3> HIDE DEF old, new
    <3>2. \A y \in Assets : /\ Held(new, y) = Held(old, y) + (IF y = asset THEN amount ELSE 0)
                            /\ Held(old, y) \in Nat
      BY <2>1, <3>1, HeldMore
    <3> QED BY <3>2 DEF old, new
  <2>4. t.fees \in Nat /\ s.fees \in Nat /\ t.fees = s.fees
    BY <1>3, <1>6 DEF StateType
  <2>5. CASE z = asset
    <3>1. /\ Held(s.balance, z) = Held(t.balance, z) + amount /\ Held(t.balance, z) \in Nat
          /\ InFlight(t.packets, z) = InFlight(s.packets, z) + amount
      BY <2>2, <2>3, <2>5
    <3> QED BY <2>1, <2>2, <2>4, <3>1 DEF Funds
  <2>6. CASE z # asset
    <3>1. Held(s.balance, z) = Held(t.balance, z) /\ InFlight(t.packets, z) = InFlight(s.packets, z)
      BY <2>2, <2>3, <2>6
    <3> QED BY <2>4, <3>1 DEF Funds
  <2> QED BY <2>5, <2>6
<1>12. InFlight(Traced(t.packets), Native) = InFlight(Traced(s.packets), Native)
          + (IF p.form = "trace" /\ p.asset = Native THEN p.amount ELSE 0)
  <2>1. p \notin s.packets
    BY <1>1 DEF FreshIds
  <2>2. t.packets \ {p} = s.packets /\ p \in t.packets
    BY <1>3, <2>1
  <2>3. \A q \in t.packets : q.amount \in Nat
    BY <1>5 DEF IbcPacket
  <2>4. \A q \in t.packets : InFlight(Traced(t.packets), Native)
           = InFlight(Traced(t.packets \ {q}), Native)
               + (IF q.form = "trace" /\ q.asset = Native THEN q.amount ELSE 0)
    BY <1>5, <2>3, TracedFacts
  <2> QED BY <2>2, <2>4
<1>13. StateType(t) /\ UnderWay(s, t, from, p, used, toEscrow)
  BY <1>3, <1>6, <1>7, <1>8, <1>9, <1>10, <1>11, <1>12 DEF UnderWay
<1> QED BY <1>13 DEF t

(* Ics20Withdrawal of the signer's own funds, or of an open withdrawal of  *)
(* a bridge account.                                                       *)
LEMMA WithdrawalKeeps ==
    ASSUME TypeOK, EventsInv, NEW s, StateInv(s), NEW signer \in Accounts,
           NEW a, a.asset \in Assets, a.form \in Forms, a.amount \in Nat,
           a.back \in Accounts, a.memo \in BOOLEAN,
           \/ a.event = << >>
           \/ \E e \in rollup.events : /\ a.event = <<e>> /\ a.amount = e.amount
                                       /\ a.asset = s.bridges[e.bridge].asset,
           Ics20Withdrawal(s, signer, a) # << >>
    PROVE  Kept(s, Ics20Withdrawal(s, signer, a)[1])
<1>1. StateType(s) /\ FreshIds(s)
  BY DEF StateInv
<1> DEFINE p == Packet(s, a)
           from == WithdrawalTarget(signer, a)
           used == IF FromBridge(a) THEN Use(s, a.event[1]).used ELSE s.used
           toEscrow == IsSource(a.asset, a.form)
           t == Sent(s, from, p, used, toEscrow)
<1>2. /\ p.asset = a.asset /\ p.form = a.form /\ p.amount = a.amount /\ p.id = s.sent
  BY DEF Packet
<1>3. /\ FromBridge(a) => Unused(s, a.event[1])
      /\ MayWithdraw(s, signer, a)
      /\ s.balance[from][p.asset] >= p.amount
      /\ Ics20Withdrawal(s, signer, a)[1] = t
  BY <1>2 DEF Ics20Withdrawal, Ensure, Sent
<1>4. toEscrow \in BOOLEAN /\ (toEscrow <=> a.form = "trace" /\ a.asset = Native)
  BY DEF IsSource
<1>5. ASSUME a.event = << >>
      PROVE  used = s.used /\ from = signer /\ signer \notin Bridges(s) /\ ~ FromBridge(a)
  BY <1>2, <1>3, <1>5 DEF FromBridge, MayWithdraw, WithdrawalTarget
<1>6. ASSUME NEW e \in rollup.events, a.event = <<e>>, a.amount = e.amount
      PROVE  /\ used = s.used \cup {<<e.bridge, e.id>>} /\ from = e.bridge
             /\ e.bridge \in Bridges(s) /\ Unused(s, e) /\ e \in Event /\ FromBridge(a)
  <2>1. FromBridge(a) /\ a.event[1] = e /\ e \in Event
    BY <1>6 DEF FromBridge, TypeOK
  <2>2. Use(s, e).used = s.used \cup {<<e.bridge, e.id>>}
    BY <1>1, <2>1, UseFacts
  <2> QED BY <1>2, <1>3, <2>1, <2>2 DEF MayWithdraw, WithdrawalTarget
<1>7. p \in IbcPacket /\ from \in Accounts /\ used \in SUBSET (Accounts \X Nat)
  <2>1. s.sent \in Nat /\ s.used \in SUBSET (Accounts \X Nat)
    BY <1>1 DEF StateType
  <2>2. from \in Accounts /\ used \in SUBSET (Accounts \X Nat)
    <3>1. CASE a.event = << >>
      BY <1>5, <2>1, <3>1
    <3>2. CASE a.event # << >>
      <4>1. PICK e \in rollup.events : a.event = <<e>> /\ a.amount = e.amount
        BY <3>2
      <4>2. /\ used = s.used \cup {<<e.bridge, e.id>>} /\ from = e.bridge
            /\ e.bridge \in Bridges(s) /\ Unused(s, e) /\ e \in Event
        BY <1>6, <4>1
      <4> HIDE DEF used, from
      <4> QED BY <2>1, <4>2 DEF Event
    <3> QED BY <3>1, <3>2
  <2>3. p \in IbcPacket
    BY <2>1 DEF Packet, IbcPacket
  <2> QED BY <2>2, <2>3
<1> HIDE DEF p, from, used, toEscrow
<1>8. /\ StateType(t) /\ t.bridges = s.bridges /\ t.used = used /\ t.deposits = s.deposits
      /\ t.fees = s.fees /\ t.paid = s.paid
      /\ t.escrow[Native] = s.escrow[Native] + (IF toEscrow /\ p.asset = Native THEN p.amount ELSE 0)
      /\ \A q \in t.packets : q.id < t.sent
      /\ \A b \in Accounts, z \in Assets :
            t.balance[b][z] = s.balance[b][z] - (IF b = from /\ z = p.asset THEN p.amount ELSE 0)
      /\ InFlight(Traced(t.packets), Native) = InFlight(Traced(s.packets), Native)
            + (IF p.form = "trace" /\ p.asset = Native THEN p.amount ELSE 0)
      /\ \A z \in Assets : Funds(t, z) = Funds(s, z)
  <2>1. StateType(t) /\ UnderWay(s, t, from, p, used, toEscrow)
    BY <1>1, <1>2, <1>3, <1>4, <1>7, SentFacts
  <2> HIDE DEF t
  <2> QED BY <2>1 DEF UnderWay
<1> HIDE DEF t
<1>9. ASSUME NEW b \in Bridges(s)
      PROVE  Backing(s, b) - Owed(s, b) <= Backing(t, b) - Owed(t, b)
  <2> DEFINE z == s.bridges[b].asset
  <2>1. /\ b \in Accounts /\ z \in Assets /\ s.balance[b][z] \in Nat
        /\ s.deposits[b] \in Nat /\ Total(Open(s, b)) \in Nat /\ Total(Open(t, b)) \in Nat
    BY <1>1, ClaimTypes, OpenFacts
  <2>2. t.deposits[b] = s.deposits[b] + 0
    BY <1>8, <2>1
  <2>3. CASE a.event = << >>
    <3>1. b # from /\ t.used = s.used
      BY <1>5, <1>8, <2>3
    <3>2. Total(Open(t, b)) + 0 <= Total(Open(s, b))
      BY <2>1, <3>1, OpenSame
    <3>3. t.balance[b][z] + 0 >= s.balance[b][z] + 0
      <4> HIDE DEF z
      <4> QED BY <1>8, <2>1, <3>1
    <3> QED BY <1>1, <1>8, <2>2, <3>2, <3>3, Surplus
  <2>4. CASE a.event # << >>
    <3>1. PICK e \in rollup.events : /\ a.event = <<e>> /\ a.amount = e.amount
                                     /\ a.asset = s.bridges[e.bridge].asset
      BY <2>4
    <3>2. /\ used = s.used \cup {<<e.bridge, e.id>>} /\ from = e.bridge
          /\ Unused(s, e) /\ e \in Event
      BY <1>6, <3>1
    <3> DEFINE uses == IF e.bridge = b THEN e.amount ELSE 0
    <3>3. uses \in Nat
      BY <3>2 DEF Event
    <3>4. Total(Open(s, b)) = Total(Open(t, b)) + uses
      BY <1>8, <3>2, OpenUse
    <3>5. t.balance[b][z] + uses >= s.balance[b][z] + 0
      <4>1. (b = from <=> b = e.bridge) /\ p.amount = e.amount
        BY <1>2, <3>1, <3>2
      <4>2. e.amount \in Nat
        BY <3>2 DEF Event
      <4> HIDE DEF z
      <4>3. t.balance[b][z] = s.balance[b][z] - (IF b = from /\ z = p.asset THEN p.amount ELSE 0)
        BY <1>8, <2>1
      <4> QED BY <2>1, <4>1, <4>2, <4>3
    <3> HIDE DEF uses
    <3>6. Total(Open(t, b)) + uses <= Total(Open(s, b))
      BY <2>1, <3>3, <3>4
    <3> QED BY <1>1, <1>8, <2>2, <3>3, <3>5, <3>6, Surplus
  <2> QED BY <2>3, <2>4
<1>10. FreshIds(t)
  <2>1. CASE a.event = << >>
    BY <1>1, <1>5, <1>8, <2>1 DEF FreshIds
  <2>2. CASE a.event # << >>
    <3>1. PICK e \in rollup.events : a.event = <<e>> /\ a.amount = e.amount
      BY <2>2
    <3>2. t.used = s.used \cup {<<e.bridge, e.id>>} /\ e.id < Cardinality(rollup.events)
      BY <1>6, <1>8, <3>1 DEF EventsInv
    <3> QED BY <1>1, <1>8, <3>2 DEF FreshIds
  <2> QED BY <2>1, <2>2
<1>11. Escrowed(t)
  <2>1. s.escrow[Native] + shortfall.lent
           = InFlight(Traced(s.packets), Native) + outside.held[Native]
    BY DEF StateInv, Backed, Escrowed
  <2>2. s.escrow[Native] \in Nat /\ shortfall.lent \in Nat /\ outside.held[Native] \in Nat
    BY <1>1 DEF TypeOK, StateType, Assets
  <2>3. InFlight(Traced(s.packets), Native) \in Nat
    <3>1. IsFiniteSet(s.packets) /\ \A q \in s.packets : q.amount \in Nat
      BY <1>1 DEF StateType, IbcPacket
    <3> QED BY <3>1, TracedFacts
  <2> DEFINE sent == IF p.form = "trace" /\ p.asset = Native THEN p.amount ELSE 0
  <2>4. InFlight(Traced(t.packets), Native) = InFlight(Traced(s.packets), Native) + sent
    BY <1>8
  <2>5. t.escrow[Native] = s.escrow[Native] + sent
    BY <1>2, <1>4, <1>8
  <2>6. sent \in Nat
    BY <1>2
  <2> HIDE DEF sent
  <2>7. t.escrow[Native] + shortfall.lent
           = InFlight(Traced(t.packets), Native) + outside.held[Native]
    BY SMTT(30), <2>1, <2>2, <2>3, <2>4, <2>5, <2>6
  <2> QED BY <2>7 DEF Escrowed
<1>12. StateInv(t)
  <2>1. StaysSolvent(s, t)
    BY <1>9 DEF StaysSolvent
  <2> QED BY <1>8, <1>10, <1>11, <2>1, Preserves
<1> QED BY <1>3, <1>8, <1>12 DEF Kept

(* A rollup without claims is owed nothing.                                *)
LEMMA NothingOwed ==
    ASSUME NEW s, NEW b, NoClaims(s, b)
    PROVE  Owed(s, b) = 0
<1>1. Open(s, b) = {}
  BY DEF Open, NoClaims
<1>2. IsFiniteSet({}) /\ \A e \in {} : e.amount \in Nat
  BY FS_EmptySet
<1>3. Total({}) = 0
  BY <1>2, TotalFacts
<1> QED BY <1>1, <1>3 DEF Owed, NoClaims

(* check_and_pay_fees: what a bridge account pays of its rollup's backing  *)
(* is accounted for in paid, and an account that has just become one has   *)
(* no rollup with claims.                                                  *)
LEMMA PayFeesKeeps ==
    ASSUME TypeOK, NEW s, StateInv(s), NEW signer \in Accounts, NEW isBridge \in BOOLEAN,
           s.balance[signer][Native] >= BaseFee,
           signer \in Bridges(s) => isBridge \/ NoClaims(s, signer)
    PROVE  Kept(s, PayFees(s, signer, isBridge))
<1> DEFINE t == PayFees(s, signer, isBridge)
<1>1. /\ StateType(s) /\ FreshIds(s) /\ BaseFee \in Nat /\ Native \in Assets
      /\ s.balance \in [Accounts -> [Assets -> Nat]] /\ s.paid \in [Accounts -> Nat]
      /\ s.fees \in Nat
  BY LedgerAssumption DEF StateInv, StateType, Assets
<1>2. s.balance[signer][Native] - BaseFee \in Nat
  BY <1>1
<1>3. /\ t.balance = [s.balance EXCEPT ![signer][Native] = @ - BaseFee]
      /\ t.paid = [s.paid EXCEPT ![signer] = IF isBridge THEN @ + BaseFee ELSE @]
      /\ t.fees = s.fees + BaseFee
      /\ t.bridges = s.bridges /\ t.used = s.used /\ t.deposits = s.deposits
      /\ t.escrow = s.escrow /\ t.packets = s.packets /\ t.sent = s.sent
  BY <1>1 DEF StateType, PayFees
<1>4. /\ t.balance \in [Accounts -> [Assets -> Nat]] /\ t.paid \in [Accounts -> Nat]
      /\ t.fees \in Nat
  BY <1>1, <1>2, <1>3
<1>5. StateType(t)
  BY <1>1, <1>3, <1>4 DEF StateType, PayFees
<1> HIDE DEF t
<1>6. ASSUME NEW b \in Bridges(s)
      PROVE  \/ Backing(s, b) - Owed(s, b) <= Backing(t, b) - Owed(t, b)
             \/ Owed(t, b) = 0
  <2> DEFINE z == s.bridges[b].asset
  <2>1. /\ b \in Accounts /\ z \in Assets /\ s.balance[b][z] \in Nat
        /\ s.paid[b] \in Nat /\ Owed(s, b) \in Nat
    BY <1>1, ClaimTypes
  <2>2. Owed(t, b) = Owed(s, b)
    BY <1>3, OpenSame DEF Owed
  <2>3. CASE b = signer /\ ~ isBridge
    BY <2>2, <2>3, NothingOwed
  <2>4. CASE ~ (b = signer /\ ~ isBridge)
    <3>1. Backing(t, b) = Backing(s, b)
      <4>1. t.bridges[b].asset = z
        BY <1>3
      <4>2. CASE b # signer
        BY <1>1, <1>3, <2>1, <4>1, <4>2 DEF Own, Backing
      <4>3. CASE b = signer /\ isBridge
        <5> HIDE DEF z
        <5>1. t.paid[b] = s.paid[b] + BaseFee
          BY <1>1, <1>3, <4>3
        <5>2. t.balance[b][z] = IF z = Native THEN s.balance[b][z] - BaseFee ELSE s.balance[b][z]
          BY <1>1, <1>3, <2>1, <4>3
        <5>3. t.balance[b][z] + (IF z = Native THEN t.paid[b] ELSE 0)
                = s.balance[b][z] + (IF z = Native THEN s.paid[b] ELSE 0)
          BY <1>1, <2>1, <5>1, <5>2
        <5> QED BY <4>1, <5>3 DEF Own, Backing, z
      <4> QED BY <2>4, <4>2, <4>3
    <3>2. Backing(s, b) \in Nat
      BY <1>1, ClaimTypes
    <3> QED BY <2>1, <2>2, <3>1, <3>2
  <2> QED BY <2>3, <2>4
<1>7. StateInv(t)
  <2>1. FreshIds(t)
    BY <1>1, <1>3 DEF FreshIds
  <2>2. Escrowed(t)
    BY <1>3 DEF StateInv, Backed, Escrowed
  <2>3. StaysSolvent(s, t)
    BY <1>6 DEF StaysSolvent
  <2> QED BY <1>3, <1>5, <2>1, <2>2, <2>3, Preserves
<1>8. ASSUME NEW z \in Assets PROVE Funds(t, z) = Funds(s, z)
  <2>1. \A y \in Assets : /\ Held(s.balance, y) = Held(t.balance, y) + (IF y = Native THEN BaseFee ELSE 0)
                          /\ Held(t.balance, y) \in Nat
    <3> DEFINE old == t.balance
               new == s.balance
    <3>1. GrowsBy(old, new, signer, Native, BaseFee)
      BY <1>1, <1>3, <1>4 DEF GrowsBy, ChangesOnly
    <3> HIDE DEF old, new
    <3>2. \A y \in Assets : /\ Held(new, y) = Held(old, y) + (IF y = Native THEN BaseFee ELSE 0)
                            /\ Held(old, y) \in Nat
      BY <1>1, <3>1, HeldMore
    <3> QED BY <3>2 DEF old, new
  <2>2. t.fees = s.fees + BaseFee /\ t.packets = s.packets /\ s.fees \in Nat /\ BaseFee \in Nat
    BY <1>1, <1>3
  <2>3. CASE z = Native
    <3>1. Held(s.balance, z) = Held(t.balance, z) + BaseFee /\ Held(t.balance, z) \in Nat
      BY <2>1, <2>3
    <3>2. Held(t.balance, z) + t.fees = Held(s.balance, z) + s.fees
      BY <2>2, <3>1
    <3> QED BY <2>2, <2>3, <3>2 DEF Funds
  <2>4. CASE z # Native
    <3>1. Held(s.balance, z) = Held(t.balance, z)
      BY <2>1, <2>4
    <3> QED BY <2>2, <2>4, <3>1 DEF Funds
  <2> QED BY <2>3, <2>4
<1>9. Kept(s, t)
  BY <1>3, <1>7, <1>8 DEF Kept
<1> QED BY <1>9 DEF t

(* An address that may be left out is an account, or the one it stands for.*)
LEMMA OptionFacts ==
    ASSUME NEW option \in Optional(Keys), NEW default \in Accounts
    PROVE  OrElse(option, default) \in Accounts
<1>1. Keys \subseteq Accounts
  BY LedgerAssumption
<1>2. CASE option = << >>
  BY <1>2 DEF OrElse
<1>3. CASE option # << >>
  <2>1. PICK x \in Keys : option = <<x>>
    BY <1>3 DEF Optional
  <2> QED BY <1>1, <1>3, <2>1 DEF OrElse
<1> QED BY <1>2, <1>3

(* InitBridgeAccount: the account had no rollup, so none has a claim.      *)
LEMMA InitBridgeAccountFacts ==
    ASSUME TypeOK, NEW s, StateInv(s), NEW signer \in Accounts,
           NEW a, a.asset \in Assets, a.withdrawer \in Optional(Keys), a.sudo \in Optional(Keys),
           InitBridgeAccount(s, signer, a) # << >>
    PROVE  /\ StateInv(InitBridgeAccount(s, signer, a)[1])
           /\ NoClaims(InitBridgeAccount(s, signer, a)[1], signer)
           /\ \A asset \in Assets : Funds(InitBridgeAccount(s, signer, a)[1], asset) = Funds(s, asset)
<1> DEFINE first == [asset |-> a.asset, withdrawer |-> OrElse(a.withdrawer, signer),
                     sudo |-> OrElse(a.sudo, signer)]
           B == [b \in Bridges(s) \cup {signer} |->
                    IF b = signer THEN first ELSE s.bridges[b]]
           t == [s EXCEPT !.bridges = B]
<1>1. StateType(s) /\ FreshIds(s) /\ Bridges(s) \subseteq Accounts
  BY DEF StateInv, StateType, Bridges
<1>2. signer \notin Bridges(s) /\ InitBridgeAccount(s, signer, a)[1] = t
  <2>1. signer \notin Bridges(s)
    BY DEF InitBridgeAccount, Ensure
  <2>2. InitBridgeAccount(s, signer, a)[1] = [s EXCEPT !.bridges = [b \in DOMAIN @ \cup {signer} |->
               IF b = signer THEN first ELSE @[b]]]
    BY <2>1 DEF InitBridgeAccount, Ensure
  <2> QED BY <2>1, <2>2 DEF Bridges
<1>3. B \in UNION {[D -> Bridge] : D \in SUBSET Accounts}
  <2>1. first \in Bridge
    BY OptionFacts DEF Bridge
  <2>2. \A b \in Bridges(s) : s.bridges[b] \in Bridge
    BY <1>1 DEF StateType, Bridges
  <2>3. B \in [Bridges(s) \cup {signer} -> Bridge]
    BY <2>1, <2>2
  <2> QED BY <1>1, <2>3
<1>4. StateType(t)
  BY <1>1, <1>3 DEF StateType
<1>5. /\ t.bridges = B /\ t.used = s.used /\ t.deposits = s.deposits /\ t.balance = s.balance
      /\ t.fees = s.fees /\ t.paid = s.paid /\ t.escrow = s.escrow
      /\ t.packets = s.packets /\ t.sent = s.sent
  BY <1>1 DEF StateType
<1>6. Bridges(t) = Bridges(s) \cup {signer} /\ \A b \in Bridges(s) : t.bridges[b] = s.bridges[b]
  BY <1>2, <1>5 DEF Bridges
<1> HIDE DEF t, B
<1>7. \A b \in Accounts \ Bridges(s) : NoClaims(t, b)
  BY <1>5 DEF StateInv, NoClaims
<1>8. Backed(t)
  <2>1. Escrowed(t)
    BY <1>5 DEF StateInv, Backed, Escrowed
  <2>2. ASSUME NEW b \in Bridges(t) PROVE Backing(t, b) >= Owed(t, b)
    <3>1. CASE b = signer
      <4>1. Owed(t, b) = 0
        BY <1>2, <1>7, <3>1, NothingOwed
      <4>2. Backing(t, b) \in Nat
        BY <1>4, ClaimTypes
      <4> QED BY <4>1, <4>2
    <3>2. CASE b # signer
      <4>1. b \in Bridges(s) /\ Backing(s, b) >= Owed(s, b)
        BY <1>6, <3>2 DEF StateInv, Backed
      <4>2. Owed(t, b) = Owed(s, b)
        BY <1>5, OpenSame DEF Owed
      <4>3. Backing(t, b) = Backing(s, b)
        BY <1>5, <1>6, <4>1 DEF Own, Backing
      <4> QED BY <4>1, <4>2, <4>3
    <3> QED BY <3>1, <3>2
  <2> QED BY <2>1, <2>2 DEF Backed
<1>9. StateInv(t)
  <2>1. FreshIds(t)
    BY <1>1, <1>5 DEF FreshIds
  <2> QED BY <1>4, <1>6, <1>7, <1>8, <2>1 DEF StateInv
<1>10. \A asset \in Assets : Funds(t, asset) = Funds(s, asset)
  BY <1>5 DEF Funds
<1> QED BY <1>2, <1>7, <1>9, <1>10

(* BridgeSudoChange changes neither the accounts nor their assets.          *)
LEMMA BridgeSudoChangeFacts ==
    ASSUME TypeOK, NEW s, StateInv(s), NEW signer \in Accounts,
           NEW a, a.to \in Accounts, a.withdrawer \in Optional(Keys), a.sudo \in Optional(Keys),
           BridgeSudoChange(s, signer, a) # << >>
    PROVE  /\ StateInv(BridgeSudoChange(s, signer, a)[1])
           /\ Bridges(BridgeSudoChange(s, signer, a)[1]) = Bridges(s)
           /\ \A asset \in Assets : Funds(BridgeSudoChange(s, signer, a)[1], asset) = Funds(s, asset)
<1> DEFINE t == [s EXCEPT !.bridges[a.to].sudo = OrElse(a.sudo, @),
                          !.bridges[a.to].withdrawer = OrElse(a.withdrawer, @)]
<1>1. StateType(s) /\ FreshIds(s)
  BY DEF StateInv
<1>2. a.to \in Bridges(s) /\ BridgeSudoChange(s, signer, a)[1] = t
  BY DEF BridgeSudoChange, Ensure
<1> DEFINE old == s.bridges
           new == [old EXCEPT ![a.to].sudo = OrElse(a.sudo, @),
                              ![a.to].withdrawer = OrElse(a.withdrawer, @)]
<1>3. /\ t.bridges = new /\ t.used = s.used /\ t.deposits = s.deposits /\ t.balance = s.balance
      /\ t.fees = s.fees /\ t.paid = s.paid /\ t.escrow = s.escrow
      /\ t.packets = s.packets /\ t.sent = s.sent
  BY <1>1 DEF StateType
<1>4. DOMAIN old \in SUBSET Accounts /\ old \in [DOMAIN old -> Bridge] /\ a.to \in DOMAIN old
  BY <1>1, <1>2 DEF StateType, Bridges
<1> HIDE DEF old
<1>5. /\ new \in [DOMAIN old -> Bridge]
      /\ \A b \in DOMAIN old : new[b].asset = old[b].asset
  <2>1. old[a.to] \in Bridge
    BY <1>4
  <2>2. OrElse(a.sudo, old[a.to].sudo) \in Accounts /\ OrElse(a.withdrawer, old[a.to].withdrawer) \in Accounts
    BY <2>1, OptionFacts DEF Bridge
  <2> QED BY <1>4, <2>1, <2>2 DEF Bridge
<1>6. StateType(t)
  <2>1. new \in UNION {[D -> Bridge] : D \in SUBSET Accounts}
    BY <1>4, <1>5
  <2>2. t = [s EXCEPT !.bridges = new]
    BY ZenonT(60), <1>1 DEF StateType, old
  <2> HIDE DEF new, t
  <2> QED BY <1>1, <2>1, <2>2 DEF StateType
<1>7. Bridges(t) = Bridges(s) /\ \A b \in Bridges(s) : t.bridges[b].asset = s.bridges[b].asset
  BY <1>3, <1>5 DEF Bridges, old
<1> HIDE DEF t, new
<1>8. Backed(t)
  <2>1. Escrowed(t)
    BY <1>3 DEF StateInv, Backed, Escrowed
  <2>2. ASSUME NEW b \in Bridges(t) PROVE Backing(t, b) >= Owed(t, b)
    <3>1. b \in Bridges(s) /\ Backing(s, b) >= Owed(s, b)
      BY <1>7 DEF StateInv, Backed
    <3>2. Owed(t, b) = Owed(s, b)
      BY <1>3, OpenSame DEF Owed
    <3>3. Backing(t, b) = Backing(s, b)
      BY <1>3, <1>7, <3>1 DEF Own, Backing
    <3> QED BY <3>1, <3>2, <3>3
  <2> QED BY <2>1, <2>2 DEF Backed
<1>9. StateInv(t)
  <2>1. FreshIds(t)
    BY <1>1, <1>3 DEF FreshIds
  <2>2. \A b \in Accounts \ Bridges(t) : NoClaims(t, b)
    BY <1>3, <1>7 DEF StateInv, NoClaims
  <2> QED BY <1>6, <1>8, <2>1, <2>2 DEF StateInv
<1>10. \A asset \in Assets : Funds(t, asset) = Funds(s, asset)
  BY <1>3 DEF Funds
<1> QED BY <1>2, <1>7, <1>9, <1>10

-----------------------------------------------------------------------------
(* Transactions *)

(* Keeping the invariant and the funds carries over.                       *)
LEMMA KeptTwice ==
    ASSUME NEW r, NEW s, NEW t, Kept(r, s), Kept(s, t)
    PROVE  Kept(r, t)
BY DEF Kept

(* What a signer may send in a transaction of several actions.             *)
LEMMA BundleableTypes ==
    ASSUME TypeOK, NEW signer, NEW a \in Bundleable(signer)
    PROVE  \/ /\ a.kind \in {"transfer", "lock"}
              /\ a.to \in Accounts /\ a.asset \in Assets /\ a.amount \in Nat
           \/ /\ a.kind = "withdraw" /\ a.event = << >> /\ a.form \in Forms
              /\ a.back \in Accounts /\ a.memo \in BOOLEAN
              /\ a.asset \in Assets /\ a.amount \in Nat
           \/ /\ a.kind = "withdraw" /\ a.form \in Forms
              /\ a.back \in Accounts /\ a.memo \in BOOLEAN
              /\ \E e \in rollup.events : /\ a.event = <<e>> /\ a.amount = e.amount
                                          /\ a.asset = state.bridges[e.bridge].asset
           \/ /\ a.kind \in {"unlock", "bridgeTransfer"} /\ a.to \in Accounts
              /\ \E e \in rollup.events :
                    /\ a.event = <<e>>
                    /\ a.kind = "bridgeTransfer" /\ signer \in Bridges(state) => e.bridge = signer
<1>1. Amounts \subseteq Nat /\ Returns \subseteq Accounts
  BY LedgerAssumption
<1>2. CASE a \in [kind : {"transfer", "lock"}, to : Accounts, asset : Assets, amount : Amounts]
  BY <1>1, <1>2
<1>3. CASE a \in [kind : {"withdraw"}, asset : Assets, form : Forms, amount : Amounts,
                  back : Returns, memo : BOOLEAN, event : {<< >>}]
  BY <1>1, <1>3
<1>4. CASE a \in {[kind |-> "withdraw", asset |-> state.bridges[e.bridge].asset, form |-> form,
                   amount |-> e.amount, back |-> back, memo |-> TRUE, event |-> <<e>>] :
                     form \in Forms, back \in Returns, e \in rollup.events}
  <2>1. PICK form \in Forms, back \in Returns, e \in rollup.events :
          a = [kind |-> "withdraw", asset |-> state.bridges[e.bridge].asset, form |-> form,
               amount |-> e.amount, back |-> back, memo |-> TRUE, event |-> <<e>>]
    BY <1>4
  <2>2. /\ a.kind = "withdraw" /\ a.form = form /\ a.back = back /\ a.memo = TRUE
        /\ a.event = <<e>> /\ a.amount = e.amount /\ a.asset = state.bridges[e.bridge].asset
    BY <2>1
  <2>3. a.back \in Accounts /\ a.form \in Forms /\ a.memo \in BOOLEAN
    BY <1>1, <2>2
  <2> QED BY <2>2, <2>3
<1>5. CASE a \in [kind : {"unlock"}, to : Accounts, event : {<<e>> : e \in rollup.events}]
  BY <1>5
<1>6. CASE a \in [kind : {"bridgeTransfer"}, to : Accounts, event : {<<e>> : e \in OwnEvents(signer)}]
  BY <1>6 DEF OwnEvents
<1> QED BY <1>2, <1>3, <1>4, <1>5, <1>6 DEF Bundleable

(* An action of such a transaction keeps the invariant and the funds.      *)
LEMMA BundleableKeeps ==
    ASSUME TypeOK, EventsInv, NEW s, StateInv(s), s.bridges = state.bridges,
           NEW signer \in Accounts, NEW a \in Bundleable(signer),
           CheckAndExecute(s, signer, a) # << >>
    PROVE  Kept(s, CheckAndExecute(s, signer, a)[1])
<1>0. StateType(s)
  BY DEF StateInv
<1>1. CASE a.kind = "transfer"
  <2>1. CheckAndExecute(s, signer, a) = Transfer(s, signer, a)
    BY <1>1 DEF CheckAndExecute
  <2>2. a.to \in Accounts /\ a.asset \in Assets /\ a.amount \in Nat
    BY <1>1, BundleableTypes
  <2> QED BY <2>1, <2>2, TransferKeeps
<1>2. CASE a.kind = "lock"
  <2>1. CheckAndExecute(s, signer, a) = BridgeLock(s, signer, a)
    BY <1>2 DEF CheckAndExecute
  <2>2. a.to \in Accounts /\ a.asset \in Assets /\ a.amount \in Nat
    BY <1>2, BundleableTypes
  <2> QED BY <2>1, <2>2, BridgeLockKeeps
<1>3. CASE a.kind \in {"unlock", "bridgeTransfer"}
  <2>1. /\ a.to \in Accounts
        /\ \E e \in rollup.events :
              /\ a.event = <<e>>
              /\ a.kind = "bridgeTransfer" /\ signer \in Bridges(state) => e.bridge = signer
    BY <1>3, BundleableTypes
  <2>2. PICK e \in rollup.events :
            /\ a.event = <<e>>
            /\ a.kind = "bridgeTransfer" /\ signer \in Bridges(state) => e.bridge = signer
    BY <2>1
  <2>3. a.kind = "bridgeTransfer" /\ signer \in Bridges(s) => e.bridge = signer
    BY <2>2 DEF Bridges
  <2>4. CASE a.kind = "unlock"
    <3>1. CheckAndExecute(s, signer, a) = BridgeUnlock(s, signer, a)
      BY <2>4 DEF CheckAndExecute
    <3> QED BY <2>1, <2>2, <2>3, <3>1, BridgeUnlockKeeps
  <2>5. CASE a.kind = "bridgeTransfer"
    <3>1. CheckAndExecute(s, signer, a) = BridgeTransfer(s, signer, a)
      BY <2>5 DEF CheckAndExecute
    <3> QED BY <2>1, <2>2, <2>3, <2>5, <3>1, BridgeTransferKeeps
  <2> QED BY <1>3, <2>4, <2>5
<1>4. CASE a.kind = "withdraw"
  <2>1. CheckAndExecute(s, signer, a) = Ics20Withdrawal(s, signer, a)
    BY <1>4 DEF CheckAndExecute
  <2>2. CASE a.event = << >>
    <3>1. /\ a.asset \in Assets /\ a.form \in Forms /\ a.amount \in Nat
          /\ a.back \in Accounts /\ a.memo \in BOOLEAN
      <4>1. \A e : <<e>> # << >>
        OBVIOUS
      <4>2. ~ \E e \in rollup.events : a.event = <<e>>
        BY <2>2, <4>1
      <4> QED BY <1>4, <4>2, BundleableTypes
    <3> QED BY <2>1, <2>2, <3>1, WithdrawalKeeps
  <2>3. CASE a.event # << >>
    <3>1. /\ a.form \in Forms /\ a.back \in Accounts /\ a.memo \in BOOLEAN
          /\ \E e \in rollup.events : /\ a.event = <<e>> /\ a.amount = e.amount
                                      /\ a.asset = state.bridges[e.bridge].asset
      BY <1>4, <2>3, BundleableTypes
    <3>2. PICK e \in rollup.events : /\ a.event = <<e>> /\ a.amount = e.amount
                                     /\ a.asset = state.bridges[e.bridge].asset
      BY <3>1
    <3>3. e \in Event /\ e.amount \in Nat
      BY DEF TypeOK, Event
    <3>4. e.bridge \in Bridges(s)
      BY <2>1, <3>2 DEF Ics20Withdrawal, Ensure, MayWithdraw, FromBridge
    <3>5. s.bridges[e.bridge].asset \in Assets
      BY <1>0, <3>4, ClaimTypes
    <3>6. a.asset \in Assets /\ a.asset = s.bridges[e.bridge].asset /\ a.amount \in Nat
      BY <3>2, <3>3, <3>5
    <3> QED BY <2>1, <3>1, <3>2, <3>3, <3>6, WithdrawalKeeps
  <2> QED BY <2>2, <2>3
<1> QED BY <1>1, <1>2, <1>3, <1>4, BundleableTypes

(* check_execute_and_pay_fees for such an action.                          *)
LEMMA CheckExecuteKeeps ==
    ASSUME TypeOK, EventsInv, NEW s, StateInv(s), s.bridges = state.bridges,
           NEW signer \in Accounts, NEW a \in Bundleable(signer),
           CheckExecuteAndPayFees(<<s>>, signer, a) # << >>
    PROVE  \E t : CheckExecuteAndPayFees(<<s>>, signer, a) = <<t>> /\ Kept(s, t)
<1> DEFINE r == CheckAndExecute(s, signer, a)
           u == r[1]
           t == PayFees(u, signer, signer \in Bridges(s))
<1>1. <<s>> # << >> /\ <<s>>[1] = s
  OBVIOUS
<1>2. CheckExecuteAndPayFees(<<s>>, signer, a) =
         IF r = << >> THEN << >> ELSE Ensure(u.balance[signer][Native] >= BaseFee, t)
  BY <1>1 DEF CheckExecuteAndPayFees
<1>3. /\ r # << >> /\ u.balance[signer][Native] >= BaseFee
      /\ CheckExecuteAndPayFees(<<s>>, signer, a) = <<t>>
  BY <1>2 DEF Ensure
<1>4. Kept(s, u)
  BY <1>3, BundleableKeeps
<1> HIDE DEF r, u
<1>5. StateInv(u) /\ (signer \in Bridges(u) => signer \in Bridges(s))
  BY <1>4 DEF Kept, Bridges
<1>6. (signer \in Bridges(s)) \in BOOLEAN
  OBVIOUS
<1>7. Kept(u, t)
  BY <1>3, <1>5, <1>6, PayFeesKeeps
<1> QED BY <1>3, <1>4, <1>7, KeptTwice

(* g gives the result after each of the first n actions *)
Results(g, s, signer, tx, n) ==
    /\ DOMAIN g = 0..n /\ g[0] = <<s>>
    /\ \A i \in 1..n : g[i] = CheckExecuteAndPayFees(g[i - 1], signer, tx[i])

(* A transaction is executed action by action.                             *)
LEMMA ExecutedDefined ==
    ASSUME NEW s, NEW signer, NEW tx, Len(tx) \in Nat
    PROVE  \E g : Results(g, s, signer, tx, Len(tx)) /\ Executed(s, signer, tx) = g[Len(tx)]
<1> DEFINE T == {m \in Nat : ~ \E g : Results(g, s, signer, tx, m)}
<1>1. ASSUME T # {} PROVE FALSE
  <2>1. PICK m \in T : \A y \in T : m <= y
    BY <1>1, LeastNatural
  <2>2. CASE m = 0
    <3>1. Results([n \in 0..0 |-> <<s>>], s, signer, tx, 0)
      BY DEF Results
    <3> QED BY <2>1, <2>2, <3>1
  <2>3. CASE m # 0
    <3>1. m - 1 \in Nat /\ m - 1 \notin T /\ m \in Nat
      <4> HIDE DEF T
      <4>1. m \in Nat
        BY DEF T
      <4> QED BY <2>1, <2>3, <4>1
    <3>2. PICK g : Results(g, s, signer, tx, m - 1)
      BY <3>1
    <3> DEFINE h == [n \in 0..m |->
                        IF n = m THEN CheckExecuteAndPayFees(g[m - 1], signer, tx[m]) ELSE g[n]]
    <3>3. DOMAIN h = 0..m /\ h[0] = <<s>>
      BY <2>3, <3>1, <3>2 DEF Results
    <3>4. ASSUME NEW n \in 1..m PROVE h[n] = CheckExecuteAndPayFees(h[n - 1], signer, tx[n])
      <4>1. n \in 0..m /\ n - 1 \in 0..m /\ n - 1 # m
        BY <3>1
      <4>2. h[n - 1] = g[n - 1]
        BY <4>1
      <4>3. CASE n = m
        BY <4>1, <4>2, <4>3
      <4>4. CASE n # m
        <5>1. n \in 1..(m - 1) /\ h[n] = g[n]
          BY <3>1, <4>1, <4>4
        <5> QED BY <3>2, <4>2, <5>1 DEF Results
      <4> QED BY <4>3, <4>4
    <3>5. Results(h, s, signer, tx, m)
      BY <3>3, <3>4 DEF Results
    <3> QED BY <2>1, <3>5
  <2> QED BY <2>2, <2>3
<1>2. PICK g : Results(g, s, signer, tx, Len(tx))
  BY <1>1
<1> DEFINE Def(after) == [i \in 0..Len(tx) |->
               IF i = 0 THEN <<s>> ELSE CheckExecuteAndPayFees(after[i - 1], signer, tx[i])]
           result == CHOOSE after : after = Def(after)
<1>3. g = Def(g)
  <2>1. DOMAIN g = 0..Len(tx) /\ g = [i \in 0..Len(tx) |-> g[i]]
    BY <1>2 DEF Results
  <2>2. ASSUME NEW i \in 0..Len(tx) PROVE g[i] = Def(g)[i]
    <3>1. CASE i = 0
      BY <1>2, <3>1 DEF Results
    <3>2. CASE i # 0
      <4>1. i \in 1..Len(tx)
        BY <3>2
      <4>2. g[i] = CheckExecuteAndPayFees(g[i - 1], signer, tx[i])
        BY <1>2, <4>1 DEF Results
      <4> QED BY <3>2, <4>2
    <3> QED BY <3>1, <3>2
  <2> QED BY <2>1, <2>2
<1>4. result = Def(result)
  BY <1>3, Zenon
<1>5. Executed(s, signer, tx) = result[Len(tx)]
  BY DEF Executed
<1> HIDE DEF result
<1>6. Results(result, s, signer, tx, Len(tx))
  <2>1. DOMAIN result = 0..Len(tx)
    BY <1>4
  <2>2. \A i \in 0..Len(tx) : result[i] =
           IF i = 0 THEN <<s>> ELSE CheckExecuteAndPayFees(result[i - 1], signer, tx[i])
    <3>1. \A i \in 0..Len(tx) : Def(result)[i] =
           IF i = 0 THEN <<s>> ELSE CheckExecuteAndPayFees(result[i - 1], signer, tx[i])
      OBVIOUS
    <3> QED BY <1>4, <3>1
  <2> QED BY <2>1, <2>2 DEF Results
<1> QED BY <1>5, <1>6

(* A transaction of several actions keeps the invariant and the funds, or  *)
(* fails.                                                                  *)
LEMMA BundleKeeps ==
    ASSUME TypeOK, EventsInv, StateInv(state), NEW signer \in Accounts, NEW n \in Nat,
           NEW tx \in [1..n -> Bundleable(signer)], Len(tx) = n,
           Executed(state, signer, tx) # << >>
    PROVE  \E t : Executed(state, signer, tx) = <<t>> /\ Kept(state, t)
<1>1. PICK g : Results(g, state, signer, tx, n) /\ Executed(state, signer, tx) = g[n]
  BY ExecutedDefined
<1> DEFINE Good(r) == r = << >> \/ \E t : r = <<t>> /\ Kept(state, t)
           T == {i \in Nat : i <= n /\ ~ Good(g[i])}
<1>2. Good(g[0])
  BY <1>1 DEF Results, Kept
<1>3. ASSUME NEW i \in 1..n, Good(g[i - 1]) PROVE Good(g[i])
  <2>1. g[i] = CheckExecuteAndPayFees(g[i - 1], signer, tx[i]) /\ tx[i] \in Bundleable(signer)
    BY <1>1 DEF Results
  <2>2. CASE g[i - 1] = << >>
    <3>1. CheckExecuteAndPayFees(<< >>, signer, tx[i]) = << >>
      BY DEF CheckExecuteAndPayFees
    <3> QED BY <2>1, <2>2, <3>1
  <2>3. CASE g[i - 1] # << >> /\ g[i] # << >>
    <3>1. PICK s : g[i - 1] = <<s>> /\ Kept(state, s)
      BY <1>3, <2>3
    <3>2. StateInv(s) /\ s.bridges = state.bridges
      BY <3>1 DEF Kept
    <3>3. CheckExecuteAndPayFees(<<s>>, signer, tx[i]) # << >>
      BY <2>1, <2>3, <3>1
    <3>4. PICK t : CheckExecuteAndPayFees(<<s>>, signer, tx[i]) = <<t>> /\ Kept(s, t)
      BY <2>1, <3>2, <3>3, CheckExecuteKeeps
    <3>5. Kept(state, t) /\ g[i] = <<t>>
      BY <2>1, <3>1, <3>4, KeptTwice
    <3> QED BY <3>5
  <2> QED BY <2>2, <2>3
<1>4. ASSUME T # {} PROVE FALSE
  <2>1. PICK m \in T : \A y \in T : m <= y
    BY <1>4, LeastNatural
  <2>2. m \in Nat /\ m <= n /\ ~ Good(g[m]) /\ m # 0
    BY <1>2
  <2>3. m \in 1..n /\ m - 1 \in Nat /\ m - 1 \notin T
    <3> HIDE DEF T, Good
    <3> QED BY <2>1, <2>2
  <2>4. Good(g[m - 1])
    BY <2>2, <2>3
  <2> HIDE DEF Good
  <2> QED BY <1>3, <2>2, <2>3, <2>4
<1>5. Good(g[n])
  BY <1>4
<1> QED BY <1>1, <1>5

(* The action of a transaction that may hold no other.                     *)
LEMMA UnbundleableKeeps ==
    ASSUME TypeOK, EventsInv, StateInv(state), NEW signer \in Accounts,
           NEW a \in Unbundleable(signer),
           CheckExecuteAndPayFees(<<state>>, signer, a) # << >>
    PROVE  \E t : /\ CheckExecuteAndPayFees(<<state>>, signer, a) = <<t>> /\ StateInv(t)
                  /\ \A asset \in Assets : Funds(t, asset) = Funds(state, asset)
<1> DEFINE r == CheckAndExecute(state, signer, a)
           u == r[1]
           t == PayFees(u, signer, signer \in Bridges(state))
<1>1. <<state>> # << >> /\ <<state>>[1] = state
  OBVIOUS
<1>2. CheckExecuteAndPayFees(<<state>>, signer, a) =
         IF r = << >> THEN << >> ELSE Ensure(u.balance[signer][Native] >= BaseFee, t)
  BY <1>1 DEF CheckExecuteAndPayFees
<1>3. /\ r # << >> /\ u.balance[signer][Native] >= BaseFee
      /\ CheckExecuteAndPayFees(<<state>>, signer, a) = <<t>>
  BY <1>2 DEF Ensure
<1>4. /\ StateInv(u) /\ (signer \in Bridges(u) => signer \in Bridges(state) \/ NoClaims(u, signer))
      /\ \A asset \in Assets : Funds(u, asset) = Funds(state, asset)
  <2>1. CASE a \in [kind : IF signer \in Founders THEN {"init"} ELSE {}, asset : Assets,
                    withdrawer : Optional(Keys), sudo : Optional(Keys)]
    <3>1. /\ a.kind = "init" /\ a.asset \in Assets
          /\ a.withdrawer \in Optional(Keys) /\ a.sudo \in Optional(Keys)
      BY <2>1
    <3>2. r = InitBridgeAccount(state, signer, a)
      BY <3>1 DEF CheckAndExecute
    <3>3. InitBridgeAccount(state, signer, a) # << >>
      BY <1>3, <3>2
    <3> HIDE DEF r
    <3> QED BY <3>1, <3>2, <3>3, InitBridgeAccountFacts
  <2>2. CASE a \in [kind : {"bridgeSudo"}, to : Accounts,
                    withdrawer : Optional(Keys), sudo : Optional(Keys)]
    <3>1. /\ a.kind = "bridgeSudo" /\ a.to \in Accounts
          /\ a.withdrawer \in Optional(Keys) /\ a.sudo \in Optional(Keys)
      BY <2>2
    <3>2. r = BridgeSudoChange(state, signer, a)
      BY <3>1 DEF CheckAndExecute
    <3>3. BridgeSudoChange(state, signer, a) # << >>
      BY <1>3, <3>2
    <3> HIDE DEF r
    <3> QED BY <3>1, <3>2, <3>3, BridgeSudoChangeFacts
  <2> QED BY <2>1, <2>2 DEF Unbundleable
<1> HIDE DEF r, u
<1>5. (signer \in Bridges(state)) \in BOOLEAN
  OBVIOUS
<1>6. Kept(u, t)
  BY <1>3, <1>4, <1>5, PayFeesKeeps
<1> HIDE DEF t
<1>7. StateInv(t) /\ \A asset \in Assets : Funds(t, asset) = Funds(state, asset)
  BY <1>4, <1>6 DEF Kept
<1> QED BY <1>3, <1>7

(* The length of a tuple of actions.                                       *)
LEMMA TupleLength ==
    ASSUME NEW S, NEW n \in Nat, NEW tx \in [1..n -> S]
    PROVE  Len(tx) = n
<1> DEFINE L == Len(tx)
<1>1. tx \in Seq(S)
  BY SeqDef
<1>2. L \in Nat /\ DOMAIN tx = 1..L
  BY <1>1, LenProperties
<1>3. 1..L = 1..n
  BY <1>2
<1> HIDE DEF L
<1>4. \A k \in Nat \ {0} : k <= L <=> k <= n
  <2>1. \A k \in Nat \ {0} : (k \in 1..L <=> k <= L) /\ (k \in 1..n <=> k <= n)
    BY <1>2
  <2> QED BY <1>3, <2>1
<1>5. L = n
  <2>1. L # 0 => L <= n
    BY <1>2, <1>4
  <2>2. n # 0 => n <= L
    BY <1>4
  <2> QED BY <1>2, <2>1, <2>2
<1> QED BY <1>5 DEF L

(* execute_transaction keeps the invariant and the funds.                  *)
LEMMA TransactionKeeps ==
    ASSUME TypeOK, EventsInv, StateInv(state), NEW signer \in Accounts,
           NEW tx \in Transactions(signer), Executed(state, signer, tx) # << >>
    PROVE  /\ StateInv(Executed(state, signer, tx)[1])
           /\ \A asset \in Assets : Funds(Executed(state, signer, tx)[1], asset) = Funds(state, asset)
<1>1. CASE tx \in UNION {[1..n -> Bundleable(signer)] : n \in 1..MaxActions}
  <2>1. PICK n \in 1..MaxActions : tx \in [1..n -> Bundleable(signer)]
    BY <1>1
  <2>2. n \in Nat
    BY LedgerAssumption
  <2>3. Len(tx) = n
    BY <2>1, <2>2, TupleLength
  <2>4. PICK t : Executed(state, signer, tx) = <<t>> /\ Kept(state, t)
    BY <2>1, <2>2, <2>3, BundleKeeps
  <2> QED BY <2>4 DEF Kept
<1>2. CASE tx \in [{1} -> Unbundleable(signer)]
  <2>1. tx[1] \in Unbundleable(signer)
    BY <1>2
  <2>2. Len(tx) = 1 /\ Len(tx) \in Nat
    <3>1. tx \in [1..1 -> Unbundleable(signer)] /\ 1 \in Nat
      BY <1>2
    <3>2. Len(tx) = 1
      BY <3>1, TupleLength
    <3> QED BY <3>2
  <2>3. Executed(state, signer, tx) = CheckExecuteAndPayFees(<<state>>, signer, tx[1])
    <3>1. PICK g : Results(g, state, signer, tx, Len(tx)) /\ Executed(state, signer, tx) = g[Len(tx)]
      BY <2>2, ExecutedDefined
    <3>2. Results(g, state, signer, tx, 1) /\ Executed(state, signer, tx) = g[1]
      BY <2>2, <3>1
    <3> QED BY <3>2 DEF Results
  <2>4. PICK t : /\ CheckExecuteAndPayFees(<<state>>, signer, tx[1]) = <<t>> /\ StateInv(t)
                 /\ \A asset \in Assets : Funds(t, asset) = Funds(state, asset)
    BY <2>1, <2>3, UnbundleableKeeps
  <2>5. Executed(state, signer, tx)[1] = t
    BY <2>3, <2>4
  <2> QED BY <2>4, <2>5, Zenon
<1> DEFINE B == {a \in Bundleable(signer) : CoversTotalCost(state, signer, <<a>>)}
           U == {a \in Unbundleable(signer) : CoversTotalCost(state, signer, <<a>>)}
<1>3. \/ tx \in UNION {[1..n -> Bundleable(signer)] : n \in 1..MaxActions}
      \/ tx \in [{1} -> Unbundleable(signer)]
  <2>1. tx \in UNION {[1..n -> B] : n \in 1..MaxActions} \/ tx \in [{1} -> U]
    BY Zenon DEF Transactions
  <2>2. B \subseteq Bundleable(signer) /\ U \subseteq Unbundleable(signer)
    OBVIOUS
  <2> HIDE DEF B, U
  <2>3. CASE tx \in UNION {[1..n -> B] : n \in 1..MaxActions}
    <3>1. PICK n \in 1..MaxActions : tx \in [1..n -> B]
      BY <2>3
    <3>2. tx \in [1..n -> Bundleable(signer)]
      BY <2>2, <3>1
    <3> QED BY <3>2
  <2>4. CASE tx \in [{1} -> U]
    BY <2>2, <2>4
  <2> QED BY <2>1, <2>3, <2>4
<1> QED BY <1>1, <1>2, <1>3, Zenon

-----------------------------------------------------------------------------
(* The steps *)

(* A step of the Sequencer's own state that keeps the invariant and the    *)
(* funds.                                                                  *)
LEMMA StateStep ==
    ASSUME IInv, UNCHANGED <<rollup, outside, shortfall>>, NEW t, state' = t, StateInv(t),
           \A asset \in Assets : Funds(t, asset) = Funds(state, asset)
    PROVE  IInv'
<1>1. rollup' = rollup /\ outside' = outside /\ shortfall' = shortfall
  OBVIOUS
<1>2. StateInv(state)'
  <2>1. (\A b : NoClaims(state, b)' <=> NoClaims(t, b)) /\ (FreshIds(state)' <=> FreshIds(t))
    BY <1>1 DEF NoClaims, FreshIds
  <2>2. \A b : Owed(state, b)' = Owed(t, b)
    BY <1>1 DEF Owed, Open
  <2>3. Backed(state)' <=> Backed(t)
    BY <1>1, <2>2 DEF Backed, Escrowed, Own, Backing
  <2> QED BY <2>1, <2>3 DEF StateInv
<1>3. TypeOK' /\ EventsInv'
  BY <1>1 DEF IInv, TypeOK, EventsInv, StateInv
<1>4. AssetsConserved' /\ ShortfallInv'
  BY <1>1 DEF IInv, AssetsConserved, Funds, ShortfallInv
<1> QED BY <1>2, <1>3, <1>4 DEF IInv

(* The genesis state.                                                      *)
LEMMA InitInv ==
    ASSUME Init
    PROVE  IInv
<1>1. /\ InitialBalance \in [Accounts -> [Assets -> Nat]] /\ InitialOutside \in [Assets -> Nat]
      /\ InitialOutside[Native] = 0 /\ Native \in Assets
  BY LedgerAssumption DEF Assets
<1>2. /\ state.balance = InitialBalance /\ state.bridges = << >> /\ state.used = {}
      /\ state.deposits = [b \in Accounts |-> 0] /\ state.fees = 0
      /\ state.paid = [b \in Accounts |-> 0] /\ state.escrow = [x \in Assets |-> 0]
      /\ state.packets = {} /\ state.sent = 0
      /\ rollup.supply = [b \in Accounts |-> 0] /\ rollup.events = {}
      /\ outside.held = InitialOutside /\ outside.stranded = [x \in Assets |-> 0]
      /\ shortfall.lent = 0 /\ shortfall.unbacked = [b \in Accounts |-> 0]
  BY DEF Init
<1>3. IsFiniteSet({}) /\ \A p \in {} : p.amount \in Nat
  BY FS_EmptySet
<1>4. Bridges(state) = {} /\ state.bridges \in UNION {[B -> Bridge] : B \in SUBSET Accounts}
  <2>1. << >> \in [{} -> Bridge] /\ DOMAIN << >> = {}
    OBVIOUS
  <2> QED BY <1>2, <2>1 DEF Bridges
<1>5. TypeOK
  <2>1. StateType(state)
    BY <1>1, <1>2, <1>3, <1>4 DEF Init, StateType
  <2> QED BY <1>1, <1>3, <2>1 DEF Init, TypeOK
<1>6. EventsInv
  BY <1>2 DEF EventsInv
<1>7. \A asset : InFlight(state.packets, asset) = 0 /\ InFlight(Traced(state.packets), asset) = 0
  BY <1>2, <1>3, InFlightFacts, TracedFacts
<1>8. StateInv(state)
  <2>1. FreshIds(state) /\ \A b \in Accounts : NoClaims(state, b)
    BY <1>2 DEF FreshIds, NoClaims
  <2>2. Backed(state)
    BY <1>1, <1>2, <1>4, <1>7 DEF Backed, Escrowed
  <2> QED BY <1>5, <2>1, <2>2 DEF StateInv, TypeOK
<1>9. ASSUME NEW asset \in Assets
      PROVE  Held(state.balance, asset) + (IF asset = Native THEN state.fees ELSE 0)
                + InFlight(state.packets, asset) + outside.held[asset] + outside.stranded[asset]
             = Held(InitialBalance, asset) + InitialOutside[asset]
  <2>1. Held(InitialBalance, asset) \in Nat
    <3>1. ChangesOnly(InitialBalance, InitialBalance, Sudo, asset) /\ Sudo \in Accounts
      BY <1>1, LedgerAssumption DEF ChangesOnly
    <3> QED BY <3>1, HeldUpdate
  <2> QED BY <1>1, <1>2, <1>7, <2>1
<1>10. ShortfallInv
  BY <1>2 DEF ShortfallInv
<1> QED BY <1>5, <1>6, <1>8, <1>9, <1>10 DEF IInv, AssetsConserved

(* A block pays its fees to Sudo and its deposits to the rollups.          *)
LEMMA EndBlockInv ==
    ASSUME IInv, EndBlock
    PROVE  IInv'
<1>1. /\ state' = [state EXCEPT !.balance[Sudo][Native] = @ + state.fees, !.fees = 0,
                                !.deposits = [b \in Accounts |-> 0]]
      /\ rollup' = [rollup EXCEPT !.supply = [b \in Accounts |-> @[b] + state.deposits[b]]]
      /\ outside' = outside /\ shortfall' = shortfall
  BY DEF EndBlock
<1>2. /\ StateType(state) /\ Sudo \in Accounts /\ Native \in Assets
      /\ state.balance \in [Accounts -> [Assets -> Nat]] /\ state.deposits \in [Accounts -> Nat]
      /\ state.fees \in Nat /\ rollup.supply \in [Accounts -> Nat] /\ TypeOK
  BY LedgerAssumption DEF IInv, TypeOK, StateType, Assets
<1>3. /\ state'.balance = [state.balance EXCEPT ![Sudo][Native] = @ + state.fees]
      /\ state'.fees = 0 /\ state'.deposits = [b \in Accounts |-> 0]
      /\ state'.bridges = state.bridges /\ state'.used = state.used
      /\ state'.paid = state.paid /\ state'.escrow = state.escrow
      /\ state'.packets = state.packets /\ state'.sent = state.sent
  BY <1>1, <1>2 DEF StateType
<1>4. /\ rollup'.supply = [b \in Accounts |-> rollup.supply[b] + state.deposits[b]]
      /\ rollup'.events = rollup.events
  BY <1>1, <1>2 DEF TypeOK
<1>5. state'.balance \in [Accounts -> [Assets -> Nat]]
  BY <1>2, <1>3
<1>6. StateType(state)'
  BY <1>1, <1>2, <1>3, <1>5 DEF StateType
<1>7. TypeOK' /\ EventsInv'
  <2>1. rollup'.supply \in [Accounts -> Nat]
    BY <1>2, <1>4
  <2>2. rollup' \in [supply : [Accounts -> Nat], events : SUBSET Event]
    BY <1>1, <1>2, <2>1 DEF TypeOK
  <2> QED BY <1>1, <1>2, <1>4, <1>6, <2>2 DEF TypeOK, EventsInv, IInv
<1>8. StateInv(state)'
  <2>1. FreshIds(state)'
    BY <1>3, <1>4 DEF FreshIds, IInv, StateInv
  <2>2. ASSUME NEW b \in Accounts \ Bridges(state)' PROVE NoClaims(state, b)'
    <3>1. NoClaims(state, b)
      BY <1>3 DEF IInv, StateInv, Bridges
    <3> QED BY <1>3, <1>4, <3>1 DEF NoClaims
  <2>3. Backed(state)'
    <3>1. Escrowed(state)'
      BY <1>1, <1>3 DEF IInv, StateInv, Backed, Escrowed
    <3>2. ASSUME NEW b \in Bridges(state)' PROVE (Backing(state, b) >= Owed(state, b))'
      <4>1. b \in Bridges(state) /\ Backing(state, b) >= Owed(state, b)
        BY <1>3 DEF IInv, StateInv, Backed, Bridges
      <4> DEFINE z == state.bridges[b].asset
      <4>2. /\ b \in Accounts /\ z \in Assets /\ state.balance[b][z] \in Nat
            /\ state.paid[b] \in Nat /\ state.deposits[b] \in Nat /\ rollup.supply[b] \in Nat
            /\ Total(Open(state, b)) \in Nat /\ shortfall.unbacked[b] \in Nat
            /\ Backing(state, b) \in Nat /\ Owed(state, b) \in Nat
        BY <1>2, <4>1, ClaimTypes
      <4>3. Owed(state, b)' = Owed(state, b)
        <5>1. Open(state, b)' = Open(state, b)
          BY <1>3, <1>4 DEF Open, Unused
        <5> QED BY <1>3, <1>4, <4>2, <5>1 DEF Owed
      <4>4. state'.balance[b][z] \in Nat /\ state'.balance[b][z] >= state.balance[b][z]
        <5> HIDE DEF z
        <5> QED BY <1>2, <1>3, <4>2
      <4>5. Backing(state, b)' >= Backing(state, b) /\ Backing(state, b)' \in Nat
        BY <1>1, <1>3, <4>2, <4>4 DEF Own, Backing
      <4> QED BY <4>1, <4>2, <4>3, <4>5
    <3> QED BY <3>1, <3>2 DEF Backed
  <2> QED BY <1>6, <2>1, <2>2, <2>3 DEF StateInv
<1>9. AssetsConserved'
  <2>1. ChangesOnly(state.balance, state'.balance, Sudo, Native)
    BY <1>2, <1>3, <1>5 DEF ChangesOnly
  <2>2. state'.balance[Sudo][Native] = state.balance[Sudo][Native] + state.fees
    BY <1>2, <1>3
  <2>3. \A z \in Assets : /\ Held(state'.balance, z) = Held(state.balance, z)
                                 + (IF z = Native THEN state.fees ELSE 0)
                          /\ Held(state.balance, z) \in Nat
    <3> DEFINE old == state.balance
               new == state'.balance
               more == state.fees
    <3>1. /\ GrowsBy(old, new, Sudo, Native, more) /\ more \in Nat
          /\ Sudo \in Accounts /\ Native \in Assets
      BY <1>2, <2>1, <2>2 DEF GrowsBy
    <3> HIDE DEF old, new, more
    <3>2. \A z \in Assets : /\ Held(new, z) = Held(old, z) + (IF z = Native THEN more ELSE 0)
                            /\ Held(old, z) \in Nat
      BY <3>1, HeldMore
    <3> QED BY <3>2 DEF old, new, more
  <2>4. ASSUME NEW asset \in Assets
        PROVE  Held(state'.balance, asset) + (IF asset = Native THEN state'.fees ELSE 0)
                 = Held(state.balance, asset) + (IF asset = Native THEN state.fees ELSE 0)
    <3>1. CASE asset = Native
      <4>1. /\ Held(state'.balance, asset) = Held(state.balance, asset) + state.fees
            /\ Held(state.balance, asset) \in Nat /\ state.fees \in Nat /\ state'.fees = 0
        BY <1>2, <1>3, <2>3, <3>1
      <4> QED BY <3>1, <4>1
    <3>2. CASE asset # Native
      BY <2>3, <3>2
    <3> QED BY <3>1, <3>2
  <2> QED BY <1>1, <1>3, <2>4 DEF AssetsConserved, IInv
<1>10. ShortfallInv'
  BY <1>1 DEF IInv, ShortfallInv
<1> QED BY <1>7, <1>8, <1>9, <1>10 DEF IInv

(* The funds that the Sequencer accounts for are a number.                 *)
LEMMA FundsType ==
    ASSUME NEW s, StateType(s), NEW asset \in Assets
    PROVE  Funds(s, asset) \in Nat /\ Held(s.balance, asset) \in Nat
<1>1. IsFiniteSet(s.packets) /\ \A q \in s.packets : q.amount \in Nat
  BY DEF StateType, IbcPacket
<1>2. InFlight(s.packets, asset) \in Nat
  BY <1>1, InFlightFacts
<1>3. ChangesOnly(s.balance, s.balance, Sudo, asset) /\ Sudo \in Accounts
  BY LedgerAssumption DEF ChangesOnly, StateType
<1>4. Held(s.balance, asset) \in Nat
  BY <1>3, HeldUpdate
<1>5. s.fees \in Nat
  BY DEF StateType
<1> QED BY <1>2, <1>4, <1>5 DEF Funds

(* what is at the counterparty's *)
Away(asset) == outside.held[asset] + outside.stranded[asset]

(* A step of the Sequencer and the counterparty.                           *)
LEMMA IbcStep ==
    ASSUME IInv, rollup' = rollup,
           outside' \in [held : [Assets -> Nat], stranded : [Assets -> Nat]],
           shortfall' \in [lent : Nat, unbacked : [Accounts -> Nat]], ShortfallInv',
           NEW t, state' = t, StateType(t), FreshIds(t), t.bridges = state.bridges,
           \A b \in Accounts \ Bridges(state) : t.deposits[b] = state.deposits[b],
           Escrowed(state)',
           \A b \in Bridges(state) : Own(t, b) + shortfall'.unbacked[b] >= Owed(t, b),
           \A asset \in Assets : Funds(t, asset) + Away(asset)' = Funds(state, asset) + Away(asset)
    PROVE  IInv'
<1>1. TypeOK /\ StateInv(state)
  BY DEF IInv
<1>2. TypeOK' /\ EventsInv'
  BY DEF IInv, TypeOK, EventsInv
<1>3. StateInv(state)'
  <2>1. FreshIds(state)'
    BY DEF FreshIds
  <2>2. \A b \in Accounts \ Bridges(state)' : NoClaims(state, b)'
    BY <1>1 DEF StateInv, NoClaims, Bridges
  <2>3. Backed(state)'
    <3>1. \A b : /\ Owed(state, b)' = Owed(t, b)
                 /\ Backing(state, b)' = Own(t, b) + shortfall'.unbacked[b]
      BY DEF Owed, Open, Own, Backing
    <3>2. Bridges(state)' = Bridges(state)
      BY DEF Bridges
    <3> QED BY <3>1, <3>2 DEF Backed
  <2> QED BY <2>1, <2>2, <2>3 DEF StateInv
<1>4. AssetsConserved'
  <2>1. ASSUME NEW asset \in Assets
        PROVE  Funds(t, asset) + Away(asset)' = Held(InitialBalance, asset) + InitialOutside[asset]
    <3>1. /\ Funds(state, asset) \in Nat
          /\ outside.held[asset] \in Nat /\ outside.stranded[asset] \in Nat
      BY <1>1, FundsType DEF TypeOK, StateInv
    <3>2. Funds(state, asset) + outside.held[asset] + outside.stranded[asset]
            = Held(InitialBalance, asset) + InitialOutside[asset]
      BY DEF IInv, AssetsConserved, Funds
    <3> QED BY <3>1, <3>2 DEF Away
  <2>2. ASSUME NEW asset \in Assets
        PROVE  Funds(t, asset) + outside'.held[asset] + outside'.stranded[asset]
                 = Held(InitialBalance, asset) + InitialOutside[asset]
    <3>1. /\ Funds(t, asset) \in Nat
          /\ outside'.held[asset] \in Nat /\ outside'.stranded[asset] \in Nat
      BY FundsType
    <3>2. Away(asset)' = outside'.held[asset] + outside'.stranded[asset]
      BY DEF Away
    <3> QED BY <2>1, <3>1, <3>2
  <2> QED BY <2>2 DEF AssetsConserved, Funds
<1> QED BY <1>2, <1>3, <1>4 DEF IInv

(* s after an account is credited, out of the escrow if the asset is ours, *)
(* with the packets P left                                                 *)
Credit(s, x, asset, amount, P) ==
    [s EXCEPT !.balance[x][asset] = @ + amount,
              !.escrow[asset] = IF asset = Native THEN @ - amount ELSE @, !.packets = P]

(* the account is credited, and a rollup with it if isDeposit *)
Credited(s, t, x, asset, amount, isDeposit, P) ==
    /\ t.bridges = s.bridges /\ t.used = s.used /\ t.fees = s.fees /\ t.paid = s.paid
    /\ t.sent = s.sent /\ t.packets = P
    /\ t.escrow[Native] = s.escrow[Native] - (IF asset = Native THEN amount ELSE 0)
    /\ \A b \in Accounts :
          t.deposits[b] = s.deposits[b] + (IF isDeposit /\ b = x THEN amount ELSE 0)
    /\ \A b \in Accounts, z \in Assets :
          t.balance[b][z] = s.balance[b][z] + (IF b = x /\ z = asset THEN amount ELSE 0)
    /\ \A z \in Assets : /\ Held(t.balance, z) = Held(s.balance, z) + (IF z = asset THEN amount ELSE 0)
                         /\ Held(s.balance, z) \in Nat

(* What refund_tokens and receive_tokens do to the receiver and the escrow. *)
LEMMA CreditFacts ==
    ASSUME NEW s, StateType(s), NEW x \in Accounts, NEW asset \in Assets, NEW amount \in Nat,
           asset = Native => s.escrow[asset] >= amount, NEW isDeposit \in BOOLEAN,
           NEW P \in SUBSET s.packets, NEW d,
           d = IF isDeposit THEN Deposit(s, x, amount) ELSE s
    PROVE  /\ StateType(Credit(d, x, asset, amount, P))
           /\ Credited(s, Credit(d, x, asset, amount, P), x, asset, amount, isDeposit, P)
<1>1. /\ StateType(d) /\ d.balance = s.balance /\ d.bridges = s.bridges /\ d.used = s.used
      /\ d.fees = s.fees /\ d.paid = s.paid /\ d.escrow = s.escrow
      /\ d.packets = s.packets /\ d.sent = s.sent
      /\ \A b \in Accounts :
            d.deposits[b] = s.deposits[b] + (IF isDeposit /\ b = x THEN amount ELSE 0)
  <2>1. CASE isDeposit
    <3>1. StateType(d) /\ Deposited(s, d, x, amount)
      BY <2>1, DepositFacts
    <3> QED BY <2>1, <3>1 DEF Deposited
  <2>2. CASE ~ isDeposit
    <3>1. d = s /\ \A b \in Accounts : s.deposits[b] \in Nat
      BY <2>2 DEF StateType
    <3> QED BY <2>2, <3>1
  <2> QED BY <2>1, <2>2
<1> DEFINE t == Credit(d, x, asset, amount, P)
<1>2. /\ s.balance \in [Accounts -> [Assets -> Nat]] /\ s.escrow \in [Assets -> Nat]
      /\ Native \in Assets /\ P \in SUBSET IbcPacket /\ IsFiniteSet(P)
  BY FS_Subset DEF StateType, Assets
<1>3. /\ t.balance = [s.balance EXCEPT ![x][asset] = @ + amount]
      /\ t.escrow = [s.escrow EXCEPT ![asset] = IF asset = Native THEN @ - amount ELSE @]
      /\ t.packets = P /\ t.sent = s.sent /\ t.used = s.used
      /\ t.bridges = s.bridges /\ t.deposits = d.deposits
      /\ t.fees = s.fees /\ t.paid = s.paid
  <2>1. /\ t.balance = [d.balance EXCEPT ![x][asset] = @ + amount]
        /\ t.escrow = [d.escrow EXCEPT ![asset] = IF asset = Native THEN @ - amount ELSE @]
        /\ t.packets = P /\ t.sent = d.sent /\ t.used = d.used
        /\ t.bridges = d.bridges /\ t.deposits = d.deposits
        /\ t.fees = d.fees /\ t.paid = d.paid
    BY <1>1 DEF StateType, Credit
  <2>2. /\ d.balance = s.balance /\ d.escrow = s.escrow /\ d.sent = s.sent /\ d.used = s.used
        /\ d.bridges = s.bridges /\ d.fees = s.fees /\ d.paid = s.paid
    BY <1>1
  <2> HIDE DEF t
  <2> QED BY <2>1, <2>2, Zenon
<1>4. t.balance \in [Accounts -> [Assets -> Nat]]
  <2>1. t.balance = [s.balance EXCEPT ![x][asset] = @ + amount]
    BY <1>3
  <2> HIDE DEF t
  <2>2. s.balance[x] \in [Assets -> Nat] /\ s.balance[x][asset] + amount \in Nat
    BY <1>2
  <2> QED BY <1>2, <2>1, <2>2
<1>5. t.escrow \in [Assets -> Nat]
  <2>1. asset = Native => s.escrow[asset] - amount \in Nat
    BY <1>2
  <2> QED BY SMTT(30), <1>2, <1>3, <2>1
<1>6. StateType(t)
  BY <1>1, <1>2, <1>3, <1>4, <1>5 DEF StateType, Credit
<1> HIDE DEF t
<1>7. t.escrow[Native] = s.escrow[Native] - (IF asset = Native THEN amount ELSE 0)
  BY <1>2, <1>3
<1>8. \A b \in Accounts, z \in Assets :
         t.balance[b][z] = s.balance[b][z] + (IF b = x /\ z = asset THEN amount ELSE 0)
  BY <1>2, <1>3
<1>9. \A z \in Assets : /\ Held(t.balance, z) = Held(s.balance, z) + (IF z = asset THEN amount ELSE 0)
                        /\ Held(s.balance, z) \in Nat
  <2> DEFINE old == s.balance
             new == t.balance
  <2>1. GrowsBy(old, new, x, asset, amount)
    BY <1>2, <1>4, <1>8 DEF GrowsBy, ChangesOnly
  <2> HIDE DEF old, new
  <2>2. \A z \in Assets : /\ Held(new, z) = Held(old, z) + (IF z = asset THEN amount ELSE 0)
                          /\ Held(old, z) \in Nat
    BY <2>1, HeldMore
  <2> QED BY <2>2 DEF old, new
<1>10. Credited(s, t, x, asset, amount, isDeposit, P)
  BY <1>1, <1>3, <1>7, <1>8, <1>9 DEF Credited
<1> QED BY <1>6, <1>10 DEF t

(* A rollup is credited with no more than its bridge account.              *)
LEMMA CreditedSolvent ==
    ASSUME TypeOK, NEW s, StateType(s), NEW t, StateType(t),
           NEW x \in Accounts, NEW asset \in Assets, NEW amount \in Nat, NEW isDeposit \in BOOLEAN,
           NEW P, Credited(s, t, x, asset, amount, isDeposit, P),
           isDeposit => MayDeposit(s, x, asset)
    PROVE  StaysSolvent(s, t)
<1>1. ASSUME NEW b \in Bridges(s)
      PROVE  Backing(s, b) - Owed(s, b) <= Backing(t, b) - Owed(t, b)
  <2> DEFINE z == s.bridges[b].asset
             gains == IF isDeposit /\ b = x THEN amount ELSE 0
  <2>1. /\ b \in Accounts /\ z \in Assets /\ s.balance[b][z] \in Nat
        /\ s.deposits[b] \in Nat /\ Total(Open(s, b)) \in Nat
    BY ClaimTypes
  <2>2. isDeposit /\ b = x => z = asset
    BY DEF MayDeposit
  <2>3. gains \in Nat /\ t.deposits[b] = s.deposits[b] + gains
    BY <2>1 DEF Credited
  <2>4. t.bridges = s.bridges /\ t.paid = s.paid /\ t.used = s.used
    BY DEF Credited
  <2>5. Total(Open(t, b)) + 0 <= Total(Open(s, b))
    BY <2>1, <2>4, OpenSame
  <2>6. t.balance[b][z] + 0 >= s.balance[b][z] + gains
    <3> HIDE DEF z
    <3>1. t.balance[b][z] = s.balance[b][z] + (IF b = x /\ z = asset THEN amount ELSE 0)
      BY <2>1 DEF Credited
    <3> QED BY <2>1, <2>2, <3>1
  <2> HIDE DEF gains
  <2> QED BY <2>3, <2>4, <2>5, <2>6, Surplus
<1> QED BY <1>1 DEF StaysSolvent

(* A refund gives back what was under way, and a rollup what it burned.    *)
LEMMA RefundInv ==
    ASSUME IInv, NEW p \in state.packets, Refund(p)
    PROVE  IInv'
<1>1. /\ TypeOK /\ StateInv(state) /\ StateType(state) /\ FreshIds(state)
      /\ Native \in Assets /\ outside \in [held : [Assets -> Nat], stranded : [Assets -> Nat]]
      /\ shortfall \in [lent : Nat, unbacked : [Accounts -> Nat]]
  BY DEF IInv, StateInv, TypeOK, Assets
<1>2. /\ p.sender \in Accounts /\ p.asset \in Assets /\ p.amount \in Nat /\ p.memo \in BOOLEAN
      /\ IsFiniteSet(state.packets) /\ \A q \in state.packets : q.amount \in Nat
  BY <1>1 DEF StateType, IbcPacket
<1> DEFINE x == p.sender
           asset == p.asset
           amount == p.amount
           dep == p.memo
           P == state.packets \ {p}
           d == IF dep THEN Deposit(state, x, amount) ELSE state
           t == Credit(d, x, asset, amount, P)
<1>3. IsRefundSourceZone(p.asset) <=> p.asset = Native
  BY <1>2, LedgerAssumption DEF IsRefundSourceZone, Assets
<1>4. /\ asset = Native => state.escrow[asset] >= amount
      /\ dep => MayDeposit(state, x, asset)
      /\ state' = t /\ rollup' = rollup /\ outside' = outside
  <2>1. d.packets = state.packets
    <3>1. StateType(state) /\ x \in Accounts /\ amount \in Nat
      BY <1>1, <1>2
    <3> HIDE DEF x, amount
    <3>2. Deposited(state, Deposit(state, x, amount), x, amount)
      BY <3>1, DepositFacts
    <3> QED BY <3>2 DEF Deposited
  <2>2. state' = [d EXCEPT !.balance[p.sender][p.asset] = @ + p.amount,
                           !.escrow[p.asset] = IF IsRefundSourceZone(p.asset) THEN @ - p.amount
                                                                              ELSE @,
                           !.packets = @ \ {p}]
    BY DEF Refund
  <2>3. state' = t
    BY <1>3, <2>1, <2>2 DEF Credit
  <2> QED BY <1>3, <2>3 DEF Refund
<1>5. x \in Accounts /\ asset \in Assets /\ amount \in Nat /\ dep \in BOOLEAN /\ P \in SUBSET state.packets
  BY <1>2
<1>6. StateType(t) /\ Credited(state, t, x, asset, amount, dep, P)
  <2> HIDE DEF x, asset, amount, dep, P
  <2>1. d = IF dep THEN Deposit(state, x, amount) ELSE state
    OBVIOUS
  <2>2. StateType(state) /\ (asset = Native => state.escrow[asset] >= amount)
    BY <1>1, <1>4
  <2> HIDE DEF d, t
  <2>3. /\ StateType(Credit(d, x, asset, amount, P))
        /\ Credited(state, Credit(d, x, asset, amount, P), x, asset, amount, dep, P)
    BY <1>5, <2>1, <2>2, CreditFacts
  <2> QED BY <2>3 DEF t
<1> HIDE DEF t, d
<1>7. StaysSolvent(state, t)
  <2> HIDE DEF x, asset, amount, dep, P
  <2> QED BY <1>1, <1>4, <1>5, <1>6, CreditedSolvent
<1>8. \A z \in Assets : /\ InFlight(state.packets, z) = InFlight(P, z) + (IF z = asset THEN amount ELSE 0)
                        /\ InFlight(P, z) \in Nat
  <2>1. \A z : InFlight(state.packets, z) =
                  InFlight(state.packets \ {p}, z) + (IF p.asset = z THEN p.amount ELSE 0)
    BY <1>2, InFlightFacts
  <2>2. IsFiniteSet(P) /\ \A q \in P : q.amount \in Nat
    BY <1>2, FS_Subset
  <2>3. \A z : InFlight(P, z) \in Nat
    BY <2>2, InFlightFacts
  <2> QED BY <2>1, <2>3
<1> HIDE DEF x, asset, amount, dep
<1>9. ASSUME NEW z \in Assets PROVE Funds(t, z) = Funds(state, z)
  <2>1. /\ Held(t.balance, z) = Held(state.balance, z) + (IF z = asset THEN amount ELSE 0)
        /\ Held(state.balance, z) \in Nat /\ t.fees = state.fees /\ t.packets = P
    BY <1>6 DEF Credited
  <2>2. /\ InFlight(state.packets, z) = InFlight(P, z) + (IF z = asset THEN amount ELSE 0)
        /\ InFlight(P, z) \in Nat
    BY <1>8
  <2>3. state.fees \in Nat
    BY <1>1 DEF StateType
  <2> HIDE DEF P
  <2> QED BY <1>5, <2>1, <2>2, <2>3 DEF Funds
<1>10. /\ shortfall' \in [lent : Nat, unbacked : [Accounts -> Nat]]
       /\ shortfall'.unbacked = shortfall.unbacked
       /\ shortfall'.lent = shortfall.lent
             + (IF asset = Native /\ p.form # "trace" THEN amount ELSE 0)
  <2> DEFINE more == IF asset = Native /\ p.form # "trace" THEN amount ELSE 0
             lent == IF IsRefundSourceZone(p.asset) /\ ~IsSource(p.asset, p.form)
                     THEN shortfall.lent + p.amount ELSE shortfall.lent
  <2>1. shortfall' = [shortfall EXCEPT !.lent = lent]
    BY DEF Refund
  <2>2. lent = shortfall.lent + more /\ lent \in Nat
    BY <1>1, <1>2, <1>3 DEF IsSource, asset, amount
  <2> HIDE DEF lent, more
  <2>3. /\ shortfall' \in [lent : Nat, unbacked : [Accounts -> Nat]]
        /\ shortfall'.unbacked = shortfall.unbacked /\ shortfall'.lent = lent
    BY <1>1, <2>1, <2>2
  <2> QED BY <2>2, <2>3 DEF more
<1>11. /\ FreshIds(t) /\ t.bridges = state.bridges
       /\ \A b \in Accounts \ Bridges(state) : t.deposits[b] = state.deposits[b]
  <2>1. \A b \in Accounts : state.deposits[b] \in Nat
    BY <1>1 DEF StateType
  <2>2. dep => x \in Bridges(state)
    BY <1>4 DEF MayDeposit
  <2>3. /\ t.used = state.used /\ t.packets = P /\ t.sent = state.sent /\ t.bridges = state.bridges
        /\ \A b \in Accounts : t.deposits[b] = state.deposits[b] + (IF dep /\ b = x THEN amount ELSE 0)
    BY <1>6 DEF Credited
  <2>4. FreshIds(t)
    BY <1>1, <2>3 DEF FreshIds
  <2> QED BY <2>1, <2>2, <2>3, <2>4
<1>12. ShortfallInv'
  <2>1. shortfall.lent \in Nat /\ shortfall'.lent >= shortfall.lent /\ shortfall'.lent \in Nat
    BY <1>1, <1>5, <1>10
  <2> QED BY <1>10, <2>1 DEF IInv, ShortfallInv
<1>13. Escrowed(state)'
  <2> DEFINE own == IF p.form = "trace" /\ asset = Native THEN amount ELSE 0
             all == IF asset = Native THEN amount ELSE 0
             lent == IF asset = Native /\ p.form # "trace" THEN amount ELSE 0
             old == InFlight(Traced(state.packets), Native)
             new == InFlight(Traced(P), Native)
  <2>1. state.escrow[Native] + shortfall.lent = old + outside.held[Native]
    BY <1>1 DEF StateInv, Backed, Escrowed
  <2>2. t.escrow[Native] = state.escrow[Native] - all /\ t.packets = P
    BY <1>6 DEF Credited
  <2>3. old = new + own /\ new \in Nat
    <3>1. IsFiniteSet(P) /\ \A q \in P : q.amount \in Nat
      BY <1>2, FS_Subset
    <3>2. old = InFlight(Traced(state.packets \ {p}), Native)
                  + (IF p.form = "trace" /\ p.asset = Native THEN p.amount ELSE 0)
      BY <1>2, TracedFacts
    <3>3. new \in Nat
      BY <3>1, TracedFacts
    <3> QED BY <3>2, <3>3 DEF asset, amount
  <2>4. own + lent = all /\ own \in Nat /\ lent \in Nat /\ all \in Nat
    BY <1>5
  <2>5. /\ state.escrow[Native] \in Nat /\ shortfall.lent \in Nat /\ outside.held[Native] \in Nat
        /\ shortfall'.lent = shortfall.lent + lent
    BY <1>1, <1>10 DEF StateType
  <2> HIDE DEF own, all, lent, old, new, P
  <2>6. t.escrow[Native] + shortfall'.lent = new + outside.held[Native]
    BY <2>1, <2>2, <2>3, <2>4, <2>5
  <2>7. state'.escrow[Native] + shortfall'.lent = InFlight(Traced(state'.packets), Native) + outside'.held[Native]
    BY <1>4, <2>2, <2>6 DEF new
  <2> QED BY <2>7 DEF Escrowed
<1>14. ASSUME NEW b \in Bridges(state)
       PROVE  Own(t, b) + shortfall'.unbacked[b] >= Owed(t, b)
  <2>1. b \in Bridges(t)
    BY <1>11 DEF Bridges
  <2>2. Backing(t, b) >= Owed(t, b)
    BY <1>1, <1>6, <1>7, <1>11, <2>1, StillSolvent
  <2> QED BY <1>10, <2>2 DEF Backing
<1>15. \A z \in Assets : Funds(t, z) + Away(z)' = Funds(state, z) + Away(z)
  BY <1>4, <1>9 DEF Away
<1>16. outside' \in [held : [Assets -> Nat], stranded : [Assets -> Nat]]
  BY <1>1, <1>4
<1> QED BY <1>4, <1>6, <1>10, <1>11, <1>12, <1>13, <1>14, <1>15, <1>16, IbcStep

(* A packet that arrives belongs to the counterparty's users.              *)
LEMMA DeliveredInv ==
    ASSUME IInv, NEW p \in state.packets, Delivered(p)
    PROVE  IInv'
<1>1. /\ TypeOK /\ StateInv(state) /\ StateType(state) /\ FreshIds(state)
      /\ Native \in Assets /\ outside \in [held : [Assets -> Nat], stranded : [Assets -> Nat]]
      /\ shortfall \in [lent : Nat, unbacked : [Accounts -> Nat]]
  BY DEF IInv, StateInv, TypeOK, Assets
<1>2. /\ p.asset \in Assets /\ p.amount \in Nat
      /\ IsFiniteSet(state.packets) /\ \A q \in state.packets : q.amount \in Nat
  BY <1>1 DEF StateType, IbcPacket
<1> DEFINE P == state.packets \ {p}
           t == [state EXCEPT !.packets = P]
<1>3. state' = t /\ rollup' = rollup /\ shortfall' = shortfall
  BY DEF Delivered
<1>4. IsFiniteSet(P) /\ P \in SUBSET IbcPacket
  BY <1>1, <1>2, FS_Subset DEF StateType
<1>5. StateType(t)
  BY <1>1, <1>4 DEF StateType
<1>6. /\ t.bridges = state.bridges /\ t.used = state.used /\ t.fees = state.fees
      /\ t.paid = state.paid /\ t.sent = state.sent /\ t.packets = P
      /\ t.escrow = state.escrow /\ t.deposits = state.deposits /\ t.balance = state.balance
  BY <1>1 DEF StateType
<1> HIDE DEF t
<1>7. \A z \in Assets : /\ InFlight(state.packets, z)
                             = InFlight(P, z) + (IF p.asset = z THEN p.amount ELSE 0)
                        /\ InFlight(P, z) \in Nat
  <2>1. \A z : InFlight(state.packets, z) =
                  InFlight(state.packets \ {p}, z) + (IF p.asset = z THEN p.amount ELSE 0)
    BY <1>2, InFlightFacts
  <2>2. \A q \in P : q.amount \in Nat
    BY <1>2
  <2>3. \A z : InFlight(P, z) \in Nat
    BY <1>4, <2>2, InFlightFacts
  <2> QED BY <2>1, <2>3
<1>8. FreshIds(t)
  BY <1>1, <1>6 DEF FreshIds
<1> HIDE DEF P
<1> DEFINE here(z) == IF p.form = "trace" /\ p.asset = z THEN p.amount ELSE 0
           lost(z) == IF p.form # "trace" /\ p.asset = z THEN p.amount ELSE 0
<1>9. /\ outside' \in [held : [Assets -> Nat], stranded : [Assets -> Nat]]
      /\ \A z \in Assets : /\ outside'.held[z] = outside.held[z] + here(z)
                           /\ outside'.stranded[z] = outside.stranded[z] + lost(z)
  <2>1. CASE p.form = "trace"
    <3>1. outside' = [outside EXCEPT !.held[p.asset] = @ + p.amount]
      BY <2>1 DEF Delivered
    <3>2. /\ outside'.held = [outside.held EXCEPT ![p.asset] = @ + p.amount]
          /\ outside'.stranded = outside.stranded
          /\ outside' \in [held : [Assets -> Nat], stranded : [Assets -> Nat]]
      BY <1>1, <1>2, <3>1
    <3> QED BY <1>1, <1>2, <2>1, <3>2
  <2>2. CASE p.form # "trace"
    <3>1. outside' = [outside EXCEPT !.stranded[p.asset] = @ + p.amount]
      BY <2>2 DEF Delivered
    <3>2. /\ outside'.stranded = [outside.stranded EXCEPT ![p.asset] = @ + p.amount]
          /\ outside'.held = outside.held
          /\ outside' \in [held : [Assets -> Nat], stranded : [Assets -> Nat]]
      BY <1>1, <1>2, <3>1
    <3> QED BY <1>1, <1>2, <2>2, <3>2
  <2> QED BY <2>1, <2>2
<1>10. ASSUME NEW b \in Bridges(state)
       PROVE  Own(t, b) + shortfall'.unbacked[b] >= Owed(t, b)
  <2>1. Backing(state, b) >= Owed(state, b)
    BY <1>1 DEF StateInv, Backed
  <2>2. Own(t, b) + shortfall'.unbacked[b] = Backing(state, b)
    BY <1>3, <1>6 DEF Own, Backing
  <2>3. Owed(t, b) = Owed(state, b)
    BY <1>6, OpenSame DEF Owed
  <2> QED BY <2>1, <2>2, <2>3
<1>11. Escrowed(state)'
  <2> DEFINE old == InFlight(Traced(state.packets), Native)
             new == InFlight(Traced(P), Native)
             moved == here(Native)
  <2>1. state.escrow[Native] + shortfall.lent = old + outside.held[Native]
    BY <1>1 DEF StateInv, Backed, Escrowed
  <2>2. old = new + moved
    BY <1>2, TracedFacts DEF P
  <2>3. new \in Nat
    <3>1. \A q \in P : q.amount \in Nat
      BY <1>2 DEF P
    <3> QED BY <1>4, <3>1, TracedFacts
  <2>4. /\ outside'.held[Native] = outside.held[Native] + moved /\ outside.held[Native] \in Nat
        /\ moved \in Nat /\ shortfall.lent \in Nat /\ state.escrow[Native] \in Nat
    BY <1>1, <1>2, <1>9 DEF StateType
  <2> HIDE DEF old, new, moved
  <2>5. state.escrow[Native] + shortfall.lent = new + outside'.held[Native]
    BY <2>1, <2>2, <2>3, <2>4
  <2> QED BY <1>3, <1>6, <2>5 DEF Escrowed, new
<1>12. ASSUME NEW z \in Assets
       PROVE  Funds(t, z) + Away(z)' = Funds(state, z) + Away(z)
  <2> DEFINE rest == Held(state.balance, z) + (IF z = Native THEN state.fees ELSE 0)
             moved == IF p.asset = z THEN p.amount ELSE 0
             near == here(z)
             far == lost(z)
  <2>1. Funds(t, z) = rest + InFlight(P, z) /\ Funds(state, z) = rest + InFlight(state.packets, z)
    BY <1>6 DEF Funds
  <2>2. rest \in Nat /\ moved \in Nat /\ near \in Nat /\ far \in Nat /\ near + far = moved
    <3>1. Held(state.balance, z) \in Nat /\ state.fees \in Nat
      BY <1>1, FundsType DEF StateType
    <3> QED BY <1>2, <3>1
  <2>3. /\ InFlight(state.packets, z) = InFlight(P, z) + moved /\ InFlight(P, z) \in Nat
        /\ outside'.held[z] = outside.held[z] + near /\ outside.held[z] \in Nat
        /\ outside'.stranded[z] = outside.stranded[z] + far /\ outside.stranded[z] \in Nat
    BY <1>1, <1>7, <1>9
  <2>4. Away(z) = outside.held[z] + outside.stranded[z] /\ Away(z)' = outside'.held[z] + outside'.stranded[z]
    BY DEF Away
  <2> DEFINE held == outside.held[z]
             stranded == outside.stranded[z]
             left == InFlight(P, z)
  <2>5. /\ Funds(t, z) = rest + left /\ Funds(state, z) = rest + (left + moved)
        /\ Away(z) = held + stranded /\ Away(z)' = (held + near) + (stranded + far)
        /\ left \in Nat /\ held \in Nat /\ stranded \in Nat
    BY <2>1, <2>3, <2>4
  <2> HIDE DEF rest, moved, near, far, held, stranded, left
  <2> QED BY <2>2, <2>5
<1>13. ShortfallInv' /\ shortfall' \in [lent : Nat, unbacked : [Accounts -> Nat]]
  BY <1>1, <1>3 DEF IInv, ShortfallInv
<1> HIDE DEF here, lost
<1> QED BY <1>3, <1>5, <1>6, <1>8, <1>9, <1>10, <1>11, <1>12, <1>13, IbcStep

(* A packet that is received: the escrow lacks its funds only after it     *)
(* paid for what it did not get, and the deposit that is kept is recorded. *)
LEMMA RecvPacketInv ==
    ASSUME IInv, NEW asset \in Assets, NEW amount \in Amounts, NEW receiver \in Accounts,
           RecvPacket(asset, amount, receiver)
    PROVE  IInv'
<1>1. /\ TypeOK /\ StateInv(state) /\ StateType(state) /\ FreshIds(state)
      /\ Native \in Assets /\ amount \in Nat
      /\ outside \in [held : [Assets -> Nat], stranded : [Assets -> Nat]]
      /\ shortfall \in [lent : Nat, unbacked : [Accounts -> Nat]]
  BY LedgerAssumption DEF IInv, StateInv, TypeOK, Assets
<1>2. \A z \in Assets : /\ InFlight(state.packets, z) \in Nat /\ state.escrow[z] \in Nat
                        /\ InFlight(Traced(state.packets), z) \in Nat
  <2>1. IsFiniteSet(state.packets) /\ \A q \in state.packets : q.amount \in Nat
    BY <1>1 DEF StateType, IbcPacket
  <2> QED BY <1>1, <2>1, InFlightFacts, TracedFacts DEF StateType
<1> DEFINE dep == receiver \in Bridges(state)
           P == state.packets
           d == IF dep THEN Deposit(state, receiver, amount) ELSE state
           short == asset = Native /\ state.escrow[asset] < amount
           t == Credit(d, receiver, asset, amount, P)
<1>3. /\ outside.held[asset] >= amount /\ (dep => MayDeposit(state, receiver, asset))
      /\ rollup' = rollup
      /\ IF short
         THEN /\ state' = d /\ outside' = outside
              /\ shortfall' = [shortfall EXCEPT !.unbacked[receiver] = IF dep THEN @ + amount ELSE @]
         ELSE /\ state' = [d EXCEPT !.escrow[asset] = IF asset = Native THEN @ - amount ELSE @,
                                    !.balance[receiver][asset] = @ + amount]
              /\ outside' = [outside EXCEPT !.held[asset] = @ - amount]
              /\ shortfall' = shortfall
  BY DEF RecvPacket, IsTransferSourceZone
<1>4. dep \in BOOLEAN /\ P \in SUBSET state.packets
  OBVIOUS
<1>5. /\ StateType(d) /\ d.balance = state.balance /\ d.bridges = state.bridges
      /\ d.used = state.used /\ d.fees = state.fees /\ d.paid = state.paid
      /\ d.escrow = state.escrow /\ d.packets = state.packets /\ d.sent = state.sent
      /\ \A b \in Accounts :
            d.deposits[b] = state.deposits[b] + (IF dep /\ b = receiver THEN amount ELSE 0)
  <2>1. CASE dep
    <3>1. StateType(d) /\ Deposited(state, d, receiver, amount)
      BY <1>1, <2>1, DepositFacts
    <3>2. \A b \in Accounts : state.deposits[b] \in Nat
      BY <1>1 DEF StateType
    <3> HIDE DEF d
    <3> QED BY <2>1, <3>1, <3>2 DEF Deposited
  <2>2. CASE ~ dep
    <3>1. d = state /\ \A b \in Accounts : state.deposits[b] \in Nat
      BY <1>1, <2>2 DEF StateType
    <3> QED BY <1>1, <2>2, <3>1
  <2> QED BY <2>1, <2>2
<1>6. d = IF dep THEN Deposit(state, receiver, amount) ELSE state
  OBVIOUS
<1>7. CASE short
  <2> DEFINE kept(b) == IF dep /\ b = receiver THEN amount ELSE 0
  <2>1. state' = d /\ outside' = outside
    BY <1>3, <1>7
  <2>2. /\ shortfall' \in [lent : Nat, unbacked : [Accounts -> Nat]] /\ shortfall'.lent = shortfall.lent
        /\ \A b \in Accounts : shortfall'.unbacked[b] = shortfall.unbacked[b] + kept(b)
    <3>1. shortfall' = [shortfall EXCEPT !.unbacked[receiver] = IF dep THEN @ + amount ELSE @]
      BY <1>3, <1>7
    <3> HIDE DEF dep
    <3>2. /\ shortfall'.unbacked
               = [shortfall.unbacked EXCEPT ![receiver] = IF dep THEN @ + amount ELSE @]
          /\ shortfall'.lent = shortfall.lent
          /\ shortfall' \in [lent : Nat, unbacked : [Accounts -> Nat]]
      BY <1>1, <3>1
    <3> QED BY <1>1, <3>2
  <2>3. ShortfallInv'
    <3>1. state.escrow[Native] + shortfall.lent
            = InFlight(Traced(state.packets), Native) + outside.held[Native]
      BY <1>1 DEF StateInv, Backed, Escrowed
    <3>2. /\ state.escrow[Native] < amount /\ outside.held[Native] >= amount
          /\ InFlight(Traced(state.packets), Native) \in Nat /\ outside.held[Native] \in Nat
          /\ state.escrow[Native] \in Nat /\ shortfall.lent \in Nat
      BY <1>1, <1>2, <1>3, <1>7
    <3>3. shortfall.lent > 0
      BY <1>1, <3>1, <3>2
    <3> QED BY <2>2, <3>3 DEF ShortfallInv
  <2> HIDE DEF d
  <2>4. FreshIds(d)
    BY <1>1, <1>5 DEF FreshIds
  <2>5. \A b \in Accounts \ Bridges(state) : d.deposits[b] = state.deposits[b]
    <3>1. \A b \in Accounts : state.deposits[b] \in Nat
      BY <1>1 DEF StateType
    <3> QED BY <1>5, <3>1
  <2>6. \A z \in Assets : Funds(d, z) + Away(z)' = Funds(state, z) + Away(z)
    BY <1>5, <2>1 DEF Funds, Away
  <2>7. outside' \in [held : [Assets -> Nat], stranded : [Assets -> Nat]]
    BY <1>1, <2>1
  <2>8. Escrowed(state)'
    BY <1>1, <1>5, <2>1, <2>2 DEF StateInv, Backed, Escrowed
  <2>9. ASSUME NEW b \in Bridges(state)
        PROVE  Own(d, b) + shortfall'.unbacked[b] >= Owed(d, b)
    <3>1. Backing(state, b) >= Owed(state, b)
      BY <1>1 DEF StateInv, Backed
    <3>2. /\ b \in Accounts /\ state.deposits[b] \in Nat /\ rollup.supply[b] \in Nat
          /\ Total(Open(state, b)) \in Nat /\ Own(state, b) \in Nat /\ shortfall.unbacked[b] \in Nat
      BY <1>1, ClaimTypes
    <3>3. Own(d, b) = Own(state, b) /\ Open(d, b) = Open(state, b)
      BY <1>5 DEF Own, Open, Unused
    <3>4. /\ shortfall'.unbacked[b] = shortfall.unbacked[b] + kept(b) /\ kept(b) \in Nat
          /\ d.deposits[b] = state.deposits[b] + kept(b)
      BY <1>1, <1>5, <2>2, <3>2
    <3> HIDE DEF kept
    <3>5. Own(state, b) + shortfall.unbacked[b] >= state.deposits[b] + rollup.supply[b] + Total(Open(state, b))
      BY <3>1 DEF Backing, Owed
    <3>6. Owed(d, b) = state.deposits[b] + kept(b) + rollup.supply[b] + Total(Open(state, b))
      BY <3>3, <3>4 DEF Owed
    <3> QED BY <3>2, <3>3, <3>4, <3>5, <3>6
  <2> HIDE DEF kept
  <2> QED BY <1>3, <1>5, <2>1, <2>2, <2>3, <2>4, <2>5, <2>6, <2>7, <2>8, <2>9, IbcStep
<1>8. CASE ~ short
  <2>1. /\ state' = [d EXCEPT !.escrow[asset] = IF asset = Native THEN @ - amount ELSE @,
                              !.balance[receiver][asset] = @ + amount]
        /\ outside' = [outside EXCEPT !.held[asset] = @ - amount] /\ shortfall' = shortfall
    BY <1>3, <1>8
  <2>2. asset = Native => state.escrow[asset] >= amount
    BY <1>1, <1>2, <1>8
  <2> HIDE DEF d
  <2>3. state' = t
    BY <1>5, <2>1 DEF Credit, StateType
  <2> HIDE DEF dep
  <2>4. StateType(t) /\ Credited(state, t, receiver, asset, amount, dep, P)
    <3>1. StateType(state) /\ amount \in Nat
      BY <1>1
    <3> HIDE DEF P
    <3> QED BY <1>4, <1>6, <2>2, <3>1, CreditFacts
  <2> HIDE DEF t
  <2>5. StaysSolvent(state, t)
    <3> HIDE DEF P
    <3> QED BY <1>1, <1>3, <1>4, <2>4, CreditedSolvent
  <2>6. /\ t.used = state.used /\ t.packets = state.packets /\ t.sent = state.sent
        /\ t.bridges = state.bridges /\ t.fees = state.fees
        /\ t.escrow[Native] = state.escrow[Native] - (IF asset = Native THEN amount ELSE 0)
        /\ \A b \in Accounts :
              t.deposits[b] = state.deposits[b] + (IF dep /\ b = receiver THEN amount ELSE 0)
        /\ \A z \in Assets :
              /\ Held(t.balance, z) = Held(state.balance, z) + (IF z = asset THEN amount ELSE 0)
              /\ Held(state.balance, z) \in Nat
    BY <2>4 DEF Credited
  <2>7. FreshIds(t)
    BY <1>1, <2>6 DEF FreshIds
  <2>8. \A b \in Accounts \ Bridges(state) : t.deposits[b] = state.deposits[b]
    <3>1. \A b \in Accounts : state.deposits[b] \in Nat
      BY <1>1 DEF StateType
    <3>2. dep => receiver \in Bridges(state)
      BY DEF dep
    <3> QED BY <2>6, <3>1, <3>2
  <2>9. /\ outside' \in [held : [Assets -> Nat], stranded : [Assets -> Nat]]
        /\ outside'.stranded = outside.stranded
        /\ \A z \in Assets :
              outside'.held[z] = outside.held[z] - (IF z = asset THEN amount ELSE 0)
    <3>1. outside.held[asset] - amount \in Nat
      BY <1>1, <1>3
    <3>2. /\ outside'.held = [outside.held EXCEPT ![asset] = @ - amount]
          /\ outside'.stranded = outside.stranded
      BY <1>1, <2>1
    <3>3. outside' \in [held : [Assets -> Nat], stranded : [Assets -> Nat]]
      BY <1>1, <2>1, <3>1
    <3> QED BY <1>1, <3>1, <3>2, <3>3
  <2>10. Escrowed(state)'
    <3>1. state.escrow[Native] + shortfall.lent
            = InFlight(Traced(state.packets), Native) + outside.held[Native]
      BY <1>1 DEF StateInv, Backed, Escrowed
    <3>2. outside'.held[Native] = outside.held[Native] - (IF asset = Native THEN amount ELSE 0)
      BY <1>1, <2>9
    <3>3. /\ InFlight(Traced(state.packets), Native) \in Nat /\ outside.held[Native] \in Nat
          /\ state.escrow[Native] \in Nat /\ shortfall.lent \in Nat
      BY <1>1, <1>2
    <3>4. t.escrow[Native] + shortfall.lent
            = InFlight(Traced(state.packets), Native) + outside'.held[Native]
      BY <1>1, <2>6, <3>1, <3>2, <3>3
    <3> QED BY <2>1, <2>3, <2>6, <3>4 DEF Escrowed
  <2>11. ASSUME NEW z \in Assets
         PROVE  Funds(t, z) + Away(z)' = Funds(state, z) + Away(z)
    <3> DEFINE moved == IF z = asset THEN amount ELSE 0
               fees == IF z = Native THEN state.fees ELSE 0
               old == Held(state.balance, z)
               way == InFlight(state.packets, z)
               out == outside.held[z]
               far == outside.stranded[z]
    <3>1. /\ Funds(t, z) = (old + moved) + fees + way /\ Funds(state, z) = old + fees + way
          /\ outside'.held[z] = out - moved /\ outside'.stranded[z] = far
      BY <2>6, <2>9 DEF Funds
    <3>2. /\ moved \in Nat /\ fees \in Nat /\ old \in Nat /\ way \in Nat /\ out \in Nat
          /\ far \in Nat
      BY <1>1, <1>2, <2>6 DEF StateType
    <3>3. Away(z) = out + far /\ Away(z)' = outside'.held[z] + outside'.stranded[z]
      BY DEF Away
    <3> HIDE DEF moved, fees, old, way, out, far
    <3> QED BY <3>1, <3>2, <3>3
  <2>12. ASSUME NEW b \in Bridges(state)
         PROVE  Own(t, b) + shortfall'.unbacked[b] >= Owed(t, b)
    <3>1. b \in Bridges(t)
      BY <2>6 DEF Bridges
    <3>2. Backing(t, b) >= Owed(t, b)
      BY <1>1, <2>4, <2>5, <2>6, <3>1, StillSolvent
    <3> QED BY <2>1, <3>2 DEF Backing
  <2>13. ShortfallInv' /\ shortfall' \in [lent : Nat, unbacked : [Accounts -> Nat]]
    BY <1>1, <2>1 DEF IInv, ShortfallInv
  <2> QED BY <1>3, <2>3, <2>4, <2>6, <2>7, <2>8, <2>9, <2>10, <2>11, <2>12, <2>13, IbcStep
<1> QED BY <1>7, <1>8

(* A withdrawal on the rollup: its claim is the supply's no more, but the  *)
(* event's.                                                                *)
LEMMA RollupWithdrawInv ==
    ASSUME IInv, NEW b \in Accounts, NEW amount \in Amounts, RollupWithdraw(b, amount)
    PROVE  IInv'
<1>1. /\ TypeOK /\ EventsInv /\ StateInv(state) /\ StateType(state) /\ FreshIds(state)
      /\ amount \in Nat /\ amount # 0
      /\ rollup.supply \in [Accounts -> Nat] /\ rollup.events \in SUBSET Event
      /\ IsFiniteSet(rollup.events)
  BY LedgerAssumption DEF IInv, StateInv, TypeOK
<1> DEFINE n == Cardinality(rollup.events)
           e == [bridge |-> b, id |-> n, amount |-> amount]
<1>2. /\ rollup.supply[b] >= amount
      /\ state' = state /\ outside' = outside /\ shortfall' = shortfall
      /\ rollup'.supply = [rollup.supply EXCEPT ![b] = @ - amount]
      /\ rollup'.events = rollup.events \cup {e}
      /\ rollup' = [supply |-> rollup'.supply, events |-> rollup'.events]
  BY DEF RollupWithdraw
<1>3. n \in Nat /\ \A d \in rollup.events : d.id \in Nat /\ d.id < n
  BY <1>1, FS_CardinalityType DEF EventsInv, Event
<1>4. e \in Event /\ e.bridge = b /\ e.id = n /\ e.amount = amount
  BY <1>1, <1>3 DEF Event
<1>5. e \notin rollup.events
  BY <1>3, <1>4
<1> HIDE DEF e
<1>6. IsFiniteSet(rollup.events \cup {e}) /\ Cardinality(rollup.events \cup {e}) = n + 1
  BY <1>1, <1>5, FS_AddElement
<1>7. IsFiniteSet(rollup'.events) /\ Cardinality(rollup'.events) = n + 1
  BY <1>2, <1>6
<1> HIDE DEF n
<1>8. rollup'.supply \in [Accounts -> Nat]
  <2>1. rollup.supply[b] - amount \in Nat
    BY <1>1, <1>2
  <2> QED BY <1>1, <1>2, <2>1
<1>9. TypeOK'
  <2>1. rollup'.events \in SUBSET Event
    BY <1>1, <1>2, <1>4
  <2>2. rollup' \in [supply : [Accounts -> Nat], events : SUBSET Event]
    BY <1>2, <1>8, <2>1
  <2>3. StateType(state)'
    BY <1>1, <1>2 DEF StateType
  <2> QED BY <1>1, <1>2, <1>7, <2>2, <2>3 DEF TypeOK
<1>10. EventsInv'
  <2>1. \A d \in rollup.events, f \in rollup.events : f.id = d.id => f = d
    BY <1>1 DEF EventsInv
  <2> QED BY <1>2, <1>3, <1>4, <1>7, <2>1 DEF EventsInv
<1>11. Unused(state, e)
  <2>1. \A u \in state.used : u[2] < n
    BY <1>1 DEF FreshIds, n
  <2> QED BY <1>3, <1>4, <2>1 DEF Unused
<1>12. \A c : Owed(state, c)' = state.deposits[c] + rollup'.supply[c] + Total(Open(state, c)')
  BY <1>2 DEF Owed
<1>13. StateInv(state)'
  <2>1. FreshIds(state)'
    <3>1. \A u \in state.used : u[2] \in Nat
      BY <1>1 DEF StateType
    <3>2. (\A p \in state.packets : p.id < state.sent) /\ \A u \in state.used : u[2] < n
      BY <1>1 DEF FreshIds, n
    <3>3. \A u \in state.used : u[2] < n + 1
      BY <1>3, <3>1, <3>2
    <3> QED BY <1>2, <1>7, <3>2, <3>3 DEF FreshIds
  <2>2. b \in Bridges(state)
    <3>1. b \notin Bridges(state) => rollup.supply[b] = 0
      BY <1>1 DEF StateInv, NoClaims
    <3> QED BY <1>1, <1>2, <3>1
  <2>3. ASSUME NEW c \in Accounts \ Bridges(state)' PROVE NoClaims(state, c)'
    <3>1. c # b /\ NoClaims(state, c)
      BY <1>1, <1>2, <2>2 DEF StateInv, Bridges
    <3> QED BY <1>1, <1>2, <1>4, <3>1 DEF NoClaims
  <2>4. ASSUME NEW c \in Bridges(state) PROVE Owed(state, c)' = Owed(state, c)
    <3>1. /\ c \in Accounts /\ state.deposits[c] \in Nat /\ rollup.supply[c] \in Nat
          /\ Total(Open(state, c)) \in Nat
      BY <1>1, ClaimTypes
    <3>2. CASE c = b
      <4>1. Open(state, c)' = Open(state, c) \cup {e}
        BY <1>2, <1>4, <1>11, <3>2 DEF Open, Unused
      <4>2. e \notin Open(state, c)
        BY <1>5 DEF Open
      <4> DEFINE S == Open(state, c) \cup {e}
      <4>3. S \ {e} = Open(state, c) /\ e \in S
        BY <4>2
      <4>4. IsFiniteSet(S) /\ \A x \in S : x.amount \in Nat
        <5>1. IsFiniteSet(Open(state, c)) /\ \A x \in Open(state, c) : x.amount \in Nat
          BY <1>1, OpenFacts
        <5> QED BY <1>1, <1>4, <5>1, FS_AddElement
      <4> HIDE DEF S
      <4>5. Total(S) = e.amount + Total(Open(state, c))
        BY <4>3, <4>4, TotalFacts
      <4>6. Total(Open(state, c)') = amount + Total(Open(state, c))
        BY <1>4, <4>1, <4>5 DEF S
      <4>7. rollup'.supply[c] = rollup.supply[c] - amount
        BY <1>1, <1>2, <3>1, <3>2
      <4> QED BY <1>1, <1>12, <3>1, <4>6, <4>7 DEF Owed
    <3>3. CASE c # b
      <4>1. Open(state, c)' = Open(state, c)
        BY <1>2, <1>4, <3>3 DEF Open, Unused
      <4>2. rollup'.supply[c] = rollup.supply[c]
        BY <1>1, <1>2, <3>1, <3>3
      <4> QED BY <1>12, <4>1, <4>2 DEF Owed
    <3> QED BY <3>2, <3>3
  <2>5. Backed(state)'
    <3>1. Bridges(state)' = Bridges(state) /\ \A c : Backing(state, c)' = Backing(state, c)
      BY <1>2 DEF Bridges, Own, Backing
    <3>2. Backed(state)
      BY <1>1 DEF StateInv
    <3> QED BY <1>2, <2>4, <3>1, <3>2 DEF Backed, Escrowed
  <2>6. StateType(state)'
    BY <1>1, <1>2 DEF StateType
  <2> QED BY <2>1, <2>3, <2>5, <2>6 DEF StateInv
<1>14. AssetsConserved' /\ ShortfallInv'
  BY <1>2 DEF IInv, AssetsConserved, ShortfallInv
<1> QED BY <1>9, <1>10, <1>13, <1>14 DEF IInv

(* A transaction that is executed.                                         *)
LEMMA ExecuteTransactionInv ==
    ASSUME IInv, NEW signer \in Accounts, NEW tx \in Transactions(signer),
           ExecuteTransaction(signer, tx)
    PROVE  IInv'
<1> DEFINE r == Executed(state, signer, tx)
           t == r[1]
<1>1. r # << >> /\ state' = t /\ UNCHANGED <<rollup, outside, shortfall>>
  BY DEF ExecuteTransaction
<1>2. StateInv(t) /\ \A asset \in Assets : Funds(t, asset) = Funds(state, asset)
  BY <1>1, TransactionKeeps DEF IInv
<1> HIDE DEF r, t
<1> QED BY <1>1, <1>2, StateStep

(* Every step keeps the inductive invariant.                               *)
LEMMA Inductive ==
    ASSUME IInv, [Next]_vars
    PROVE  IInv'
<1>1. ASSUME NEW signer \in Accounts, NEW tx \in Transactions(signer), ExecuteTransaction(signer, tx)
      PROVE  IInv'
  BY <1>1, ExecuteTransactionInv
<1>2. CASE EndBlock
  BY <1>2, EndBlockInv
<1>3. ASSUME NEW p \in state.packets, Refund(p) \/ Delivered(p) PROVE IInv'
  BY <1>3, RefundInv, DeliveredInv
<1>4. ASSUME NEW asset \in Assets, NEW amount \in Amounts, NEW receiver \in Accounts,
             RecvPacket(asset, amount, receiver)
      PROVE  IInv'
  BY <1>4, RecvPacketInv
<1>5. ASSUME NEW b \in Accounts, NEW amount \in Amounts, RollupWithdraw(b, amount) PROVE IInv'
  BY <1>5, RollupWithdrawInv
<1>6. CASE UNCHANGED vars
  <2>1. state' = state /\ UNCHANGED <<rollup, outside, shortfall>>
    BY <1>6 DEF vars
  <2>2. StateInv(state) /\ \A asset \in Assets : Funds(state, asset) = Funds(state, asset)
    BY DEF IInv
  <2> QED BY <2>1, <2>2, StateStep
<1> QED BY <1>1, <1>2, <1>3, <1>4, <1>5, <1>6 DEF Next

-----------------------------------------------------------------------------
(* The theorems about the ledger *)

(* The inductive invariant holds in every reachable state.                 *)
THEOREM LedgerInvariance == Spec => []IInv
<1>1. Init => IInv
  BY InitInv
<1>2. IInv /\ [Next]_vars => IInv'
  BY Inductive
<1> QED BY <1>1, <1>2, PTL DEF Spec

(* The types of the Sequencer's state, the rollup's and the counterparty's.*)
THEOREM LedgerTypeCorrect == Spec => []TypeOK
<1>1. IInv => TypeOK
  BY DEF IInv
<1> QED BY <1>1, LedgerInvariance, PTL

(* No sequence of transactions, blocks and packets makes or loses an       *)
(* asset, however withdrawals name theirs.                                 *)
THEOREM AssetsConservedHolds == Spec => []AssetsConserved
<1>1. IInv => AssetsConserved
  BY DEF IInv
<1> QED BY <1>1, LedgerInvariance, PTL

(* The escrow holds exactly what left of the Sequencer's own asset by its  *)
(* trace, but for what it paid back for withdrawals that named the asset   *)
(* by its hash.                                                            *)
THEOREM EscrowBackedHolds == Spec => []EscrowBacked
<1>1. IInv => EscrowBacked
  BY DEF IInv, StateInv, Backed, Escrowed, EscrowBacked
<1> QED BY <1>1, LedgerInvariance, PTL

(* Every bridge account covers what its rollup issued or may still be paid *)
(* out, but for the fees it paid itself and for the deposits of returns    *)
(* that the escrow could not pay; and there are none of these unless the   *)
(* escrow paid for withdrawals that put nothing into it.  For every return *)
(* address, memo, name of the asset, sudo and withdrawer.                  *)
THEOREM BridgeSolventHolds == Spec => []BridgeSolvent
<1>1. IInv => BridgeSolvent
  BY DEF IInv, StateInv, Backed, ShortfallInv, BridgeSolvent, Own, Backing, Owed
<1> QED BY <1>1, LedgerInvariance, PTL
-----------------------------------------------------------------------------
(* The inductive invariant of the mempool *)

Timemarked == [tx : Submitted, cost : Nat]

MempoolTypeOK ==
    /\ nonce \in [Signers -> Nat] /\ balance \in [Signers -> Nat] /\ fee \in Nat
    /\ pending \in SUBSET Timemarked /\ parked \in SUBSET Timemarked
    /\ contained \in SUBSET Submitted /\ dropped \in SUBSET Submitted
    /\ check \in [Checkers -> [pc : {"idle", "is_tracked", "insert"}, tx : Submitted \cup {NoTx},
                               nonce : Nat, balance : Nat, cost : Nat]]
    /\ DOMAIN consensus = {"pc", "queue", "adds", "drops", "recost"}
    /\ consensus.pc \in {"idle", "prepare", "maintain", "flush", "flush_invalid"}
    /\ consensus.queue \in SUBSET Submitted /\ consensus.drops \in SUBSET Submitted
    /\ consensus.recost \in BOOLEAN

(* an account has one transaction of a nonce in a container *)
OnePerNonce(C) ==
    \A d, e \in C : d.tx.acct = e.tx.acct /\ d.tx.nonce = e.tx.nonce => d = e

(* from the account's nonce up to a transaction's there is no gap *)
NoGap(C) ==
    \A e \in C : \A n \in nonce[e.tx.acct]..e.tx.nonce :
        \E d \in C : d.tx.acct = e.tx.acct /\ d.tx.nonce = n

(* The chain may have advanced since a CheckTx read it, never the contrary; *)
(* what is about to be inserted is not tracked, nor twice in flight.       *)
ChecksInv ==
    \A c \in Checkers :
        /\ check[c].pc # "idle" => /\ check[c].tx \in Submitted
                                   /\ check[c].nonce <= nonce[check[c].tx.acct]
        /\ check[c].pc = "insert" => check[c].tx \notin contained
        /\ \A d \in Checkers : c # d /\ check[c].tx = check[d].tx => check[c].tx = NoTx

(* What the consensus task is about to untrack has left the pool and is    *)
(* still tracked, so that it cannot be inserted meanwhile.                 *)
DropsInv ==
    /\ consensus.drops \cap Pool = {} /\ consensus.drops \subseteq contained
    /\ consensus.pc \notin {"flush", "flush_invalid"} => consensus.drops = {}

MempoolInv ==
    /\ MempoolTypeOK
    /\ OnePerNonce(pending) /\ OnePerNonce(parked) /\ NoGap(pending)
    /\ TrackedMatchesPool /\ ChecksInv /\ DropsInv

-----------------------------------------------------------------------------
(* Containers *)

(* A submitted transaction has a signer, a nonce and a cost.               *)
LEMMA SignersOf == \A t \in Submitted : t.acct \in Signers /\ t.nonce \in Nat /\ t.cost \in Nat
BY MempoolAssumption DEF Signers

(* A container with one transaction per nonce is finite, since the         *)
(* transactions submitted are.                                             *)
LEMMA FiniteContainer ==
    ASSUME NEW C \in SUBSET Timemarked, OnePerNonce(C)
    PROVE  IsFiniteSet(C)
<1> DEFINE f == [e \in C |-> e.tx]
<1>1. f \in [C -> Submitted]
  BY DEF Timemarked
<1>2. \A d, e \in C : f[d] = f[e] => d = e
  BY DEF OnePerNonce
<1>3. f \in Injection(C, Submitted)
  BY <1>1, <1>2 DEF Injection, IsInjective
<1> QED BY <1>3, FS_Injection, MempoolAssumption

(* What the proofs use of the cost of some transactions.                   *)
LEMMA CostFacts ==
    ASSUME NEW C \in SUBSET Timemarked, IsFiniteSet(C)
    PROVE  /\ SumCost(C) \in Nat
           /\ C = {} => SumCost(C) = 0
           /\ \A e \in C : SumCost(C) = e.cost + SumCost(C \ {e})
<1> DEFINE f == [e \in C |-> e.cost]
<1>1. SumCost(C) = SumFunctionOnSet(f, C)
  BY DEF SumCost, SumFunction
<1>2. \A x \in C : f[x] \in Nat
  BY DEF Timemarked
<1>3. /\ SumFunctionOnSet(f, C) \in Nat
      /\ C = {} => SumFunctionOnSet(f, C) = 0
      /\ \A a \in C : SumFunctionOnSet(f, C) = f[a] + SumFunctionOnSet(f, C \ {a})
  <2> HIDE DEF f
  <2> QED BY <1>2, SumFacts
<1>4. ASSUME NEW a \in C PROVE SumCost(C) = a.cost + SumCost(C \ {a})
  <2> DEFINE R == C \ {a}
             k == [x \in R |-> x.cost]
  <2>1. SumCost(R) = SumFunctionOnSet(k, R)
    BY DEF SumCost, SumFunction
  <2>2. SumFunctionOnSet(f, R) = SumFunctionOnSet(k, R)
    <3>1. IsFiniteSet(R) /\ \A x \in R : f[x] = k[x]
      BY FS_Subset
    <3> HIDE DEF f, k, R
    <3> QED BY <3>1, SumEqual
  <2>3. f[a] = a.cost
    OBVIOUS
  <2>4. SumFunctionOnSet(f, C) = f[a] + SumFunctionOnSet(f, R)
    BY <1>3
  <2> QED BY <1>1, <2>1, <2>2, <2>3, <2>4
<1> QED BY <1>1, <1>3, <1>4

(* Fewer transactions cost no more.                                        *)
LEMMA CostMonotone ==
    ASSUME NEW D \in SUBSET Timemarked, IsFiniteSet(D), NEW C \in SUBSET D
    PROVE  SumCost(C) <= SumCost(D)
<1> DEFINE T == {n \in Nat : \E B \in SUBSET D :
                     C \subseteq B /\ Cardinality(B) = n /\ SumCost(C) > SumCost(B)}
<1>1. ASSUME T # {} PROVE FALSE
  <2>1. PICK n \in T : \A m \in T : n <= m
    BY <1>1, LeastNatural
  <2>2. PICK B \in SUBSET D : C \subseteq B /\ Cardinality(B) = n /\ SumCost(C) > SumCost(B)
    BY <2>1
  <2>3. /\ IsFiniteSet(B) /\ B \in SUBSET Timemarked /\ SumCost(B) \in Nat
        /\ IsFiniteSet(C) /\ C \in SUBSET Timemarked /\ SumCost(C) \in Nat
    BY FS_Subset, CostFacts
  <2>4. PICK e \in B : e \notin C
    BY <2>2, <2>3
  <2> DEFINE R == B \ {e}
  <2>5. /\ R \in SUBSET D /\ C \subseteq R
        /\ IsFiniteSet(R) /\ R \in SUBSET Timemarked /\ SumCost(R) \in Nat
    BY <2>2, <2>3, <2>4, FS_Subset, CostFacts
  <2>6. n \in Nat /\ Cardinality(R) = n - 1 /\ Cardinality(R) \in Nat
    BY <2>2, <2>3, <2>5, FS_RemoveElement, FS_CardinalityType
  <2>7. SumCost(B) = e.cost + SumCost(R) /\ e.cost \in Nat
    BY <2>3, CostFacts DEF Timemarked
  <2>8. SumCost(C) > SumCost(R)
    <3> HIDE DEF R
    <3> QED BY <2>2, <2>3, <2>5, <2>7
  <2>9. n - 1 \in T
    BY <2>5, <2>6, <2>8
  <2> HIDE DEF T
  <2> QED BY <2>1, <2>6, <2>9
<1>2. Cardinality(D) \in Nat /\ D \in SUBSET D
  BY FS_CardinalityType
<1>3. IsFiniteSet(C) /\ C \in SUBSET Timemarked
  BY FS_Subset
<1>4. SumCost(C) \in Nat /\ SumCost(D) \in Nat
  BY <1>3, CostFacts
<1>5. ~ (SumCost(C) > SumCost(D))
  BY <1>1, <1>2
<1> QED BY <1>4, <1>5

(* the transactions of one account *)
OneSigner(C) == \A d, e \in C : d.tx.acct = e.tx.acct

Below(C, e) == {d \in C : d.tx.nonce < e.tx.nonce}

(* ByNonce enumerates the transactions of an account.                      *)
LEMMA ByNonceFacts ==
    ASSUME NEW C \in SUBSET Timemarked, OnePerNonce(C), OneSigner(C)
    PROVE  /\ Cardinality(C) \in Nat
           /\ \A i \in 1..Cardinality(C) : ByNonce(C)[i] \in C
           /\ \A i, j \in 1..Cardinality(C) : ByNonce(C)[i] = ByNonce(C)[j] => i = j
           /\ \A e \in C : \E i \in 1..Cardinality(C) : ByNonce(C)[i] = e
           /\ \A i \in 1..Cardinality(C) : Cardinality(Below(C, ByNonce(C)[i])) = i - 1
<1> DEFINE n == Cardinality(C)
           f == [e \in C |-> Cardinality(Below(C, e)) + 1]
<1>1. IsFiniteSet(C) /\ n \in Nat
  BY FiniteContainer, FS_CardinalityType
<1>2. ASSUME NEW e \in C
      PROVE  /\ IsFiniteSet(Below(C, e)) /\ Cardinality(Below(C, e)) \in Nat
             /\ e.tx.nonce \in Nat
  <2>1. Below(C, e) \in SUBSET C
    BY DEF Below
  <2> QED BY <1>1, <2>1, FS_Subset, FS_CardinalityType, SignersOf DEF Timemarked
<1>3. ASSUME NEW e \in C PROVE f[e] \in 1..n
  <2>0. e.tx.nonce \in Nat
    BY <1>2
  <2>1. e \notin Below(C, e) /\ Below(C, e) \in SUBSET C
    BY <2>0 DEF Below
  <2>2. Below(C, e) \in SUBSET (C \ {e}) /\ IsFiniteSet(C \ {e}) /\ Cardinality(C \ {e}) = n - 1
    BY <1>1, <2>1, FS_RemoveElement
  <2>3. Cardinality(Below(C, e)) <= n - 1
    BY <2>2, FS_Subset
  <2> QED BY <1>1, <1>2, <2>3
<1>4. ASSUME NEW d \in C, NEW e \in C, d.tx.nonce < e.tx.nonce PROVE f[d] < f[e]
  <2>0. d.tx.nonce \in Nat /\ e.tx.nonce \in Nat /\ \A x \in C : x.tx.nonce \in Nat
    BY <1>2
  <2>1. /\ d \notin Below(C, d) /\ Below(C, d) \cup {d} \in SUBSET Below(C, e)
    BY <2>0, <1>4 DEF Below
  <2>2. Cardinality(Below(C, d) \cup {d}) = Cardinality(Below(C, d)) + 1
    BY <1>2, <2>1, FS_AddElement
  <2>3. Cardinality(Below(C, d) \cup {d}) <= Cardinality(Below(C, e))
    BY <1>2, <2>1, FS_Subset
  <2> QED BY <1>2, <2>2, <2>3
<1>5. ASSUME NEW d \in C, NEW e \in C, f[d] = f[e] PROVE d = e
  <2>1. ~ (d.tx.nonce < e.tx.nonce) /\ ~ (e.tx.nonce < d.tx.nonce)
    <3>1. f[d] \in 1..n /\ f[e] \in 1..n
      BY <1>3
    <3> HIDE DEF f, n
    <3> QED BY <1>1, <1>4, <1>5, <3>1
  <2>2. d.tx.nonce = e.tx.nonce
    BY <1>2, <2>1
  <2> QED BY <2>2 DEF OnePerNonce, OneSigner
<1>6. f \in Injection(C, 1..n)
  <2>1. f \in [C -> 1..n]
    BY <1>3
  <2>2. DOMAIN f = C
    OBVIOUS
  <2> HIDE DEF f
  <2> QED BY <1>5, <2>1, <2>2 DEF Injection, IsInjective
<1>7. f \in Surjection(C, 1..n)
  <2>1. IsFiniteSet(1..n) /\ Cardinality(1..n) = n
    BY <1>1, FS_Interval
  <2> HIDE DEF f
  <2> QED BY <1>6, <2>1, FS_Injection
<1>8. ASSUME NEW i \in 1..n 
      PROVE  /\ ByNonce(C)[i] \in C /\ f[ByNonce(C)[i]] = i
             /\ Cardinality(Below(C, ByNonce(C)[i])) = i - 1
  <2>1. \E e \in C : f[e] = i
    <3> HIDE DEF f
    <3> QED BY <1>7 DEF Surjection
  <2>2. \E e \in C : Cardinality(Below(C, e)) = i - 1
    BY <1>2, <2>1
  <2>3. ByNonce(C)[i] = CHOOSE e \in C : Cardinality(Below(C, e)) = i - 1
    BY DEF ByNonce, Below
  <2> DEFINE x == CHOOSE e \in C : Cardinality(Below(C, e)) = i - 1
  <2>4. x \in C /\ Cardinality(Below(C, x)) = i - 1
    BY <2>2, Zenon
  <2> HIDE DEF x
  <2>5. f[x] = i
    BY <2>4
  <2> QED BY <2>3, <2>4, <2>5, Zenon DEF x
<1> HIDE DEF f
<1>9. \A i, j \in 1..n : ByNonce(C)[i] = ByNonce(C)[j] => i = j
  BY <1>8, Zenon
<1>10. ASSUME NEW e \in C PROVE \E i \in 1..n : ByNonce(C)[i] = e
  <2>1. f[e] \in 1..n
    BY <1>3
  <2>2. ByNonce(C)[f[e]] = e
    BY <1>5, <1>8, <2>1, Zenon
  <2> QED BY <2>1, <2>2, Zenon
<1> QED BY <1>1, <1>8, <1>9, <1>10, Zenon

(* One of an account's transactions has the highest nonce.                 *)
LEMMA Highest ==
    ASSUME NEW C \in SUBSET Timemarked, OnePerNonce(C), OneSigner(C), C # {}
    PROVE  \E e \in C : \A d \in C : d.tx.nonce <= e.tx.nonce
<1> DEFINE n == Cardinality(C)
           e == ByNonce(C)[n]
<1>1. IsFiniteSet(C) /\ n \in Nat /\ n # 0
  BY FiniteContainer, FS_CardinalityType, FS_EmptySet
<1>2. n \in 1..n
  BY <1>1
<1>3. e \in C
  BY <1>2, ByNonceFacts
<1>4. Cardinality(Below(C, e)) = n - 1
  BY <1>2, ByNonceFacts
<1>5. \A d \in C : d.tx.nonce \in Nat
  BY SignersOf DEF Timemarked
<1> HIDE DEF e
<1>6. Below(C, e) \in SUBSET (C \ {e})
  BY <1>3, <1>5 DEF Below
<1>7. IsFiniteSet(C \ {e}) /\ Cardinality(C \ {e}) = n - 1
  BY <1>1, <1>3, FS_RemoveElement
<1>8. C \ {e} = Below(C, e)
  BY <1>4, <1>6, <1>7, FS_Subset
<1>9. \A d \in C : d.tx.nonce <= e.tx.nonce
  <2>1. ASSUME NEW d \in C PROVE d = e \/ d.tx.nonce < e.tx.nonce
    BY <1>8 DEF Below
  <2> QED BY <1>3, <1>5, <2>1
<1> QED BY <1>3, <1>9

-----------------------------------------------------------------------------
(* Moving transactions into a container, one after the other *)

(* g gives what is in pending after each of the first m moves *)
PendingMoves(g, P, C, n, b, m) ==
    /\ g = [i \in 0..m |-> g[i]] /\ g[0] = [set |-> P, failed |-> {}]
    /\ \A i \in 1..m : g[i] = AddPending(g[i - 1], ByNonce(C)[i], n, b)

(* Promotion moves the transactions one by one. *)
LEMMA AddAllPendingDefined ==
    ASSUME NEW P, NEW C, NEW n, NEW b, Cardinality(C) \in Nat
    PROVE  \E g : PendingMoves(g, P, C, n, b, Cardinality(C)) /\ AddAllPending(P, C, n, b) = g[Cardinality(C)]
<1> DEFINE T == {m \in Nat : ~ \E g : PendingMoves(g, P, C, n, b, m)}
<1>1. ASSUME T # {} PROVE FALSE
  <2>1. PICK m \in T : \A y \in T : m <= y
    BY <1>1, LeastNatural
  <2>2. CASE m = 0
    <3>1. PendingMoves([k \in 0..0 |-> [set |-> P, failed |-> {}]], P, C, n, b, 0)
      BY DEF PendingMoves
    <3> QED BY <2>1, <2>2, <3>1
  <2>3. CASE m # 0
    <3>1. m - 1 \in Nat /\ m - 1 \notin T /\ m \in Nat
      <4> HIDE DEF T
      <4>1. m \in Nat
        BY DEF T
      <4> QED BY <2>1, <2>3, <4>1
    <3>2. PICK g : PendingMoves(g, P, C, n, b, m - 1)
      BY <3>1
    <3> DEFINE h == [k \in 0..m |-> IF k = m THEN AddPending(g[m - 1], ByNonce(C)[m], n, b) ELSE g[k]]
    <3>3. h = [i \in 0..m |-> h[i]] /\ h[0] = [set |-> P, failed |-> {}]
      <4>1. 0 \in 0..m /\ 0 # m /\ g[0] = [set |-> P, failed |-> {}]
        BY <2>3, <3>1, <3>2 DEF PendingMoves
      <4> QED BY <4>1
    <3>4. ASSUME NEW k \in 1..m PROVE h[k] = AddPending(h[k - 1], ByNonce(C)[k], n, b)
      <4>1. k \in 0..m /\ k - 1 \in 0..m /\ k - 1 # m
        BY <3>1
      <4>2. h[k - 1] = g[k - 1]
        BY <4>1
      <4>3. CASE k = m
        BY <4>1, <4>2, <4>3
      <4>4. CASE k # m
        <5>1. k \in 1..(m - 1) /\ h[k] = g[k]
          BY <3>1, <4>1, <4>4
        <5> QED BY <3>2, <4>2, <5>1 DEF PendingMoves
      <4> QED BY <4>3, <4>4
    <3>5. PendingMoves(h, P, C, n, b, m)
      <4> HIDE DEF h
      <4> QED BY <3>3, <3>4, Zenon DEF PendingMoves
    <3> QED BY <2>1, <3>5
  <2> QED BY <2>2, <2>3
<1>2. PICK g : PendingMoves(g, P, C, n, b, Cardinality(C))
  BY <1>1
<1> DEFINE Def(after) == [i \in 0..Cardinality(C) |->
               IF i = 0 THEN [set |-> P, failed |-> {}] ELSE AddPending(after[i - 1], ByNonce(C)[i], n, b)]
           result == CHOOSE after : after = Def(after)
<1>3. g = Def(g)
  <2>1. g = [i \in 0..Cardinality(C) |-> g[i]]
    BY <1>2, Zenon DEF PendingMoves
  <2>2. ASSUME NEW i \in 0..Cardinality(C) PROVE g[i] = Def(g)[i]
    <3>1. CASE i = 0
      BY <1>2, <3>1 DEF PendingMoves
    <3>2. CASE i # 0
      <4>1. i \in 1..Cardinality(C)
        BY <3>2
      <4>2. g[i] = AddPending(g[i - 1], ByNonce(C)[i], n, b)
        BY <1>2, <4>1 DEF PendingMoves
      <4> QED BY <3>2, <4>2
    <3> QED BY <3>1, <3>2
  <2>3. Def(g) = [i \in 0..Cardinality(C) |-> Def(g)[i]]
    OBVIOUS
  <2> HIDE DEF Def
  <2> QED BY <2>1, <2>2, <2>3
<1>4. result = Def(result)
  BY <1>3, Zenon
<1>5. AddAllPending(P, C, n, b) = result[Cardinality(C)]
  BY DEF AddAllPending
<1> HIDE DEF result
<1>6. PendingMoves(result, P, C, n, b, Cardinality(C))
  <2>1. result = [i \in 0..Cardinality(C) |-> result[i]]
    <3>1. Def(result) = [i \in 0..Cardinality(C) |-> Def(result)[i]]
      OBVIOUS
    <3> HIDE DEF Def
    <3> QED BY <1>4, <3>1
  <2>2. \A i \in 0..Cardinality(C) : result[i] =
           IF i = 0 THEN [set |-> P, failed |-> {}] ELSE AddPending(result[i - 1], ByNonce(C)[i], n, b)
    <3>1. \A i \in 0..Cardinality(C) : Def(result)[i] =
           IF i = 0 THEN [set |-> P, failed |-> {}] ELSE AddPending(result[i - 1], ByNonce(C)[i], n, b)
      OBVIOUS
    <3> HIDE DEF Def
    <3> QED BY <1>4, <3>1
  <2>3. \A i \in 1..Cardinality(C) : i \in 0..Cardinality(C) /\ i # 0
    OBVIOUS
  <2>4. 0 \in 0..Cardinality(C)
    OBVIOUS
  <2> QED BY <2>1, <2>2, <2>3, <2>4, Zenon DEF PendingMoves
<1> QED BY <1>5, <1>6

(* g gives what is in parked after each of the first m moves *)
ParkedMoves(g, K, C, n, m) ==
    /\ g = [i \in 0..m |-> g[i]] /\ g[0] = [set |-> K, failed |-> {}]
    /\ \A i \in 1..m : g[i] = AddParked(g[i - 1], ByNonce(C)[i], n)

(* Demotion moves the transactions one by one. *)
LEMMA AddAllParkedDefined ==
    ASSUME NEW K, NEW C, NEW n, Cardinality(C) \in Nat
    PROVE  \E g : ParkedMoves(g, K, C, n, Cardinality(C)) /\ AddAllParked(K, C, n) = g[Cardinality(C)]
<1> DEFINE T == {m \in Nat : ~ \E g : ParkedMoves(g, K, C, n, m)}
<1>1. ASSUME T # {} PROVE FALSE
  <2>1. PICK m \in T : \A y \in T : m <= y
    BY <1>1, LeastNatural
  <2>2. CASE m = 0
    <3>1. ParkedMoves([k \in 0..0 |-> [set |-> K, failed |-> {}]], K, C, n, 0)
      BY DEF ParkedMoves
    <3> QED BY <2>1, <2>2, <3>1
  <2>3. CASE m # 0
    <3>1. m - 1 \in Nat /\ m - 1 \notin T /\ m \in Nat
      <4> HIDE DEF T
      <4>1. m \in Nat
        BY DEF T
      <4> QED BY <2>1, <2>3, <4>1
    <3>2. PICK g : ParkedMoves(g, K, C, n, m - 1)
      BY <3>1
    <3> DEFINE h == [k \in 0..m |-> IF k = m THEN AddParked(g[m - 1], ByNonce(C)[m], n) ELSE g[k]]
    <3>3. h = [i \in 0..m |-> h[i]] /\ h[0] = [set |-> K, failed |-> {}]
      <4>1. 0 \in 0..m /\ 0 # m /\ g[0] = [set |-> K, failed |-> {}]
        BY <2>3, <3>1, <3>2 DEF ParkedMoves
      <4> QED BY <4>1
    <3>4. ASSUME NEW k \in 1..m PROVE h[k] = AddParked(h[k - 1], ByNonce(C)[k], n)
      <4>1. k \in 0..m /\ k - 1 \in 0..m /\ k - 1 # m
        BY <3>1
      <4>2. h[k - 1] = g[k - 1]
        BY <4>1
      <4>3. CASE k = m
        BY <4>1, <4>2, <4>3
      <4>4. CASE k # m
        <5>1. k \in 1..(m - 1) /\ h[k] = g[k]
          BY <3>1, <4>1, <4>4
        <5> QED BY <3>2, <4>2, <5>1 DEF ParkedMoves
      <4> QED BY <4>3, <4>4
    <3>5. ParkedMoves(h, K, C, n, m)
      <4> HIDE DEF h
      <4> QED BY <3>3, <3>4, Zenon DEF ParkedMoves
    <3> QED BY <2>1, <3>5
  <2> QED BY <2>2, <2>3
<1>2. PICK g : ParkedMoves(g, K, C, n, Cardinality(C))
  BY <1>1
<1> DEFINE Def(after) == [i \in 0..Cardinality(C) |->
               IF i = 0 THEN [set |-> K, failed |-> {}] ELSE AddParked(after[i - 1], ByNonce(C)[i], n)]
           result == CHOOSE after : after = Def(after)
<1>3. g = Def(g)
  <2>1. g = [i \in 0..Cardinality(C) |-> g[i]]
    BY <1>2, Zenon DEF ParkedMoves
  <2>2. ASSUME NEW i \in 0..Cardinality(C) PROVE g[i] = Def(g)[i]
    <3>1. CASE i = 0
      BY <1>2, <3>1 DEF ParkedMoves
    <3>2. CASE i # 0
      <4>1. i \in 1..Cardinality(C)
        BY <3>2
      <4>2. g[i] = AddParked(g[i - 1], ByNonce(C)[i], n)
        BY <1>2, <4>1 DEF ParkedMoves
      <4> QED BY <3>2, <4>2
    <3> QED BY <3>1, <3>2
  <2>3. Def(g) = [i \in 0..Cardinality(C) |-> Def(g)[i]]
    OBVIOUS
  <2> HIDE DEF Def
  <2> QED BY <2>1, <2>2, <2>3
<1>4. result = Def(result)
  BY <1>3, Zenon
<1>5. AddAllParked(K, C, n) = result[Cardinality(C)]
  BY DEF AddAllParked
<1> HIDE DEF result
<1>6. ParkedMoves(result, K, C, n, Cardinality(C))
  <2>1. result = [i \in 0..Cardinality(C) |-> result[i]]
    <3>1. Def(result) = [i \in 0..Cardinality(C) |-> Def(result)[i]]
      OBVIOUS
    <3> HIDE DEF Def
    <3> QED BY <1>4, <3>1
  <2>2. \A i \in 0..Cardinality(C) : result[i] =
           IF i = 0 THEN [set |-> K, failed |-> {}] ELSE AddParked(result[i - 1], ByNonce(C)[i], n)
    <3>1. \A i \in 0..Cardinality(C) : Def(result)[i] =
           IF i = 0 THEN [set |-> K, failed |-> {}] ELSE AddParked(result[i - 1], ByNonce(C)[i], n)
      OBVIOUS
    <3> HIDE DEF Def
    <3> QED BY <1>4, <3>1
  <2>3. \A i \in 1..Cardinality(C) : i \in 0..Cardinality(C) /\ i # 0
    OBVIOUS
  <2>4. 0 \in 0..Cardinality(C)
    OBVIOUS
  <2> QED BY <2>1, <2>2, <2>3, <2>4, Zenon DEF ParkedMoves
<1> QED BY <1>5, <1>6

(* C is what is moved to X: transactions of one account, none of them in X *)
Movable(X, C) ==
    /\ X \in SUBSET Timemarked /\ C \in SUBSET Timemarked
    /\ OnePerNonce(C) /\ OneSigner(C) /\ Hashes(X) \cap Hashes(C) = {}

(* r is what has become of X and of the first i of C *)
MovedUpTo(r, X, C, i) ==
    /\ r \in [set : SUBSET Timemarked, failed : SUBSET Submitted]
    /\ X \subseteq r.set /\ r.set \subseteq X \cup {ByNonce(C)[j] : j \in 1..i}
    /\ r.failed \subseteq {ByNonce(C)[j].tx : j \in 1..i}
    /\ Hashes(r.set) \cap r.failed = {}
    /\ \A j \in 1..i : ByNonce(C)[j].tx \in Hashes(r.set) \cup r.failed

(* r is what has become of X and C: each of C was moved or has failed *)
MovedInto(r, X, C) ==
    /\ r \in [set : SUBSET Timemarked, failed : SUBSET Submitted]
    /\ X \subseteq r.set /\ r.set \subseteq X \cup C /\ r.failed \subseteq Hashes(C)
    /\ Hashes(r.set) \cap r.failed = {}
    /\ Hashes(C) \subseteq Hashes(r.set) \cup r.failed

(* After as many moves as there are transactions, all have been moved.     *)
LEMMA MovedAll ==
    ASSUME NEW X, NEW C, Movable(X, C), NEW r, MovedUpTo(r, X, C, Cardinality(C))
    PROVE  MovedInto(r, X, C)
<1> DEFINE n == Cardinality(C)
<1>1. /\ \A i \in 1..n : ByNonce(C)[i] \in C
      /\ \A e \in C : \E i \in 1..n : ByNonce(C)[i] = e
  BY ByNonceFacts DEF Movable
<1>2. Hashes(C) \subseteq Hashes(r.set) \cup r.failed
  <2>1. ASSUME NEW e \in C PROVE e.tx \in Hashes(r.set) \cup r.failed
    <3>1. PICK i \in 1..n : ByNonce(C)[i] = e
      BY <1>1
    <3> QED BY <3>1 DEF MovedUpTo
  <2> QED BY <2>1 DEF Hashes
<1>3. {ByNonce(C)[j] : j \in 1..n} \subseteq C
  BY <1>1
<1>4. {ByNonce(C)[j].tx : j \in 1..n} \subseteq Hashes(C)
  BY <1>1 DEF Hashes
<1> HIDE DEF n
<1> QED BY <1>2, <1>3, <1>4 DEF MovedInto, MovedUpTo, n

(* One move, successful or not.                                            *)
LEMMA MoveOne ==
    ASSUME NEW X, NEW C, Movable(X, C), NEW i \in 1..Cardinality(C), NEW r, NEW q,
           MovedUpTo(r, X, C, i - 1),
           \/ q = [r EXCEPT !.set = @ \cup {ByNonce(C)[i]}]
           \/ q = [r EXCEPT !.failed = @ \cup {ByNonce(C)[i].tx}]
    PROVE  MovedUpTo(q, X, C, i)
<1> DEFINE n == Cardinality(C)
           e == ByNonce(C)[i]
<1>1. /\ n \in Nat
      /\ \A j \in 1..n : ByNonce(C)[j] \in C
      /\ \A j, k \in 1..n : ByNonce(C)[j] = ByNonce(C)[k] => j = k
  BY ByNonceFacts DEF Movable
<1>2. e \in C /\ e \in Timemarked /\ e.tx \in Submitted
  BY <1>1 DEF Movable, Timemarked
<1>3. 1..i = (1..(i - 1)) \cup {i} /\ i \notin 1..(i - 1) /\ 1..i \subseteq 1..n
  BY <1>1
<1>4. \A j \in 1..(i - 1) : ByNonce(C)[j] \in C /\ ByNonce(C)[j].tx # e.tx
  <2>1. ASSUME NEW j \in 1..(i - 1) PROVE ByNonce(C)[j] \in C /\ ByNonce(C)[j].tx # e.tx
    <3>1. j \in 1..n /\ j # i
      BY <1>3
    <3>2. ByNonce(C)[j] \in C /\ ByNonce(C)[j] # e
      BY <1>1, <3>1
    <3> QED BY <1>2, <3>2 DEF Movable, OnePerNonce
  <2> QED BY <2>1
<1>5. e.tx \notin r.failed /\ e.tx \notin Hashes(r.set)
  <2>1. e.tx \notin r.failed
    BY <1>4 DEF MovedUpTo
  <2>2. ASSUME NEW d \in r.set PROVE d.tx # e.tx
    <3>1. CASE d \in X
      BY <1>2, <3>1 DEF Movable, Hashes
    <3>2. CASE d \notin X
      <4>1. PICK j \in 1..(i - 1) : d = ByNonce(C)[j]
        BY <3>2 DEF MovedUpTo
      <4> QED BY <1>4, <4>1
    <3> QED BY <3>1, <3>2
  <2> QED BY <2>1, <2>2 DEF Hashes
<1> DEFINE D(k) == {ByNonce(C)[j] : j \in 1..k}
           H(k) == {ByNonce(C)[j].tx : j \in 1..k}
<1>6. D(i) = D(i - 1) \cup {e} /\ H(i) = H(i - 1) \cup {e.tx}
  BY <1>3
<1>7. /\ r \in [set : SUBSET Timemarked, failed : SUBSET Submitted]
      /\ X \subseteq r.set /\ r.set \subseteq X \cup D(i - 1) /\ r.failed \subseteq H(i - 1)
      /\ Hashes(r.set) \cap r.failed = {} /\ H(i - 1) \subseteq Hashes(r.set) \cup r.failed
  BY DEF MovedUpTo
<1> HIDE DEF e
<1>8. /\ q \in [set : SUBSET Timemarked, failed : SUBSET Submitted]
      /\ X \subseteq q.set /\ q.set \subseteq X \cup D(i) /\ q.failed \subseteq H(i)
      /\ Hashes(q.set) \cap q.failed = {} /\ H(i) \subseteq Hashes(q.set) \cup q.failed
  <2> HIDE DEF D, H
  <2>1. CASE q = [r EXCEPT !.set = @ \cup {e}]
    <3>1. /\ q \in [set : SUBSET Timemarked, failed : SUBSET Submitted]
          /\ q.set = r.set \cup {e} /\ q.failed = r.failed
      BY <1>2, <1>7, <2>1
    <3>2. Hashes(q.set) = Hashes(r.set) \cup {e.tx}
      BY <3>1 DEF Hashes
    <3>3. Hashes(q.set) \cap q.failed = {}
      <4>1. Hashes(r.set) \cap r.failed = {}
        BY <1>7
      <4> QED BY <1>5, <3>1, <3>2, <4>1, Zenon
    <3>4. H(i) \subseteq Hashes(q.set) \cup q.failed
      <4>1. H(i - 1) \subseteq Hashes(r.set) \cup r.failed
        BY <1>7
      <4> QED BY <1>6, <3>1, <3>2, <4>1
    <3>5. X \subseteq q.set /\ q.set \subseteq X \cup D(i) /\ q.failed \subseteq H(i)
      BY <1>6, <1>7, <3>1
    <3> QED BY <3>1, <3>3, <3>4, <3>5
  <2>2. CASE q = [r EXCEPT !.failed = @ \cup {e.tx}]
    <3>1. /\ q \in [set : SUBSET Timemarked, failed : SUBSET Submitted]
          /\ q.set = r.set /\ q.failed = r.failed \cup {e.tx}
      BY <1>2, <1>7, <2>2
    <3> QED BY <1>5, <1>6, <1>7, <3>1
  <2> QED BY <2>1, <2>2 DEF e
<1> QED BY <1>8, Zenon DEF MovedUpTo

(* Nothing has been moved before the first move.                           *)
LEMMA MoveNone ==
    ASSUME NEW X, NEW C, Movable(X, C)
    PROVE  MovedUpTo([set |-> X, failed |-> {}], X, C, 0)
BY DEF Movable, MovedUpTo

(* A container takes no second transaction of an account and a nonce.      *)
LEMMA AddKeepsOne ==
    ASSUME NEW X, OnePerNonce(X), NEW e, ~ NonceTaken(X, e)
    PROVE  OnePerNonce(X \cup {e})
BY DEF OnePerNonce, NonceTaken, Of

(* Neither does pending get a gap from a transaction that continues it, or *)
(* that has the nonce of a snapshot.                                       *)
LEMMA AddKeepsNoGap ==
    ASSUME nonce \in [Signers -> Nat], NEW X \in SUBSET Timemarked, NoGap(X),
           NEW e \in Timemarked, NEW n \in Nat, n <= nonce[e.tx.acct],
           IsSequentialNoncePreconditionMet(X, e, n)
    PROVE  NoGap(X \cup {e})
<1> DEFINE a == e.tx.acct
<1>1. a \in Signers /\ nonce[a] \in Nat /\ \A d \in X \cup {e} : d.tx.nonce \in Nat
  BY SignersOf DEF Timemarked
<1> SUFFICES ASSUME NEW x \in X \cup {e}, NEW k \in nonce[x.tx.acct]..x.tx.nonce
             PROVE  \E d \in X \cup {e} : d.tx.acct = x.tx.acct /\ d.tx.nonce = k
  BY DEF NoGap
<1>2. CASE x \in X
  BY <1>2 DEF NoGap
<1>3. CASE x = e /\ k = e.tx.nonce
  BY <1>3
<1>4. CASE x = e /\ k # e.tx.nonce
  <2>1. k \in nonce[a]..(e.tx.nonce - 1)
    BY <1>1, <1>4
  <2>2. e.tx.nonce # n
    BY <1>1, <2>1
  <2>3. PICK d \in X : d.tx.acct = a /\ d.tx.nonce + 1 = e.tx.nonce
    BY <2>2 DEF IsSequentialNoncePreconditionMet, Of
  <2>4. k \in nonce[a]..d.tx.nonce
    BY <1>1, <2>1, <2>3
  <2>5. PICK y \in X : y.tx.acct = a /\ y.tx.nonce = k
    BY <2>3, <2>4 DEF NoGap
  <2> QED BY <1>4, <2>5
<1> QED BY <1>2, <1>3, <1>4

(* X is P after promotions of account a, with nonce n and balance b *)
Promoted(X, P, a, n, b) ==
    /\ OnePerNonce(X) /\ NoGap(X)
    /\ SumCost(Of(P, a)) <= b => SumCost(Of(X, a)) <= b
    /\ \A e \in X \ P : e.tx.nonce >= n

(* Promotion keeps pending free of gaps and repetitions, and covered if it *)
(* was, whatever it promotes and in which order.                           *)
LEMMA AddAllPendingFacts ==
    ASSUME nonce \in [Signers -> Nat],
           NEW P, NEW C, Movable(P, C), OnePerNonce(P), NoGap(P),
           NEW a \in Signers, \A e \in C : e.tx.acct = a,
           NEW n \in Nat, n <= nonce[a], NEW b \in Nat
    PROVE  /\ MovedInto(AddAllPending(P, C, n, b), P, C)
           /\ Promoted(AddAllPending(P, C, n, b).set, P, a, n, b)
<1> DEFINE m == Cardinality(C)
<1>1. /\ m \in Nat
      /\ \A i \in 1..m : ByNonce(C)[i] \in C
  BY ByNonceFacts DEF Movable
<1>2. PICK g : PendingMoves(g, P, C, n, b, m) /\ AddAllPending(P, C, n, b) = g[m]
  BY <1>1, AddAllPendingDefined
<1> DEFINE Good(i) == MovedUpTo(g[i], P, C, i) /\ Promoted(g[i].set, P, a, n, b)
           T == {i \in Nat : i <= m /\ ~ Good(i)}
<1> HIDE DEF Good, m
<1>3. Good(0)
  <2>1. g[0] = [set |-> P, failed |-> {}]
    BY <1>2 DEF PendingMoves
  <2>2. MovedUpTo(g[0], P, C, 0)
    BY <2>1, MoveNone
  <2>3. Promoted(g[0].set, P, a, n, b)
    BY <2>1 DEF Promoted
  <2> QED BY <2>2, <2>3 DEF Good
<1>4. ASSUME NEW i \in 1..m, Good(i - 1) PROVE Good(i)
  <2> DEFINE e == ByNonce(C)[i]
             r == g[i - 1]
             q == g[i]
  <2>1. q = AddPending(r, e, n, b)
    BY <1>2 DEF PendingMoves
  <2>2. e \in C /\ e.tx.acct = a /\ e \in Timemarked /\ e.tx.nonce \in Nat
    BY <1>1, SignersOf DEF Movable, Timemarked
  <2>3. MovedUpTo(r, P, C, i - 1) /\ Promoted(r.set, P, a, n, b)
    BY <1>4 DEF Good
  <2> HIDE DEF e, r, q
  <2>4. MovedUpTo(q, P, C, i)
    <3>1. \/ q = [r EXCEPT !.set = @ \cup {e}] \/ q = [r EXCEPT !.failed = @ \cup {e.tx}]
      BY <2>1 DEF AddPending
    <3> QED BY <2>3, <3>1, MoveOne DEF e, m
  <2>5. CASE AddPendingResult(r.set, e, n, b) # "ok"
    <3>1. q.set = r.set
      BY <2>1, <2>3, <2>5 DEF AddPending, MovedUpTo
    <3> QED BY <2>3, <2>4, <3>1 DEF Good, r, q
  <2>6. CASE AddPendingResult(r.set, e, n, b) = "ok"
    <3>1. q.set = r.set \cup {e} /\ P \subseteq r.set
      BY <2>1, <2>3, <2>6 DEF AddPending, MovedUpTo
    <3>2. /\ e.tx.nonce >= n /\ ~ NonceTaken(r.set, e)
          /\ IsSequentialNoncePreconditionMet(r.set, e, n) /\ HasBalanceToCover(r.set, e, b)
      BY <2>2, <2>6 DEF AddPendingResult
    <3>3. OnePerNonce(q.set)
      BY <2>3, <3>1, <3>2, AddKeepsOne DEF Promoted
    <3>4. NoGap(q.set)
      BY <2>2, <2>3, <3>1, <3>2, AddKeepsNoGap DEF MovedUpTo, Promoted
    <3>5. SumCost(Of(q.set, a)) <= b
      <4>1. Of(q.set, a) = Of(r.set, a) \cup {e}
        BY <2>2, <3>1 DEF Of
      <4> QED BY <2>2, <3>2, <4>1 DEF HasBalanceToCover
    <3>6. \A x \in q.set \ P : x.tx.nonce >= n
      BY <2>3, <3>1, <3>2 DEF Promoted
    <3> QED BY <2>4, <3>3, <3>4, <3>5, <3>6 DEF Good, Promoted, q
  <2> QED BY <2>5, <2>6
<1>5. ASSUME T # {} PROVE FALSE
  <2>1. PICK i \in T : \A j \in T : i <= j
    BY <1>5, LeastNatural
  <2>2. i \in Nat /\ i <= m /\ ~ Good(i)
    BY <2>1
  <2>3. i # 0
    BY <1>3, <2>2
  <2>4. i \in 1..m /\ i - 1 \in Nat /\ i - 1 <= m /\ ~ (i <= i - 1)
    BY <1>1, <2>2, <2>3
  <2>5. Good(i - 1)
    BY <2>1, <2>4
  <2> QED BY <1>4, <2>2, <2>4, <2>5
<1>6. Good(m)
  <2>1. m <= m /\ m \notin T
    BY <1>1, <1>5
  <2> QED BY <1>1, <2>1
<1> QED BY <1>2, <1>6, MovedAll DEF Good, m

(* Demotion keeps parked free of repetitions.                              *)
LEMMA AddAllParkedFacts ==
    ASSUME NEW K, NEW C, Movable(K, C), OnePerNonce(K), NEW n
    PROVE  /\ MovedInto(AddAllParked(K, C, n), K, C)
           /\ OnePerNonce(AddAllParked(K, C, n).set)
<1> DEFINE m == Cardinality(C)
<1>1. m \in Nat
  BY ByNonceFacts DEF Movable
<1>2. PICK g : ParkedMoves(g, K, C, n, m) /\ AddAllParked(K, C, n) = g[m]
  BY <1>1, AddAllParkedDefined
<1> DEFINE Good(i) == MovedUpTo(g[i], K, C, i) /\ OnePerNonce(g[i].set)
           T == {i \in Nat : i <= m /\ ~ Good(i)}
<1> HIDE DEF Good, m
<1>3. Good(0)
  <2>1. g[0] = [set |-> K, failed |-> {}]
    BY <1>2 DEF ParkedMoves
  <2> QED BY <2>1, MoveNone DEF Good
<1>4. ASSUME NEW i \in 1..m, Good(i - 1) PROVE Good(i)
  <2> DEFINE e == ByNonce(C)[i]
             r == g[i - 1]
             q == g[i]
  <2>1. q = AddParked(r, e, n)
    BY <1>2 DEF ParkedMoves
  <2>2. MovedUpTo(r, K, C, i - 1) /\ OnePerNonce(r.set)
    BY <1>4 DEF Good
  <2> HIDE DEF e, r, q
  <2>3. MovedUpTo(q, K, C, i)
    <3>1. \/ q = [r EXCEPT !.set = @ \cup {e}] \/ q = [r EXCEPT !.failed = @ \cup {e.tx}]
      BY <2>1 DEF AddParked
    <3> QED BY <2>2, <3>1, MoveOne DEF e, m
  <2>4. CASE CanPark(r.set, e, n)
    <3>1. q.set = r.set \cup {e} /\ ~ NonceTaken(r.set, e)
      BY <2>1, <2>2, <2>4 DEF AddParked, CanPark, MovedUpTo
    <3> QED BY <2>2, <2>3, <3>1, AddKeepsOne DEF Good, q
  <2>5. CASE ~ CanPark(r.set, e, n)
    <3>1. q.set = r.set
      BY <2>1, <2>2, <2>5 DEF AddParked, MovedUpTo
    <3> QED BY <2>2, <2>3, <3>1 DEF Good, q
  <2> QED BY <2>4, <2>5
<1>5. ASSUME T # {} PROVE FALSE
  <2>1. PICK i \in T : \A j \in T : i <= j
    BY <1>5, LeastNatural
  <2>2. i \in Nat /\ i <= m /\ ~ Good(i)
    BY <2>1
  <2>3. i # 0
    BY <1>3, <2>2
  <2>4. i \in 1..m /\ i - 1 \in Nat /\ i - 1 <= m /\ ~ (i <= i - 1)
    BY <1>1, <2>2, <2>3
  <2>5. Good(i - 1)
    BY <2>1, <2>4
  <2> QED BY <1>4, <2>2, <2>4, <2>5
<1>6. Good(m)
  <2>1. m <= m /\ m \notin T
    BY <1>1, <1>5
  <2> QED BY <1>1, <2>1
<1> QED BY <1>2, <1>6, MovedAll DEF Good, m

-----------------------------------------------------------------------------
(* The maintenance of one account *)

(* a container of timemarked transactions *)
Container(C) == C \in SUBSET Timemarked /\ OnePerNonce(C)

(* What is left of a container is one.                                     *)
LEMMA SubContainer ==
    ASSUME NEW C, Container(C), NEW D \in SUBSET C
    PROVE  Container(D)
BY DEF Container, OnePerNonce

(* What is taken out of a container and what is left have no hash in       *)
(* common.                                                                 *)
LEMMA HashSplit ==
    ASSUME NEW C, Container(C), NEW D \in SUBSET C
    PROVE  /\ Hashes(C) = Hashes(C \ D) \cup Hashes(D)
           /\ Hashes(C \ D) \cap Hashes(D) = {}
<1>1. Hashes(C) = Hashes(C \ D) \cup Hashes(D)
  BY DEF Hashes
<1>2. \A d, e \in C : d.tx = e.tx => d = e
  BY DEF Container, OnePerNonce
<1> QED BY <1>1, <1>2 DEF Hashes

(* The transactions of one account are a container with one signer.        *)
LEMMA OfFacts ==
    ASSUME NEW C, Container(C), NEW a
    PROVE  /\ Of(C, a) \in SUBSET C /\ Container(Of(C, a)) /\ OneSigner(Of(C, a))
           /\ \A e \in Of(C, a) : e.tx.acct = a
<1>1. Of(C, a) \in SUBSET C
  BY DEF Of
<1>2. Container(Of(C, a))
  BY <1>1, SubContainer
<1> QED BY <1>1, <1>2 DEF Of, OneSigner

(* remove returns the hashes of what it removes.                           *)
LEMMA RemovedFacts ==
    ASSUME NEW C, Container(C), OneSigner(C)
    PROVE  /\ Removed(C) \in Seq(Submitted) /\ ToSet(Removed(C)) = Hashes(C)
           /\ Removed(C) = << >> <=> C = {}
<1> DEFINE n == Cardinality(C)
<1>1. /\ n \in Nat /\ IsFiniteSet(C)
      /\ \A i \in 1..n : ByNonce(C)[i] \in C
      /\ \A e \in C : \E i \in 1..n : ByNonce(C)[i] = e
  BY ByNonceFacts, FiniteContainer DEF Container
<1>2. \A i \in 1..n : ByNonce(C)[i].tx \in Submitted
  BY <1>1 DEF Container, Timemarked
<1>3. Removed(C) = [i \in 1..n |-> ByNonce(C)[i].tx]
  BY DEF Removed
<1> HIDE DEF n
<1>4. Removed(C) \in [1..n -> Submitted]
  BY <1>2, <1>3
<1>5. Removed(C) \in Seq(Submitted) /\ Len(Removed(C)) = n
  BY <1>1, <1>4
<1>6. ToSet(Removed(C)) = Hashes(C)
  <2>1. ToSet(Removed(C)) = {ByNonce(C)[i].tx : i \in 1..n}
    BY <1>3 DEF ToSet
  <2>2. {ByNonce(C)[i].tx : i \in 1..n} = {e.tx : e \in C}
    <3>1. ASSUME NEW e \in C PROVE e.tx \in {ByNonce(C)[i].tx : i \in 1..n}
      <4>1. PICK i \in 1..n : ByNonce(C)[i] = e
        BY <1>1
      <4> QED BY <4>1
    <3> QED BY <1>1, <3>1
  <2> QED BY <2>1, <2>2 DEF Hashes
<1>7. Removed(C) = << >> <=> n = 0
  BY <1>1, <1>5
<1>8. n = 0 <=> C = {}
  BY <1>1, FS_EmptySet DEF n
<1> QED BY <1>5, <1>6, <1>7, <1>8

(* The transactions of two sequences, one after the other.                 *)
LEMMA ToSetConcat ==
    ASSUME NEW s \in Seq(Submitted), NEW t \in Seq(Submitted)
    PROVE  s \o t \in Seq(Submitted) /\ ToSet(s \o t) = ToSet(s) \cup ToSet(t)
<1>1. s \o t \in Seq(Submitted) /\ Len(s \o t) = Len(s) + Len(t) /\ Len(s) \in Nat /\ Len(t) \in Nat
  OBVIOUS
<1>2. \A i \in 1..(Len(s) + Len(t)) : (s \o t)[i] = IF i <= Len(s) THEN s[i] ELSE t[i - Len(s)]
  OBVIOUS
<1>3. DOMAIN s = 1..Len(s) /\ DOMAIN t = 1..Len(t) /\ DOMAIN (s \o t) = 1..(Len(s) + Len(t))
  BY <1>1
<1>4. ASSUME NEW i \in 1..(Len(s) + Len(t)) PROVE (s \o t)[i] \in ToSet(s) \cup ToSet(t)
  <2>1. CASE i <= Len(s)
    <3>1. i \in 1..Len(s) /\ (s \o t)[i] = s[i]
      BY <1>1, <1>2, <2>1
    <3> QED BY <1>3, <3>1 DEF ToSet
  <2>2. CASE ~ (i <= Len(s))
    <3>1. i - Len(s) \in 1..Len(t) /\ (s \o t)[i] = t[i - Len(s)]
      BY <1>1, <1>2, <2>2
    <3> QED BY <1>3, <3>1 DEF ToSet
  <2> QED BY <2>1, <2>2
<1>5. ASSUME NEW i \in 1..Len(s) PROVE s[i] \in ToSet(s \o t)
  <2>1. i \in 1..(Len(s) + Len(t)) /\ (s \o t)[i] = s[i]
    BY <1>1, <1>2
  <2> QED BY <1>3, <2>1 DEF ToSet
<1>6. ASSUME NEW i \in 1..Len(t) PROVE t[i] \in ToSet(s \o t)
  <2>1. /\ i + Len(s) \in 1..(Len(s) + Len(t)) /\ ~ (i + Len(s) <= Len(s))
        /\ (i + Len(s)) - Len(s) = i
    BY <1>1
  <2>2. (s \o t)[i + Len(s)] = t[i]
    BY <1>2, <2>1
  <2> QED BY <1>3, <2>1, <2>2 DEF ToSet
<1>7. ToSet(s \o t) \subseteq ToSet(s) \cup ToSet(t)
  BY <1>3, <1>4 DEF ToSet
<1>8. ToSet(s) \subseteq ToSet(s \o t) /\ ToSet(t) \subseteq ToSet(s \o t)
  BY <1>3, <1>5, <1>6 DEF ToSet
<1> QED BY <1>1, <1>7, <1>8

(* Taking a transaction out with those that follow it leaves no gap.       *)
LEMMA CutKeepsNoGap ==
    ASSUME nonce \in [Signers -> Nat], NEW C, Container(C), NoGap(C), NEW D \in SUBSET C,
           \A d \in D, e \in C : /\ d.tx.acct = e.tx.acct
                                 /\ d.tx.nonce >= nonce[d.tx.acct] /\ d.tx.nonce <= e.tx.nonce
                                 => e \in D
    PROVE  NoGap(C \ D)
<1> SUFFICES ASSUME NEW e \in C \ D, NEW n \in nonce[e.tx.acct]..e.tx.nonce
             PROVE  \E d \in C \ D : d.tx.acct = e.tx.acct /\ d.tx.nonce = n
  BY DEF NoGap
<1>1. PICK d \in C : d.tx.acct = e.tx.acct /\ d.tx.nonce = n
  BY DEF NoGap
<1>2. e.tx.nonce \in Nat /\ nonce[e.tx.acct] \in Nat
  BY SignersOf DEF Container, Timemarked
<1>3. n >= nonce[e.tx.acct] /\ n <= e.tx.nonce
  BY <1>2
<1>4. d \notin D
  BY <1>1, <1>3
<1> QED BY <1>1, <1>4

(* clean_account_stale_expired                                             *)
LEMMA CleanFacts ==
    ASSUME nonce \in [Signers -> Nat], NEW C, Container(C), NEW a \in Signers, NEW expired
    PROVE  /\ Unclean(C, a, expired) \in SUBSET Of(C, a)
           /\ NoGap(C) => NoGap(C \ Unclean(C, a, expired))
           /\ \A e \in Of(C \ Unclean(C, a, expired), a) : e.tx.nonce >= nonce[a]
           /\ \A b : b # a => Of(C \ Unclean(C, a, expired), b) = Of(C, b)
<1> DEFINE D == Unclean(C, a, expired)
<1>1. D \in SUBSET Of(C, a) /\ D \in SUBSET C
  BY DEF Unclean, Stale, Of
<1>2. \A e \in C : e.tx.nonce \in Nat /\ nonce[e.tx.acct] \in Nat
  BY SignersOf DEF Container, Timemarked
<1>3. \A e \in Of(C \ D, a) : e.tx.nonce >= nonce[a]
  BY <1>2 DEF Unclean, Stale, Of
<1>4. ASSUME NEW d \in D, NEW e \in C, d.tx.acct = e.tx.acct, d.tx.nonce >= nonce[d.tx.acct]
      PROVE  e \in D
  BY <1>2, <1>4 DEF Unclean, Stale, Of
<1>5. NoGap(C) => NoGap(C \ D)
  <2> HIDE DEF D
  <2> QED BY <1>1, <1>4, CutKeepsNoGap
<1>6. \A b : b # a => Of(C \ D, b) = Of(C, b)
  BY <1>1 DEF Of
<1> QED BY <1>1, <1>3, <1>5, <1>6

(* recost_transactions changes costs only.                                 *)
LEMMA RecostFacts ==
    ASSUME fee \in Nat, NEW C, Container(C), NEW a
    PROVE  /\ Container(RecostTransactions(C, a))
           /\ Hashes(RecostTransactions(C, a)) = Hashes(C)
           /\ NoGap(C) => NoGap(RecostTransactions(C, a))
           /\ \A n : (\A e \in Of(C, a) : e.tx.nonce >= n) =>
                     \A e \in Of(RecostTransactions(C, a), a) : e.tx.nonce >= n
           /\ \A b : b # a => Of(RecostTransactions(C, a), b) = Of(C, b)
<1> DEFINE R == RecostTransactions(C, a)
<1>1. CASE ~ consensus.recost
  <2>1. R = C
    BY <1>1 DEF RecostTransactions
  <2> QED BY <2>1
<1>2. CASE consensus.recost
  <2> DEFINE New(e) == [e EXCEPT !.cost = e.tx.cost + fee]
  <2>1. R = (C \ Of(C, a)) \cup {New(e) : e \in Of(C, a)}
    BY <1>2 DEF RecostTransactions
  <2>2. ASSUME NEW e \in C PROVE New(e) \in Timemarked /\ New(e).tx = e.tx
    <3>1. e \in Timemarked /\ e.tx.cost + fee \in Nat
      BY SignersOf DEF Container, Timemarked
    <3> QED BY <3>1 DEF Timemarked
  <2> HIDE DEF New, R
  <2>3. \A x \in R : \/ x \in C /\ x.tx.acct # a
                     \/ \E e \in C : e.tx.acct = a /\ x = New(e) /\ x.tx = e.tx
    BY <2>1, <2>2 DEF Of
  <2>4. R \in SUBSET Timemarked
    <3>1. ASSUME NEW x \in R PROVE x \in Timemarked
      BY <2>2, <2>3 DEF Container
    <3> QED BY <3>1
  <2>5. OnePerNonce(R)
    <3> SUFFICES ASSUME NEW x \in R, NEW y \in R, x.tx.acct = y.tx.acct, x.tx.nonce = y.tx.nonce
                 PROVE  x = y
      BY DEF OnePerNonce
    <3>1. CASE x.tx.acct # a
      BY <2>3, <3>1 DEF Container, OnePerNonce
    <3>2. CASE x.tx.acct = a
      <4>1. PICK d \in C : d.tx.acct = a /\ x = New(d) /\ x.tx = d.tx
        BY <2>3, <3>2
      <4>2. PICK e \in C : e.tx.acct = a /\ y = New(e) /\ y.tx = e.tx
        BY <2>3, <3>2
      <4>3. d = e
        BY <4>1, <4>2 DEF Container, OnePerNonce
      <4> QED BY <4>1, <4>2, <4>3
    <3> QED BY <3>1, <3>2
  <2>6. Hashes(R) = Hashes(C)
    <3>1. ASSUME NEW e \in C PROVE \E x \in R : x.tx = e.tx
      <4>1. CASE e.tx.acct # a
        BY <2>1, <4>1 DEF Of
      <4>2. CASE e.tx.acct = a
        <5>1. New(e) \in R /\ New(e).tx = e.tx
          BY <2>1, <2>2, <4>2 DEF Of
        <5> QED BY <5>1
      <4> QED BY <4>1, <4>2
    <3>2. ASSUME NEW x \in R PROVE \E e \in C : x.tx = e.tx
      BY <2>3
    <3> QED BY <3>1, <3>2 DEF Hashes
  <2>7. (\A e \in C : \E x \in R : x.tx = e.tx) /\ (\A x \in R : \E e \in C : x.tx = e.tx)
    BY <2>6 DEF Hashes
  <2>8. ASSUME NoGap(C) PROVE NoGap(R)
    <3> SUFFICES ASSUME NEW x \in R, NEW n \in nonce[x.tx.acct]..x.tx.nonce
                 PROVE  \E y \in R : y.tx.acct = x.tx.acct /\ y.tx.nonce = n
      BY DEF NoGap
    <3>1. PICK e \in C : x.tx = e.tx
      BY <2>7
    <3>2. PICK d \in C : d.tx.acct = e.tx.acct /\ d.tx.nonce = n
      BY <2>8, <3>1 DEF NoGap
    <3>3. PICK y \in R : y.tx = d.tx
      BY <2>7
    <3> QED BY <3>1, <3>2, <3>3
  <2>9. \A n : (\A e \in Of(C, a) : e.tx.nonce >= n) => \A e \in Of(R, a) : e.tx.nonce >= n
    BY <2>7 DEF Of
  <2>10. \A b : b # a => Of(R, b) = Of(C, b)
    <3> SUFFICES ASSUME NEW b, b # a PROVE Of(R, b) = Of(C, b)
      OBVIOUS
    <3>1. ASSUME NEW x \in Of(R, b) PROVE x \in Of(C, b)
      BY <2>3 DEF Of
    <3>2. ASSUME NEW x \in Of(C, b) PROVE x \in Of(R, b)
      BY <2>1 DEF Of
    <3> QED BY <3>1, <3>2
  <2> QED BY <2>4, <2>5, <2>6, <2>8, <2>9, <2>10 DEF Container, R
<1> QED BY <1>1, <1>2

(* find_demotables leaves what the balance covers, without a gap.          *)
LEMMA DemoteFacts ==
    ASSUME nonce \in [Signers -> Nat], NEW P, Container(P), NoGap(P), NEW a \in Signers, NEW b \in Nat
    PROVE  /\ FindDemotables(P, a, b) \in SUBSET Of(P, a)
           /\ NoGap(P \ FindDemotables(P, a, b))
           /\ SumCost(Of(P \ FindDemotables(P, a, b), a)) <= b
<1> DEFINE own == Of(P, a)
           D == FindDemotables(P, a, b)
           rest == Of(P \ D, a)
<1>1. D \in SUBSET own
  BY DEF FindDemotables
<1>2. own \in SUBSET P /\ Container(own) /\ OneSigner(own)
  BY OfFacts
<1>3. own \in SUBSET Timemarked /\ IsFiniteSet(own) /\ \A e \in own : e.tx.nonce \in Nat
  BY <1>2, FiniteContainer, SignersOf DEF Container, Timemarked
<1>4. rest = own \ D
  BY DEF Of
<1>5. ASSUME NEW e \in own
      PROVE  UpTo(own, e) \in SUBSET own /\ IsFiniteSet(UpTo(own, e)) /\ SumCost(UpTo(own, e)) \in Nat
  <2>1. UpTo(own, e) \in SUBSET own
    BY DEF UpTo
  <2>2. UpTo(own, e) \in SUBSET Timemarked /\ IsFiniteSet(UpTo(own, e))
    BY <1>3, <2>1, FS_Subset
  <2> QED BY <2>1, <2>2, CostFacts
<1>6. NoGap(P \ D)
  <2>1. ASSUME NEW d \in D, NEW e \in P, d.tx.acct = e.tx.acct, d.tx.nonce <= e.tx.nonce
        PROVE  e \in D
    <3>1. d \in own /\ e \in own /\ SumCost(UpTo(own, d)) > b
      BY <1>1, <2>1 DEF FindDemotables, Of
    <3>2. UpTo(own, d) \in SUBSET UpTo(own, e)
      BY <1>3, <2>1, <3>1 DEF UpTo
    <3>3. SumCost(UpTo(own, d)) <= SumCost(UpTo(own, e))
      <4>1. UpTo(own, e) \in SUBSET Timemarked
        BY <1>3, <1>5, <3>1
      <4> QED BY <1>5, <3>1, <3>2, <4>1, CostMonotone
    <3>4. SumCost(UpTo(own, e)) > b
      BY <1>5, <3>1, <3>3
    <3> QED BY <3>1, <3>4 DEF FindDemotables
  <2>2. D \in SUBSET P
    BY <1>1, <1>2
  <2> HIDE DEF D
  <2> QED BY <2>1, <2>2, CutKeepsNoGap
<1>7. rest \in SUBSET own /\ Container(rest) /\ OneSigner(rest) /\ rest \in SUBSET Timemarked /\ IsFiniteSet(rest)
  <2>1. rest \in SUBSET own
    BY <1>4
  <2>2. rest \in SUBSET Timemarked /\ IsFiniteSet(rest)
    BY <1>3, <2>1, FS_Subset
  <2> QED BY <1>2, <2>1, <2>2, SubContainer DEF OneSigner
<1>8. SumCost(rest) <= b
  <2>1. CASE rest = {}
    <3> HIDE DEF rest
    <3>1. SumCost(rest) = 0
      BY <1>7, <2>1, CostFacts
    <3> QED BY <3>1
  <2>2. CASE rest # {}
    <3>1. PICK e \in rest : \A d \in rest : d.tx.nonce <= e.tx.nonce
      <4> HIDE DEF rest
      <4> QED BY <1>7, <2>2, Highest DEF Container
    <3>2. e \in own /\ ~ (SumCost(UpTo(own, e)) > b)
      BY <1>4, <3>1 DEF FindDemotables
    <3>3. rest \in SUBSET UpTo(own, e)
      <4> HIDE DEF rest, own
      <4> QED BY <1>7, <3>1 DEF UpTo
    <3>4. SumCost(rest) <= SumCost(UpTo(own, e)) /\ SumCost(UpTo(own, e)) \in Nat
      <4>1. UpTo(own, e) \in SUBSET Timemarked
        BY <1>3, <1>5, <3>2
      <4> HIDE DEF rest, own
      <4> QED BY <1>5, <3>2, <3>3, <4>1, CostMonotone
    <3>5. SumCost(rest) \in Nat
      BY <1>7, CostFacts
    <3> QED BY <3>2, <3>4, <3>5
  <2> QED BY <2>1, <2>2
<1> QED BY <1>1, <1>6, <1>8

(* A, B, F and R share out the transactions of U: pending, parked, failed  *)
(* moves and removed.                                                      *)
Shares(A, B, F, R, U) ==
    /\ A \cup B \cup F \cup R = U
    /\ A \cap B = {} /\ A \cap F = {} /\ A \cap R = {}
    /\ B \cap F = {} /\ B \cap R = {} /\ F \cap R = {}

(* Removing keeps the shares,                                              *)
LEMMA SharesRemove ==
    ASSUME NEW A, NEW B, NEW F, NEW R, NEW U, Shares(A, B, F, R, U),
           NEW A1, NEW G, A = A1 \cup G, A1 \cap G = {},
           NEW B1, NEW H, B = B1 \cup H, B1 \cap H = {}
    PROVE  Shares(A1, B1, F, R \cup G \cup H, U)
BY DEF Shares

(* and so does moving M from B to A, of which F1 fails;                    *)
LEMMA SharesMove ==
    ASSUME NEW A, NEW B, NEW F, NEW R, NEW U, Shares(A, B, F, R, U),
           NEW B1, NEW M, B = B1 \cup M, B1 \cap M = {},
           NEW A1, NEW F1, A1 \cup F1 = A \cup M, A1 \cap F1 = {}, F1 \subseteq M
    PROVE  Shares(A1, B1, F \cup F1, R, U)
BY DEF Shares

(* Pending and parked share the tracked hashes alike.                      *)
LEMMA SharesSwap ==
    ASSUME NEW A, NEW B, NEW F, NEW R, NEW U, Shares(A, B, F, R, U)
    PROVE  Shares(B, A, F, R, U)
BY DEF Shares

(* The hashes that are moved are in the container or have failed.          *)
LEMMA MovedHashes ==
    ASSUME NEW r, NEW X, NEW C, MovedInto(r, X, C)
    PROVE  /\ Hashes(r.set) \cup r.failed = Hashes(X) \cup Hashes(C)
           /\ Hashes(r.set) \cap r.failed = {} /\ r.failed \subseteq Hashes(C)
<1>1. /\ Hashes(X) \subseteq Hashes(r.set)
      /\ Hashes(r.set) \subseteq Hashes(X) \cup Hashes(C)
  BY DEF MovedInto, Hashes
<1>2. /\ Hashes(C) \subseteq Hashes(r.set) \cup r.failed
      /\ Hashes(r.set) \cap r.failed = {} /\ r.failed \subseteq Hashes(C)
  BY DEF MovedInto
<1> QED BY <1>1, <1>2

(* what holds while maintenance goes from account to account *)
Maintained(s) ==
    /\ Container(s.pending) /\ Container(s.parked) /\ NoGap(s.pending)
    /\ s.removed \in Seq(Submitted)
    /\ Shares(Hashes(s.pending), Hashes(s.parked), s.failed, ToSet(s.removed), Pool)

(* what holds of an account once it has been visited *)
Covered(s, a) ==
    /\ SumCost(Of(s.pending, a)) <= balance[a]
    /\ \A e \in Of(s.pending, a) : e.tx.nonce >= nonce[a]

ChainTypeOK == nonce \in [Signers -> Nat] /\ balance \in [Signers -> Nat] /\ fee \in Nat

(* A visit keeps what maintenance maintains, covers its account and leaves *)
(* the others alone.                                                       *)
LEMMA MaintainAccountFacts ==
    ASSUME ChainTypeOK, NEW s, Maintained(s), NEW a \in Signers, NEW expired
    PROVE  LET q == MaintainAccount(s, a, expired) IN
           /\ Maintained(q) /\ Covered(q, a)
           /\ \A b : b # a => Of(q.pending, b) = Of(s.pending, b)
<1> DEFINE xP == <<"pending", a>> \in expired
           xK == <<"parked", a>> \in expired
           goneP == Unclean(s.pending, a, xP)
           goneK == Unclean(s.parked, a, xK)
           leftP == s.pending \ goneP
           leftK == s.parked \ goneK
           P == RecostTransactions(leftP, a)
           K == RecostTransactions(leftK, a)
           demoted == FindDemotables(P, a, balance[a])
           promoted == FindPromotables(K, a, PendingNonce(P, a),
                                       SubtractContainedCosts(P, a, balance[a]))
           down == AddAllParked(K, demoted, nonce[a])
           up == AddAllPending(P, promoted, nonce[a], balance[a])
           removed == s.removed \o Removed(goneP) \o Removed(goneK)
           q == MaintainAccount(s, a, expired)
<1>1. q = [pending |-> IF demoted = {} THEN up.set ELSE P \ demoted,
           parked  |-> IF demoted = {} THEN K \ promoted ELSE down.set,
           failed  |-> s.failed \cup (IF demoted = {} THEN up.failed ELSE down.failed),
           removed |-> removed]
  BY DEF MaintainAccount
<1>2. nonce \in [Signers -> Nat] /\ nonce[a] \in Nat /\ balance[a] \in Nat /\ fee \in Nat
  BY DEF ChainTypeOK
<1>3. /\ Container(s.pending) /\ Container(s.parked) /\ NoGap(s.pending)
      /\ s.removed \in Seq(Submitted)
      /\ Shares(Hashes(s.pending), Hashes(s.parked), s.failed, ToSet(s.removed), Pool)
  BY DEF Maintained
<1> HIDE DEF xP, xK, q
<1>4. /\ goneP \in SUBSET Of(s.pending, a) /\ NoGap(leftP)
      /\ \A e \in Of(leftP, a) : e.tx.nonce >= nonce[a]
      /\ \A b : b # a => Of(leftP, b) = Of(s.pending, b)
  BY <1>2, <1>3, CleanFacts
<1>5. goneK \in SUBSET Of(s.parked, a)
  BY <1>2, <1>3, CleanFacts
<1> HIDE DEF goneP, goneK
<1>6. /\ goneP \in SUBSET s.pending /\ goneK \in SUBSET s.parked
      /\ Container(goneP) /\ Container(goneK) /\ OneSigner(goneP) /\ OneSigner(goneK)
      /\ Container(leftP) /\ Container(leftK)
  <2>1. goneP \in SUBSET s.pending /\ goneK \in SUBSET s.parked
    BY <1>4, <1>5 DEF Of
  <2>2. OneSigner(goneP) /\ OneSigner(goneK)
    BY <1>4, <1>5 DEF Of, OneSigner
  <2>3. leftP \in SUBSET s.pending /\ leftK \in SUBSET s.parked
    OBVIOUS
  <2> QED BY <1>3, <2>1, <2>2, <2>3, SubContainer
<1>7. /\ Hashes(s.pending) = Hashes(leftP) \cup Hashes(goneP) /\ Hashes(leftP) \cap Hashes(goneP) = {}
      /\ Hashes(s.parked) = Hashes(leftK) \cup Hashes(goneK) /\ Hashes(leftK) \cap Hashes(goneK) = {}
  BY <1>3, <1>6, HashSplit
<1>8. removed \in Seq(Submitted) /\ ToSet(removed) = ToSet(s.removed) \cup Hashes(goneP) \cup Hashes(goneK)
  <2>1. /\ Removed(goneP) \in Seq(Submitted) /\ ToSet(Removed(goneP)) = Hashes(goneP)
        /\ Removed(goneK) \in Seq(Submitted) /\ ToSet(Removed(goneK)) = Hashes(goneK)
    BY <1>6, RemovedFacts
  <2>2. /\ s.removed \o Removed(goneP) \in Seq(Submitted)
        /\ ToSet(s.removed \o Removed(goneP)) = ToSet(s.removed) \cup Hashes(goneP)
    BY <1>3, <2>1, ToSetConcat
  <2> QED BY <2>1, <2>2, ToSetConcat
<1> HIDE DEF removed
<1>9. Shares(Hashes(leftP), Hashes(leftK), s.failed, ToSet(removed), Pool)
  <2> DEFINE U == Pool
             R == ToSet(s.removed)
             hP == Hashes(s.pending)
             hK == Hashes(s.parked)
             lP == Hashes(leftP)
             lK == Hashes(leftK)
             gP == Hashes(goneP)
             gK == Hashes(goneK)
  <2>1. /\ Shares(hP, hK, s.failed, R, U) /\ hP = lP \cup gP /\ lP \cap gP = {}
        /\ hK = lK \cup gK /\ lK \cap gK = {}
    BY <1>3, <1>7
  <2> HIDE DEF U, R, hP, hK, lP, lK, gP, gK
  <2>2. Shares(lP, lK, s.failed, R \cup gP \cup gK, U)
    BY <2>1, SharesRemove
  <2> QED BY <1>8, <2>2 DEF U, R, lP, lK, gP, gK
<1> HIDE DEF leftP, leftK
<1>10. /\ Container(P) /\ Container(K) /\ NoGap(P)
       /\ Hashes(P) = Hashes(leftP) /\ Hashes(K) = Hashes(leftK)
       /\ \A e \in Of(P, a) : e.tx.nonce >= nonce[a]
       /\ \A b : b # a => Of(P, b) = Of(s.pending, b)
  <2>1. /\ Container(P) /\ NoGap(P) /\ Hashes(P) = Hashes(leftP)
        /\ \A b : b # a => Of(P, b) = Of(leftP, b)
    BY <1>2, <1>4, <1>6, RecostFacts
  <2>2. Container(K) /\ Hashes(K) = Hashes(leftK)
    BY <1>2, <1>6, RecostFacts
  <2>3. \A e \in Of(P, a) : e.tx.nonce >= nonce[a]
    BY <1>2, <1>4, <1>6, RecostFacts
  <2> QED BY <1>4, <2>1, <2>2, <2>3
<1>11. Shares(Hashes(P), Hashes(K), s.failed, ToSet(removed), Pool)
  BY <1>9, <1>10
<1>12. Hashes(P) \cap Hashes(K) = {}
  BY <1>11 DEF Shares
<1> HIDE DEF P, K
<1>13. /\ demoted \in SUBSET Of(P, a) /\ NoGap(P \ demoted)
       /\ SumCost(Of(P \ demoted, a)) <= balance[a]
  BY <1>2, <1>10, DemoteFacts
<1>14. promoted \in SUBSET Of(K, a)
  BY DEF FindPromotables
<1> HIDE DEF demoted, promoted
<1>15. CASE demoted = {}
  <2>1. /\ promoted \in SUBSET K /\ Container(promoted) /\ OneSigner(promoted)
        /\ \A e \in promoted : e.tx.acct = a
    <3>1. promoted \in SUBSET K
      BY <1>14 DEF Of
    <3> QED BY <1>10, <1>14, <3>1, SubContainer DEF Of, OneSigner
  <2>2. Hashes(K) = Hashes(K \ promoted) \cup Hashes(promoted) /\ Hashes(K \ promoted) \cap Hashes(promoted) = {}
    BY <1>10, <2>1, HashSplit
  <2>3. Movable(P, promoted) /\ OnePerNonce(P)
    BY <1>10, <1>12, <2>1, <2>2 DEF Movable, Container
  <2>4. MovedInto(up, P, promoted) /\ Promoted(up.set, P, a, nonce[a], balance[a])
    <3>1. nonce[a] <= nonce[a]
      BY <1>2
    <3> QED BY <1>2, <1>10, <2>1, <2>3, <3>1, AddAllPendingFacts
  <2> HIDE DEF up
  <2>5. /\ q.pending = up.set /\ q.parked = K \ promoted
        /\ q.failed = s.failed \cup up.failed /\ q.removed = removed
    BY <1>1, <1>15
  <2>6. P \subseteq up.set /\ up.set \subseteq P \cup promoted /\ up.set \in SUBSET Timemarked
    BY <2>4 DEF MovedInto
  <2>7. Container(q.pending) /\ Container(q.parked) /\ NoGap(q.pending)
    <3>1. K \ promoted \in SUBSET K
      OBVIOUS
    <3> QED BY <1>10, <2>4, <2>5, <2>6, <3>1, SubContainer DEF Container, Promoted
  <2>8. Shares(Hashes(q.pending), Hashes(q.parked), q.failed, ToSet(q.removed), Pool)
    <3>1. /\ Hashes(up.set) \cup up.failed = Hashes(P) \cup Hashes(promoted)
          /\ Hashes(up.set) \cap up.failed = {} /\ up.failed \subseteq Hashes(promoted)
      BY <2>4, MovedHashes
    <3>2. Shares(Hashes(up.set), Hashes(K \ promoted), s.failed \cup up.failed, ToSet(removed), Pool)
      BY <1>11, <2>2, <3>1, SharesMove
    <3> QED BY <2>5, <3>2
  <2>9. Covered(q, a)
    <3>1. P \ demoted = P
      BY <1>15
    <3>2. SumCost(Of(up.set, a)) <= balance[a]
      BY <1>13, <2>4, <3>1 DEF Promoted
    <3>3. \A e \in Of(up.set, a) : e.tx.nonce >= nonce[a]
      BY <1>10, <2>4, <2>6 DEF Promoted, Of
    <3> QED BY <2>5, <3>2, <3>3 DEF Covered
  <2>10. \A b : b # a => Of(q.pending, b) = Of(s.pending, b)
    <3> SUFFICES ASSUME NEW b, b # a PROVE Of(q.pending, b) = Of(s.pending, b)
      OBVIOUS
    <3>1. Of(up.set, b) = Of(P, b)
      BY <2>1, <2>6 DEF Of
    <3> QED BY <1>10, <2>5, <3>1
  <2>11. q.removed \in Seq(Submitted)
    BY <1>8, <2>5
  <2> QED BY <2>7, <2>8, <2>9, <2>10, <2>11 DEF Maintained, q
<1>16. CASE demoted # {}
  <2>1. /\ demoted \in SUBSET P /\ Container(demoted) /\ OneSigner(demoted)
        /\ \A e \in demoted : e.tx.acct = a
    <3>1. demoted \in SUBSET P
      BY <1>13 DEF Of
    <3> QED BY <1>10, <1>13, <3>1, SubContainer DEF Of, OneSigner
  <2>2. Hashes(P) = Hashes(P \ demoted) \cup Hashes(demoted) /\ Hashes(P \ demoted) \cap Hashes(demoted) = {}
    BY <1>10, <2>1, HashSplit
  <2>3. Movable(K, demoted) /\ OnePerNonce(K)
    BY <1>10, <1>12, <2>1, <2>2 DEF Movable, Container
  <2>4. MovedInto(down, K, demoted) /\ OnePerNonce(down.set)
    BY <2>3, AddAllParkedFacts
  <2> HIDE DEF down
  <2>5. /\ q.pending = P \ demoted /\ q.parked = down.set
        /\ q.failed = s.failed \cup down.failed /\ q.removed = removed
    BY <1>1, <1>16
  <2>6. Container(q.pending) /\ Container(q.parked) /\ NoGap(q.pending)
    <3>1. P \ demoted \in SUBSET P
      OBVIOUS
    <3> QED BY <1>10, <1>13, <2>4, <2>5, <3>1, SubContainer DEF Container, MovedInto
  <2>7. Shares(Hashes(q.pending), Hashes(q.parked), q.failed, ToSet(q.removed), Pool)
    <3>1. /\ Hashes(down.set) \cup down.failed = Hashes(K) \cup Hashes(demoted)
          /\ Hashes(down.set) \cap down.failed = {} /\ down.failed \subseteq Hashes(demoted)
      BY <2>4, MovedHashes
    <3>2. Shares(Hashes(K), Hashes(P), s.failed, ToSet(removed), Pool)
      BY <1>11, SharesSwap
    <3>3. Shares(Hashes(down.set), Hashes(P \ demoted), s.failed \cup down.failed, ToSet(removed), Pool)
      BY <2>2, <3>1, <3>2, SharesMove
    <3> QED BY <2>5, <3>3, SharesSwap
  <2>8. Covered(q, a)
    <3>1. \A e \in Of(P \ demoted, a) : e.tx.nonce >= nonce[a]
      BY <1>10 DEF Of
    <3> QED BY <1>13, <2>5, <3>1 DEF Covered
  <2>9. \A b : b # a => Of(q.pending, b) = Of(s.pending, b)
    <3> SUFFICES ASSUME NEW b, b # a PROVE Of(q.pending, b) = Of(s.pending, b)
      OBVIOUS
    <3>1. Of(P \ demoted, b) = Of(P, b)
      BY <2>1 DEF Of
    <3> QED BY <1>10, <2>5, <3>1
  <2>10. q.removed \in Seq(Submitted)
    BY <1>8, <2>5
  <2> QED BY <2>6, <2>7, <2>8, <2>9, <2>10 DEF Maintained, q
<1> QED BY <1>15, <1>16

Unvisited == [pending |-> pending, parked |-> parked, failed |-> {}, removed |-> << >>]

(* g gives the containers after each of the first m accounts *)
Visits(g, order, expired, m) ==
    /\ g = [i \in 0..m |-> g[i]] /\ g[0] = Unvisited
    /\ \A i \in 1..m : g[i] = MaintainAccount(g[i - 1], order[i], expired)

(* Maintenance visits the accounts one by one. *)
LEMMA MaintainAccountsDefined ==
    ASSUME NEW order, NEW expired, Len(order) \in Nat
    PROVE  \E g : Visits(g, order, expired, Len(order)) /\ MaintainAccounts(order, expired) = g[Len(order)]
<1> DEFINE T == {m \in Nat : ~ \E g : Visits(g, order, expired, m)}
<1>1. ASSUME T # {} PROVE FALSE
  <2>1. PICK m \in T : \A y \in T : m <= y
    BY <1>1, LeastNatural
  <2>2. CASE m = 0
    <3>1. Visits([k \in 0..0 |-> Unvisited], order, expired, 0)
      BY DEF Visits
    <3> QED BY <2>1, <2>2, <3>1
  <2>3. CASE m # 0
    <3>1. m - 1 \in Nat /\ m - 1 \notin T /\ m \in Nat
      <4> HIDE DEF T
      <4>1. m \in Nat
        BY DEF T
      <4> QED BY <2>1, <2>3, <4>1
    <3>2. PICK g : Visits(g, order, expired, m - 1)
      BY <3>1
    <3> DEFINE h == [k \in 0..m |-> IF k = m THEN MaintainAccount(g[m - 1], order[m], expired) ELSE g[k]]
    <3>3. h = [i \in 0..m |-> h[i]] /\ h[0] = Unvisited
      <4>1. 0 \in 0..m /\ 0 # m /\ g[0] = Unvisited
        BY <2>3, <3>1, <3>2 DEF Visits
      <4> QED BY <4>1
    <3>4. ASSUME NEW k \in 1..m PROVE h[k] = MaintainAccount(h[k - 1], order[k], expired)
      <4>1. k \in 0..m /\ k - 1 \in 0..m /\ k - 1 # m
        BY <3>1
      <4>2. h[k - 1] = g[k - 1]
        BY <4>1
      <4>3. CASE k = m
        BY <4>1, <4>2, <4>3
      <4>4. CASE k # m
        <5>1. k \in 1..(m - 1) /\ h[k] = g[k]
          BY <3>1, <4>1, <4>4
        <5> QED BY <3>2, <4>2, <5>1 DEF Visits
      <4> QED BY <4>3, <4>4
    <3>5. Visits(h, order, expired, m)
      <4> HIDE DEF h
      <4> QED BY <3>3, <3>4, Zenon DEF Visits
    <3> QED BY <2>1, <3>5
  <2> QED BY <2>2, <2>3
<1>2. PICK g : Visits(g, order, expired, Len(order))
  BY <1>1
<1> DEFINE Def(after) == [i \in 0..Len(order) |->
               IF i = 0 THEN Unvisited ELSE MaintainAccount(after[i - 1], order[i], expired)]
           result == CHOOSE after : after = Def(after)
<1>3. g = Def(g)
  <2>1. g = [i \in 0..Len(order) |-> g[i]]
    BY <1>2, Zenon DEF Visits
  <2>2. ASSUME NEW i \in 0..Len(order) PROVE g[i] = Def(g)[i]
    <3>1. CASE i = 0
      BY <1>2, <3>1 DEF Visits
    <3>2. CASE i # 0
      <4>1. i \in 1..Len(order)
        BY <3>2
      <4>2. g[i] = MaintainAccount(g[i - 1], order[i], expired)
        BY <1>2, <4>1 DEF Visits
      <4> QED BY <3>2, <4>2
    <3> QED BY <3>1, <3>2
  <2>3. Def(g) = [i \in 0..Len(order) |-> Def(g)[i]]
    OBVIOUS
  <2> HIDE DEF Def
  <2> QED BY <2>1, <2>2, <2>3
<1>4. result = Def(result)
  BY <1>3, Zenon
<1>5. MaintainAccounts(order, expired) = result[Len(order)]
  BY DEF MaintainAccounts, Unvisited
<1> HIDE DEF result
<1>6. Visits(result, order, expired, Len(order))
  <2>1. result = [i \in 0..Len(order) |-> result[i]]
    <3>1. Def(result) = [i \in 0..Len(order) |-> Def(result)[i]]
      OBVIOUS
    <3> HIDE DEF Def
    <3> QED BY <1>4, <3>1
  <2>2. \A i \in 0..Len(order) : result[i] =
           IF i = 0 THEN Unvisited ELSE MaintainAccount(result[i - 1], order[i], expired)
    <3>1. \A i \in 0..Len(order) : Def(result)[i] =
           IF i = 0 THEN Unvisited ELSE MaintainAccount(result[i - 1], order[i], expired)
      OBVIOUS
    <3> HIDE DEF Def
    <3> QED BY <1>4, <3>1
  <2>3. \A i \in 1..Len(order) : i \in 0..Len(order) /\ i # 0
    OBVIOUS
  <2>4. 0 \in 0..Len(order)
    OBVIOUS
  <2> QED BY <2>1, <2>2, <2>3, <2>4, Zenon DEF Visits
<1> QED BY <1>5, <1>6

(* The submitted transactions have finitely many signers.                  *)
LEMMA SignersFinite == IsFiniteSet(Signers)
<1> DEFINE f == [t \in Submitted |-> t.acct]
<1>1. f \in Surjection(Submitted, Signers)
  BY DEF Surjection, Signers
<1> HIDE DEF f
<1> QED BY <1>1, FS_Surjection, MempoolAssumption

(* Every account is visited.                                               *)
LEMMA OrderFacts ==
    ASSUME NEW order \in SetToSeqs(Signers)
    PROVE  /\ Len(order) \in Nat
           /\ \A i \in 1..Len(order) : order[i] \in Signers
           /\ \A i, j \in 1..Len(order) : i # j => order[i] # order[j]
           /\ \A a \in Signers : \E i \in 1..Len(order) : order[i] = a
<1> DEFINE n == Cardinality(Signers)
<1>1. n \in Nat
  BY SignersFinite, FS_CardinalityType
<1>2. order \in [1..n -> Signers] /\ \A i, j \in 1..n : i # j => order[i] # order[j]
  BY DEF SetToSeqs
<1>3. Len(order) = n
  <2> HIDE DEF n
  <2> QED BY <1>1, <1>2
<1>4. order \in Injection(1..n, Signers)
  <2>1. \A i, j \in 1..n : order[i] = order[j] => i = j
    BY <1>2, Zenon
  <2>2. DOMAIN order = 1..n
    BY <1>2
  <2> QED BY <1>2, <2>1, <2>2, Zenon DEF Injection, IsInjective
<1>5. order \in Surjection(1..n, Signers)
  <2>1. IsFiniteSet(1..n) /\ Cardinality(1..n) = n
    BY <1>1, FS_Interval
  <2> QED BY <1>4, <2>1, SignersFinite, FS_Injection
<1>6. \A a \in Signers : \E i \in 1..n : order[i] = a
  BY <1>5 DEF Surjection
<1>7. \A i \in 1..n : order[i] \in Signers
  BY <1>2
<1> HIDE DEF n
<1> QED BY <1>1, <1>2, <1>3, <1>6, <1>7

(* Maintenance covers every account and loses track of no transaction.     *)
LEMMA MaintainAccountsFacts ==
    ASSUME ChainTypeOK, Container(pending), Container(parked), NoGap(pending),
           Hashes(pending) \cap Hashes(parked) = {},
           NEW order \in SetToSeqs(Signers), NEW expired
    PROVE  /\ Maintained(MaintainAccounts(order, expired))
           /\ \A a \in Signers : Covered(MaintainAccounts(order, expired), a)
<1> DEFINE n == Len(order)
<1>1. /\ n \in Nat
      /\ \A i \in 1..n : order[i] \in Signers
      /\ \A i, j \in 1..n : i # j => order[i] # order[j]
      /\ \A a \in Signers : \E i \in 1..n : order[i] = a
  BY OrderFacts
<1>2. PICK g : Visits(g, order, expired, n) /\ MaintainAccounts(order, expired) = g[n]
  BY <1>1, MaintainAccountsDefined
<1> DEFINE Good(i) == Maintained(g[i]) /\ \A j \in 1..i : Covered(g[i], order[j])
           T == {i \in Nat : i <= n /\ ~ Good(i)}
<1> HIDE DEF n, Good
<1>3. Good(0)
  <2>1. g[0] = Unvisited
    BY <1>2 DEF Visits
  <2>2. << >> \in Seq(Submitted) /\ ToSet(<< >>) = {}
    BY DEF ToSet
  <2>3. Shares(Hashes(pending), Hashes(parked), {}, {}, Pool)
    BY DEF Shares, Pool
  <2>4. Maintained(g[0])
    <3>1. /\ g[0].pending = pending /\ g[0].parked = parked
          /\ g[0].failed = {} /\ g[0].removed = << >>
      BY <2>1 DEF Unvisited
    <3> QED BY <2>2, <2>3, <3>1 DEF Maintained
  <2> QED BY <2>4 DEF Good
<1>4. ASSUME NEW i \in 1..n, Good(i - 1) PROVE Good(i)
  <2> DEFINE a == order[i]
             s == g[i - 1]
             q == g[i]
  <2>1. q = MaintainAccount(s, a, expired) /\ a \in Signers
    BY <1>1, <1>2 DEF Visits
  <2>2. Maintained(s) /\ \A j \in 1..(i - 1) : Covered(s, order[j])
    BY <1>4 DEF Good
  <2> HIDE DEF s, q
  <2>3. Maintained(q) /\ Covered(q, a) /\ \A b : b # a => Of(q.pending, b) = Of(s.pending, b)
    BY <2>1, <2>2, MaintainAccountFacts
  <2>4. ASSUME NEW j \in 1..i PROVE Covered(q, order[j])
    <3>1. CASE j = i
      BY <2>3, <3>1
    <3>2. CASE j # i
      <4>1. j \in 1..(i - 1) /\ j \in 1..n
        BY <1>1, <3>2
      <4>2. order[j] # a /\ Covered(s, order[j])
        BY <1>1, <2>2, <3>2, <4>1
      <4> QED BY <2>3, <4>2 DEF Covered
    <3> QED BY <3>1, <3>2
  <2> QED BY <2>3, <2>4 DEF Good, q
<1>5. ASSUME T # {} PROVE FALSE
  <2>1. PICK i \in T : \A j \in T : i <= j
    BY <1>5, LeastNatural
  <2>2. i \in Nat /\ i <= n /\ ~ Good(i)
    BY <2>1
  <2>3. i # 0
    BY <1>3, <2>2
  <2>4. i \in 1..n /\ i - 1 \in Nat /\ i - 1 <= n /\ ~ (i <= i - 1)
    BY <1>1, <2>2, <2>3
  <2>5. Good(i - 1)
    BY <2>1, <2>4
  <2> QED BY <1>4, <2>2, <2>4, <2>5
<1>6. Good(n)
  <2>1. n <= n /\ n \notin T
    BY <1>1, <1>5
  <2> QED BY <1>1, <2>1
<1> QED BY <1>1, <1>2, <1>6 DEF Good

-----------------------------------------------------------------------------
(* The steps of the mempool *)

(* The invariant holds in an empty mempool.                                *)
LEMMA MempoolInitInv == MempoolInit => MempoolInv
<1> SUFFICES ASSUME MempoolInit PROVE MempoolInv
  OBVIOUS
<1>1. MempoolTypeOK
  <2>1. balance \in [Signers -> Nat] /\ fee \in Nat
    BY MempoolAssumption DEF MempoolInit
  <2> QED BY <2>1 DEF MempoolInit, MempoolTypeOK, NoCheck, Idle
<1>2. OnePerNonce(pending) /\ OnePerNonce(parked) /\ NoGap(pending)
  BY DEF MempoolInit, OnePerNonce, NoGap
<1>3. Pool = {} /\ contained = {} /\ consensus.drops = {}
  BY DEF MempoolInit, Pool, Hashes, Idle
<1>4. TrackedMatchesPool /\ DropsInv
  <2>1. Hashes(pending) = {}
    BY DEF MempoolInit, Hashes
  <2> QED BY <1>3, <2>1 DEF TrackedMatchesPool, DropsInv
<1>5. ChecksInv
  BY DEF MempoolInit, ChecksInv, NoCheck
<1> QED BY <1>1, <1>2, <1>4, <1>5 DEF MempoolInv

CheckType == [pc : {"idle", "is_tracked", "insert"}, tx : Submitted \cup {NoTx},
              nonce : Nat, balance : Nat, cost : Nat]

(* An answered request tracks at most its own transaction.                 *)
LEMMA ReplyKeeps ==
    ASSUME MempoolInv, NEW c \in Checkers, Reply(c), nonce' = nonce,
           contained' \subseteq contained \cup {check[c].tx}
    PROVE  ChecksInv' /\ check' \in [Checkers -> CheckType]
<1>1. check \in [Checkers -> CheckType] /\ NoTx \notin Submitted
  BY MempoolAssumption DEF MempoolInv, MempoolTypeOK, CheckType
<1>2. NoCheck \in CheckType /\ NoCheck.pc = "idle" /\ NoCheck.tx = NoTx
  BY DEF NoCheck, CheckType
<1>3. check' = [check EXCEPT ![c] = NoCheck]
  BY DEF Reply
<1>4. check' \in [Checkers -> CheckType]
  BY <1>1, <1>2, <1>3
<1>5. check'[c] = NoCheck /\ \A d \in Checkers : d # c => check'[d] = check[d]
  BY <1>1, <1>3
<1>6. ASSUME NEW d \in Checkers
      PROVE  /\ check'[d].pc # "idle" => /\ check'[d].tx \in Submitted
                                         /\ check'[d].nonce <= nonce'[check'[d].tx.acct]
             /\ check'[d].pc = "insert" => check'[d].tx \notin contained'
             /\ \A x \in Checkers : d # x /\ check'[d].tx = check'[x].tx => check'[d].tx = NoTx
  <2>1. CASE d = c
    BY <1>2, <1>5, <2>1
  <2>2. CASE d # c
    <3>1. check'[d] = check[d]
      BY <1>5, <2>2
    <3>2. /\ check[d].pc # "idle" => /\ check[d].tx \in Submitted
                                     /\ check[d].nonce <= nonce[check[d].tx.acct]
          /\ check[d].pc = "insert" => check[d].tx \notin contained
          /\ \A x \in Checkers : d # x /\ check[d].tx = check[x].tx => check[d].tx = NoTx
      BY DEF MempoolInv, ChecksInv
    <3>3. check[d].pc = "insert" => check[d].tx # check[c].tx
      BY <1>1, <2>2, <3>2
    <3>4. \A x \in Checkers : d # x /\ check'[d].tx = check'[x].tx => check'[d].tx = NoTx
      BY <1>2, <1>5, <3>1, <3>2
    <3> QED BY <3>1, <3>2, <3>3, <3>4
  <2> QED BY <2>1, <2>2
<1> QED BY <1>4, <1>6 DEF ChecksInv

(* what a step leaves alone that changes neither pool nor chain *)
PoolSame ==
    /\ UNCHANGED <<nonce, balance, fee, pending, parked, dropped, contained>>
    /\ consensus'.drops = consensus.drops

(* What the invariant says of the containers is of them alone.             *)
LEMMA PoolSameKeeps ==
    ASSUME MempoolInv, PoolSame
    PROVE  /\ OnePerNonce(pending)' /\ OnePerNonce(parked)' /\ NoGap(pending)'
           /\ TrackedMatchesPool'
           /\ consensus'.drops \cap Pool' = {} /\ consensus'.drops \subseteq contained'
BY SMTT(30) DEF MempoolInv, PoolSame, OnePerNonce, NoGap, TrackedMatchesPool, DropsInv, Pool, Hashes

(* A CheckTx request arrives.                                              *)
LEMMA CheckTxInv ==
    ASSUME MempoolInv, NEW c \in Checkers, NEW t \in Submitted, CheckTx(c, t)
    PROVE  MempoolInv'
<1> USE DEF chain, pool, removal
<1>1. PoolSame /\ consensus' = consensus
  BY DEF CheckTx, PoolSame
<1>2. ChecksInv' /\ check' \in [Checkers -> CheckType]
  <2>1. CASE Reply(c)
    BY <1>1, <2>1, ReplyKeeps DEF PoolSame
  <2>2. CASE ~ Reply(c)
    <3> DEFINE k == [pc |-> "is_tracked", tx |-> t, nonce |-> nonce[t.acct],
                     balance |-> balance[t.acct], cost |-> t.cost + fee]
    <3>1. /\ check' = [check EXCEPT ![c] = k] /\ \A d \in Checkers : check[d].tx # t
      BY <2>2 DEF CheckTx
    <3>2. k \in CheckType /\ k.nonce <= nonce[t.acct] /\ k.tx = t /\ k.pc = "is_tracked"
      <4>1. /\ t.acct \in Signers /\ t.cost \in Nat /\ fee \in Nat
            /\ nonce[t.acct] \in Nat /\ balance[t.acct] \in Nat
        BY SignersOf DEF MempoolInv, MempoolTypeOK
      <4> QED BY <4>1 DEF CheckType
    <3>3. check \in [Checkers -> CheckType]
      BY DEF MempoolInv, MempoolTypeOK, CheckType
    <3> HIDE DEF k
    <3>4. check' \in [Checkers -> CheckType] /\ check'[c] = k
          /\ \A d \in Checkers : d # c => check'[d] = check[d]
      BY <3>1, <3>2, <3>3
    <3>5. ChecksInv'
      <4>1. \A d \in Checkers :
              /\ check[d].pc # "idle" => /\ check[d].tx \in Submitted
                                         /\ check[d].nonce <= nonce[check[d].tx.acct]
              /\ check[d].pc = "insert" => check[d].tx \notin contained
              /\ \A x \in Checkers : d # x /\ check[d].tx = check[x].tx => check[d].tx = NoTx
        BY DEF MempoolInv, ChecksInv
      <4>2. \A d \in Checkers :
              /\ check'[d].pc # "idle" => /\ check'[d].tx \in Submitted
                                          /\ check'[d].nonce <= nonce[check'[d].tx.acct]
              /\ check'[d].pc = "insert" => check'[d].tx \notin contained
              /\ \A x \in Checkers : d # x /\ check'[d].tx = check'[x].tx => check'[d].tx = NoTx
        BY <3>1, <3>2, <3>4, <4>1
      <4> QED BY <1>1, <4>2 DEF ChecksInv, PoolSame
    <3> QED BY <3>4, <3>5
  <2> QED BY <2>1, <2>2
<1>3. MempoolTypeOK'
  BY <1>1, <1>2 DEF MempoolInv, MempoolTypeOK, PoolSame, CheckType
<1>4. DropsInv'
  BY <1>1, PoolSameKeeps DEF MempoolInv, DropsInv
<1> QED BY <1>1, <1>2, <1>3, <1>4, PoolSameKeeps DEF MempoolInv

(* CheckTx asks whether the mempool has the transaction.                   *)
LEMMA IsTrackedInv ==
    ASSUME MempoolInv, NEW c \in Checkers, IsTracked(c)
    PROVE  MempoolInv'
<1> USE DEF chain, pool, removal
<1>1. PoolSame /\ consensus' = consensus
  BY DEF IsTracked, PoolSame
<1>2. ChecksInv' /\ check' \in [Checkers -> CheckType]
  <2>1. CASE check[c].tx \in contained
    BY <1>1, <2>1, ReplyKeeps DEF PoolSame, IsTracked
  <2>2. CASE check[c].tx \notin contained
    <3>1. check' = [check EXCEPT ![c].pc = "insert"] /\ check[c].pc = "is_tracked"
      BY <2>2 DEF IsTracked
    <3>2. check \in [Checkers -> CheckType]
      BY DEF MempoolInv, MempoolTypeOK, CheckType
    <3>3. check' \in [Checkers -> CheckType]
      BY <3>1, <3>2 DEF CheckType
    <3>4. \A d \in Checkers : /\ check'[d].tx = check[d].tx /\ check'[d].nonce = check[d].nonce
                              /\ d # c => check'[d].pc = check[d].pc
      BY <3>1, <3>2 DEF CheckType
    <3>5. ChecksInv'
      BY <1>1, <2>2, <3>1, <3>4 DEF MempoolInv, ChecksInv, PoolSame
    <3> QED BY <3>3, <3>5
  <2> QED BY <2>1, <2>2
<1>3. MempoolTypeOK'
  BY <1>1, <1>2 DEF MempoolInv, MempoolTypeOK, PoolSame, CheckType
<1>4. DropsInv'
  BY <1>1, PoolSameKeeps DEF MempoolInv, DropsInv
<1> QED BY <1>1, <1>2, <1>3, <1>4, PoolSameKeeps DEF MempoolInv

(* the transaction that CheckTx inserts *)
LEMMA EntryFacts ==
    ASSUME MempoolInv, NEW c \in Checkers, check[c].pc = "insert"
    PROVE  /\ Entry(c) \in Timemarked /\ Entry(c).tx = check[c].tx
           /\ Entry(c).tx \in Submitted /\ Entry(c).tx \notin contained
           /\ Entry(c).tx.acct \in Signers /\ Entry(c).tx.nonce \in Nat
           /\ check[c].nonce \in Nat /\ check[c].balance \in Nat
           /\ check[c].nonce <= nonce[Entry(c).tx.acct]
<1>1. check[c] \in CheckType
  BY DEF MempoolInv, MempoolTypeOK, CheckType
<1>2. check[c].tx \in Submitted /\ check[c].nonce <= nonce[check[c].tx.acct] /\ check[c].tx \notin contained
  BY DEF MempoolInv, ChecksInv
<1>3. Entry(c).tx = check[c].tx /\ Entry(c) \in Timemarked
  BY <1>1, <1>2 DEF Entry, Timemarked, CheckType
<1> QED BY <1>1, <1>2, <1>3, SignersOf DEF CheckType

(* insert puts the transaction in pending and promotes parked ones.        *)
LEMMA InsertPendingInv ==
    ASSUME MempoolInv, NEW c \in Checkers, InsertPending(c)
    PROVE  MempoolInv'
<1> USE DEF chain, pool, removal
<1> DEFINE e == Entry(c)
           a == e.tx.acct
           n == check[c].nonce
           b == check[c].balance
           with == pending \cup {e}
           promoted == FindPromotables(parked, a, e.tx.nonce + 1,
                                       SubtractContainedCosts(with, a, b))
           added == AddAllPending(with, promoted, n, b)
<1>1. /\ check[c].pc = "insert" /\ AddPendingResult(pending, e, n, b) = "ok"
      /\ pending' = added.set /\ parked' = parked \ promoted
      /\ dropped' = dropped \cup added.failed /\ contained' = contained \cup {e.tx}
      /\ Reply(c) /\ UNCHANGED <<nonce, balance, fee, consensus>>
  BY DEF InsertPending
<1>2. /\ e \in Timemarked /\ e.tx = check[c].tx /\ e.tx \in Submitted /\ e.tx \notin contained
      /\ a \in Signers /\ n \in Nat /\ b \in Nat /\ n <= nonce[a] /\ e.tx.nonce \in Nat
  BY <1>1, EntryFacts
<1>3. promoted \in SUBSET Of(parked, a)
  BY DEF FindPromotables
<1> HIDE DEF e, n, b, promoted
<1>4. /\ nonce \in [Signers -> Nat] /\ Container(pending) /\ Container(parked) /\ NoGap(pending)
      /\ Hashes(pending) \cap Hashes(parked) = {} /\ Pool \subseteq contained
      /\ contained \subseteq Pool \cup consensus.drops \cup dropped
      /\ consensus.drops \cap Pool = {} /\ consensus.drops \subseteq contained
  BY DEF MempoolInv, MempoolTypeOK, Container, TrackedMatchesPool, DropsInv
<1>5. ~ NonceTaken(pending, e) /\ IsSequentialNoncePreconditionMet(pending, e, n)
  BY <1>1 DEF AddPendingResult
<1>6. with \in SUBSET Timemarked /\ OnePerNonce(with) /\ NoGap(with)
  BY <1>2, <1>4, <1>5, AddKeepsOne, AddKeepsNoGap DEF Container
<1>7. /\ promoted \in SUBSET parked /\ Container(promoted) /\ OneSigner(promoted)
      /\ \A d \in promoted : d.tx.acct = a
  <2>1. promoted \in SUBSET parked
    BY <1>3 DEF Of
  <2> QED BY <1>3, <1>4, <2>1, SubContainer DEF Of, OneSigner
<1>8. /\ Hashes(parked) = Hashes(parked \ promoted) \cup Hashes(promoted)
      /\ Hashes(parked \ promoted) \cap Hashes(promoted) = {}
  BY <1>4, <1>7, HashSplit
<1>9. Hashes(with) = Hashes(pending) \cup {e.tx}
  BY DEF Hashes
<1>10. Pool = Hashes(pending) \cup Hashes(parked)
  BY DEF Pool
<1>11. Movable(with, promoted)
  <2>1. Hashes(with) \cap Hashes(promoted) = {}
    BY <1>2, <1>4, <1>8, <1>9, <1>10
  <2> QED BY <1>6, <1>7, <2>1 DEF Movable, Container
<1>12. MovedInto(added, with, promoted) /\ Promoted(added.set, with, a, n, b)
  <2> HIDE DEF with
  <2> QED BY <1>2, <1>4, <1>6, <1>7, <1>11, AddAllPendingFacts
<1> HIDE DEF with, added
<1>13. /\ Hashes(added.set) \cup added.failed = Hashes(with) \cup Hashes(promoted)
       /\ added.set \in SUBSET Timemarked /\ added.failed \in SUBSET Submitted
  BY <1>12, MovedHashes DEF MovedInto
<1>14. Pool' = Hashes(added.set) \cup Hashes(parked \ promoted)
  BY <1>1 DEF Pool
<1>15. TrackedMatchesPool' /\ DropsInv'
  <2>1. Hashes(pending') \cap Hashes(parked') = {}
    BY <1>1, <1>2, <1>4, <1>8, <1>9, <1>10, <1>13
  <2>2. Pool' \subseteq contained'
    BY <1>1, <1>4, <1>8, <1>9, <1>10, <1>13, <1>14
  <2>3. contained' \subseteq Pool' \cup consensus.drops \cup dropped'
    BY <1>1, <1>4, <1>8, <1>9, <1>10, <1>13, <1>14
  <2>4. Pool' \subseteq Pool \cup {e.tx}
    BY <1>8, <1>9, <1>10, <1>13, <1>14
  <2>5. consensus.drops \cap Pool' = {} /\ consensus.drops \subseteq contained'
    BY <1>1, <1>2, <1>4, <2>4
  <2> QED BY <1>1, <2>1, <2>2, <2>3, <2>5 DEF TrackedMatchesPool, DropsInv, MempoolInv
<1>16. OnePerNonce(pending)' /\ OnePerNonce(parked)' /\ NoGap(pending)'
  <2>1. OnePerNonce(added.set) /\ NoGap(added.set)
    BY <1>12 DEF Promoted
  <2>2. NoGap(pending)'
    BY <1>1, <2>1 DEF NoGap
  <2>3. OnePerNonce(parked \ promoted)
    BY <1>4 DEF Container, OnePerNonce
  <2> QED BY <1>1, <2>1, <2>2, <2>3
<1>17. ChecksInv' /\ check' \in [Checkers -> CheckType]
  <2>1. contained' \subseteq contained \cup {check[c].tx}
    BY <1>1, <1>2
  <2> QED BY <1>1, <2>1, ReplyKeeps
<1>18. MempoolTypeOK'
  <2>1. contained' \in SUBSET Submitted /\ dropped' \in SUBSET Submitted /\ parked' \in SUBSET Timemarked
    BY <1>1, <1>2, <1>13 DEF MempoolInv, MempoolTypeOK
  <2> QED BY <1>1, <1>13, <1>17, <2>1 DEF MempoolInv, MempoolTypeOK, CheckType
<1> QED BY <1>15, <1>16, <1>17, <1>18 DEF MempoolInv

(* insert parks the transaction.                                           *)
LEMMA InsertParkedInv ==
    ASSUME MempoolInv, NEW c \in Checkers, InsertParked(c)
    PROVE  MempoolInv'
<1> USE DEF chain, pool, removal
<1> DEFINE e == Entry(c)
<1>1. /\ check[c].pc = "insert" /\ Reply(c)
      /\ UNCHANGED <<nonce, balance, fee, pending, dropped, consensus>>
  BY DEF InsertParked
<1>2. /\ e \in Timemarked /\ e.tx = check[c].tx /\ e.tx \in Submitted /\ e.tx \notin contained
  BY <1>1, EntryFacts
<1>3. CASE CanPark(parked, e, check[c].nonce)
  <2>1. parked' = parked \cup {e} /\ contained' = contained \cup {e.tx} /\ ~ NonceTaken(parked, e)
    BY <1>3 DEF InsertParked, CanPark
  <2> HIDE DEF e
  <2>2. Pool' = Pool \cup {e.tx} /\ Hashes(parked') = Hashes(parked) \cup {e.tx}
    BY <1>1, <2>1 DEF Pool, Hashes
  <2>3. /\ Hashes(pending) \cap Hashes(parked) = {} /\ Pool \subseteq contained
        /\ contained \subseteq Pool \cup consensus.drops \cup dropped
        /\ consensus.drops \cap Pool = {} /\ consensus.drops \subseteq contained
        /\ Hashes(pending) \subseteq Pool
    BY DEF MempoolInv, TrackedMatchesPool, DropsInv, Pool
  <2>4. TrackedMatchesPool' /\ DropsInv'
    <3>1. Hashes(pending') \cap Hashes(parked') = {}
      BY <1>1, <1>2, <2>2, <2>3
    <3>2. Pool' \subseteq contained' /\ contained' \subseteq Pool' \cup consensus.drops \cup dropped
      BY <2>1, <2>2, <2>3
    <3>3. consensus.drops \cap Pool' = {} /\ consensus.drops \subseteq contained'
      BY <1>2, <2>1, <2>2, <2>3
    <3> QED BY <1>1, <3>1, <3>2, <3>3 DEF TrackedMatchesPool, DropsInv, MempoolInv
  <2>5. OnePerNonce(pending)' /\ OnePerNonce(parked)' /\ NoGap(pending)'
    <3>1. OnePerNonce(parked \cup {e})
      BY <2>1, AddKeepsOne DEF MempoolInv
    <3>2. NoGap(pending)'
      BY <1>1 DEF MempoolInv, NoGap
    <3> QED BY <1>1, <2>1, <3>1, <3>2 DEF MempoolInv
  <2>6. ChecksInv' /\ check' \in [Checkers -> CheckType]
    <3>1. contained' \subseteq contained \cup {check[c].tx}
      BY <1>2, <2>1
    <3> QED BY <1>1, <3>1, ReplyKeeps
  <2>7. MempoolTypeOK'
    <3>1. contained' \in SUBSET Submitted /\ parked' \in SUBSET Timemarked
      BY <1>2, <2>1 DEF MempoolInv, MempoolTypeOK
    <3> QED BY <1>1, <2>6, <3>1 DEF MempoolInv, MempoolTypeOK, CheckType
  <2> QED BY <2>4, <2>5, <2>6, <2>7 DEF MempoolInv
<1>4. CASE ~ CanPark(parked, e, check[c].nonce)
  <2>1. PoolSame /\ contained' = contained
    BY <1>1, <1>4 DEF InsertParked, PoolSame
  <2>2. ChecksInv' /\ check' \in [Checkers -> CheckType]
    BY <1>1, <2>1, ReplyKeeps
  <2>3. MempoolTypeOK'
    BY <1>1, <2>1, <2>2 DEF MempoolInv, MempoolTypeOK, PoolSame, CheckType
  <2>4. DropsInv'
    BY <1>1, <2>1, PoolSameKeeps DEF MempoolInv, DropsInv
  <2> QED BY <2>1, <2>2, <2>3, <2>4, PoolSameKeeps DEF MempoolInv
<1> QED BY <1>3, <1>4

(* insert rejects the transaction.                                         *)
LEMMA InsertRejectedInv ==
    ASSUME MempoolInv, NEW c \in Checkers, InsertRejected(c)
    PROVE  MempoolInv'
<1> USE DEF chain, pool, removal
<1>1. PoolSame /\ consensus' = consensus /\ Reply(c) /\ contained' = contained /\ nonce' = nonce
  BY DEF InsertRejected, PoolSame
<1>2. ChecksInv' /\ check' \in [Checkers -> CheckType]
  BY <1>1, ReplyKeeps
<1>3. MempoolTypeOK'
  BY <1>1, <1>2 DEF MempoolInv, MempoolTypeOK, PoolSame, CheckType
<1>4. DropsInv'
  BY <1>1, PoolSameKeeps DEF MempoolInv, DropsInv
<1> QED BY <1>1, <1>2, <1>3, <1>4, PoolSameKeeps DEF MempoolInv

(* a step of the consensus task *)
LEMMA ChecksSame ==
    ASSUME MempoolInv, UNCHANGED <<nonce, check>>, contained' \subseteq contained
    PROVE  ChecksInv'
BY DEF MempoolInv, ChecksInv

(* The execution of a proposal begins or ends.                             *)
LEMMA PrepareInv ==
    ASSUME MempoolInv, BuilderQueue \/ EndPrepare
    PROVE  MempoolInv'
<1> USE DEF chain, pool, removal
<1>1. consensus.drops = {}
  BY DEF MempoolInv, DropsInv, BuilderQueue, EndPrepare
<1>2. /\ DOMAIN consensus' = {"pc", "queue", "adds", "drops", "recost"}
      /\ consensus'.pc \in {"idle", "prepare"} /\ consensus'.queue \in SUBSET Submitted
      /\ consensus'.drops = {} /\ consensus'.recost \in BOOLEAN
  <2>1. CASE BuilderQueue
    <3>1. Hashes(pending) \in SUBSET Submitted
      BY DEF MempoolInv, MempoolTypeOK, Timemarked, Hashes
    <3> QED BY <1>1, <2>1, <3>1 DEF MempoolInv, MempoolTypeOK, BuilderQueue
  <2>2. CASE EndPrepare
    BY <2>2 DEF EndPrepare, Idle
  <2> QED BY <2>1, <2>2
<1>3. PoolSame /\ check' = check
  BY <1>1, <1>2 DEF BuilderQueue, EndPrepare, PoolSame
<1>4. ChecksInv'
  BY <1>3, ChecksSame DEF PoolSame
<1>5. MempoolTypeOK'
  BY <1>2, <1>3 DEF MempoolInv, MempoolTypeOK, PoolSame
<1>6. DropsInv'
  BY <1>2, <1>3, PoolSameKeeps DEF DropsInv
<1> QED BY <1>3, <1>4, <1>5, <1>6, PoolSameKeeps DEF MempoolInv

(* what TransactionsContainer::remove takes out of a container *)
LEMMA RemoveFacts ==
    ASSUME NEW C, Container(C), NEW t \in Submitted
    PROVE  /\ Remove_(C, t) \in SUBSET Of(C, t.acct)
           /\ \A d \in Remove_(C, t), e \in C :
                 d.tx.acct = e.tx.acct /\ d.tx.nonce <= e.tx.nonce => e \in Remove_(C, t)
<1>1. \A e \in C : e.tx.nonce \in Nat
  BY SignersOf DEF Container, Timemarked
<1>2. t.nonce \in Nat
  BY SignersOf
<1>3. Remove_(C, t) \in SUBSET Of(C, t.acct)
  BY DEF Remove_
<1>4. ASSUME NEW d \in Remove_(C, t), NEW e \in C,
             d.tx.acct = e.tx.acct, d.tx.nonce <= e.tx.nonce
      PROVE  e \in Remove_(C, t)
  <2>1. /\ \E x \in Of(C, t.acct) : x.tx.nonce = t.nonce
        /\ d \in Of(C, t.acct) /\ d.tx.nonce >= t.nonce
    BY DEF Remove_
  <2>2. d \in C /\ d.tx.acct = t.acct /\ e \in Of(C, t.acct)
    BY <1>4, <2>1 DEF Of
  <2>3. e.tx.nonce >= t.nonce
    BY <1>1, <1>2, <1>4, <2>1, <2>2
  <2> QED BY <2>1, <2>2, <2>3 DEF Remove_
<1> QED BY <1>3, <1>4

(* remove_tx_invalid takes a transaction and its followers out.            *)
LEMMA RemoveTxInvalidInv ==
    ASSUME MempoolInv, NEW t \in consensus.queue, RemoveTxInvalid(t)
    PROVE  MempoolInv'
<1> USE DEF chain, pool, removal
<1> DEFINE fromPending == Remove_(pending, t)
           fromParked == IF fromPending = {} THEN Remove_(parked, t) ELSE Of(parked, t.acct)
           removed == Removed(fromPending) \o Removed(fromParked)
           left == {u \in consensus.queue : ~(u.acct = t.acct /\ u.nonce >= t.nonce)}
<1>1. /\ consensus.pc = "prepare"
      /\ pending' = pending \ fromPending /\ parked' = parked \ fromParked
      /\ consensus' = IF removed = << >> THEN [consensus EXCEPT !.queue = left]
           ELSE [consensus EXCEPT !.pc = "flush_invalid", !.queue = left,
                     !.adds = <<t>> \o removed, !.drops = ToSet(removed)]
      /\ UNCHANGED <<nonce, balance, fee, dropped, contained, check>>
  BY DEF RemoveTxInvalid
<1>2. /\ nonce \in [Signers -> Nat] /\ Container(pending) /\ Container(parked) /\ NoGap(pending)
      /\ Hashes(pending) \cap Hashes(parked) = {} /\ Pool \subseteq contained
      /\ contained \subseteq Pool \cup consensus.drops \cup dropped /\ consensus.drops = {}
      /\ t \in Submitted /\ left \in SUBSET Submitted
  BY <1>1 DEF MempoolInv, MempoolTypeOK, Container, TrackedMatchesPool, DropsInv
<1> HIDE DEF left
<1>3. fromPending \in SUBSET Of(pending, t.acct) /\ fromParked \in SUBSET Of(parked, t.acct)
  BY <1>2, RemoveFacts
<1>4. NoGap(pending \ fromPending)
  <2>1. \A d \in fromPending, e \in pending :
           d.tx.acct = e.tx.acct /\ d.tx.nonce <= e.tx.nonce => e \in fromPending
    BY <1>2, RemoveFacts
  <2>2. fromPending \in SUBSET pending
    BY <1>3 DEF Of
  <2> HIDE DEF fromPending
  <2> QED BY <1>2, <2>1, <2>2, CutKeepsNoGap
<1> HIDE DEF fromPending, fromParked
<1>5. /\ fromPending \in SUBSET pending /\ fromParked \in SUBSET parked
      /\ Container(fromPending) /\ Container(fromParked)
      /\ OneSigner(fromPending) /\ OneSigner(fromParked)
  <2>1. fromPending \in SUBSET pending /\ fromParked \in SUBSET parked
    BY <1>3 DEF Of
  <2>2. OneSigner(fromPending) /\ OneSigner(fromParked)
    BY <1>3 DEF Of, OneSigner
  <2> QED BY <1>2, <2>1, <2>2, SubContainer
<1>6. removed \in Seq(Submitted) /\ ToSet(removed) = Hashes(fromPending) \cup Hashes(fromParked)
  BY <1>5, RemovedFacts, ToSetConcat
<1> HIDE DEF removed
<1>7. /\ DOMAIN consensus' = {"pc", "queue", "adds", "drops", "recost"}
      /\ consensus'.pc \in {"prepare", "flush_invalid"} /\ consensus'.queue \in SUBSET Submitted
      /\ consensus'.drops = ToSet(removed) /\ consensus'.recost \in BOOLEAN
      /\ consensus'.pc = "prepare" => consensus'.drops = {}
  <2>1. /\ DOMAIN consensus = {"pc", "queue", "adds", "drops", "recost"} /\ consensus.recost \in BOOLEAN
    BY DEF MempoolInv, MempoolTypeOK
  <2>2. CASE removed = << >>
    <3>1. ToSet(removed) = {}
      BY <2>2 DEF ToSet
    <3> QED BY <1>1, <1>2, <2>1, <2>2, <3>1
  <2>3. CASE removed # << >>
    BY <1>1, <1>2, <2>1, <2>3
  <2> QED BY <2>2, <2>3
<1>8. /\ Hashes(pending) = Hashes(pending') \cup Hashes(fromPending)
      /\ Hashes(pending') \cap Hashes(fromPending) = {}
      /\ Hashes(parked) = Hashes(parked') \cup Hashes(fromParked)
      /\ Hashes(parked') \cap Hashes(fromParked) = {}
  BY <1>1, <1>2, <1>5, HashSplit
<1>9. Pool = Hashes(pending) \cup Hashes(parked) /\ Pool' = Hashes(pending') \cup Hashes(parked')
  BY DEF Pool
<1>10. TrackedMatchesPool' /\ DropsInv'
  <2>1. Hashes(pending') \cap Hashes(parked') = {}
    BY <1>2, <1>8
  <2>2. Pool' \subseteq contained'
    BY <1>1, <1>2, <1>8, <1>9
  <2>3. contained' \subseteq Pool' \cup consensus'.drops \cup dropped'
    <3>1. Pool \subseteq Pool' \cup consensus'.drops
      BY <1>6, <1>7, <1>8, <1>9
    <3> QED BY <1>1, <1>2, <3>1
  <2>4. consensus'.drops \cap Pool' = {}
    BY <1>2, <1>6, <1>7, <1>8, <1>9
  <2>5. consensus'.drops \subseteq contained'
    BY <1>1, <1>2, <1>6, <1>7, <1>8, <1>9
  <2> QED BY <1>7, <2>1, <2>2, <2>3, <2>4, <2>5 DEF TrackedMatchesPool, DropsInv
<1>11. OnePerNonce(pending)' /\ OnePerNonce(parked)' /\ NoGap(pending)'
  <2>1. NoGap(pending)'
    BY <1>1, <1>4 DEF NoGap
  <2>2. OnePerNonce(pending') /\ OnePerNonce(parked')
    BY <1>1, <1>2 DEF Container, OnePerNonce
  <2> QED BY <2>1, <2>2
<1>12. ChecksInv'
  BY <1>1, ChecksSame
<1>13. MempoolTypeOK'
  <2>1. consensus'.drops \in SUBSET Submitted
    BY <1>6, <1>7 DEF ToSet
  <2>2. pending' \in SUBSET Timemarked /\ parked' \in SUBSET Timemarked
    BY <1>1, <1>2 DEF Container
  <2> QED BY <1>1, <1>7, <2>1, <2>2 DEF MempoolInv, MempoolTypeOK
<1> QED BY <1>10, <1>11, <1>12, <1>13 DEF MempoolInv

(* Committed transactions advance the nonces.                              *)
LEMMA CommitBlockInv ==
    ASSUME MempoolInv, NEW B \in SUBSET Submitted, NEW b \in [Signers -> Balances],
           NEW f \in Fees, CommitBlock(B, b, f)
    PROVE  MempoolInv'
<1> USE DEF chain, pool, removal
<1>1. /\ consensus.pc = "idle"
      /\ nonce' = [a \in Signers |-> nonce[a] + Cardinality({t \in B : t.acct = a})]
      /\ balance' = b /\ fee' = f
      /\ consensus' = [Idle EXCEPT !.pc = "maintain", !.recost = (f # fee)]
      /\ UNCHANGED <<pending, parked, dropped, contained, check>>
  BY DEF CommitBlock
<1>2. ASSUME NEW a PROVE Cardinality({t \in B : t.acct = a}) \in Nat
  <2>1. {t \in B : t.acct = a} \in SUBSET Submitted
    OBVIOUS
  <2> QED BY <2>1, MempoolAssumption, FS_Subset, FS_CardinalityType
<1>3. nonce \in [Signers -> Nat]
  BY DEF MempoolInv, MempoolTypeOK
<1>4. nonce' \in [Signers -> Nat] /\ \A a \in Signers : nonce'[a] >= nonce[a]
  <2> DEFINE count == [a \in Signers |-> Cardinality({t \in B : t.acct = a})]
  <2>1. \A a \in Signers : count[a] \in Nat
    BY <1>2
  <2>2. nonce' = [a \in Signers |-> nonce[a] + count[a]]
    BY <1>1
  <2> HIDE DEF count
  <2> QED BY <1>3, <2>1, <2>2
<1>5. /\ DOMAIN consensus' = {"pc", "queue", "adds", "drops", "recost"}
      /\ consensus'.pc = "maintain" /\ consensus'.queue = {} /\ consensus'.drops = {}
      /\ consensus'.recost \in BOOLEAN
  BY <1>1 DEF Idle
<1>6. consensus.drops = {}
  BY <1>1 DEF MempoolInv, DropsInv
<1>7. MempoolTypeOK'
  <2>1. balance' \in [Signers -> Nat] /\ fee' \in Nat
    BY <1>1, MempoolAssumption
  <2> QED BY <1>1, <1>4, <1>5, <2>1 DEF MempoolInv, MempoolTypeOK
<1>8. TrackedMatchesPool' /\ DropsInv'
  <2>1. Pool' = Pool
    BY <1>1 DEF Pool
  <2> QED BY <1>1, <1>5, <1>6, <2>1 DEF MempoolInv, TrackedMatchesPool, DropsInv
<1>9. NoGap(pending)'
  <2> SUFFICES ASSUME NEW e \in pending, NEW k \in nonce'[e.tx.acct]..e.tx.nonce
               PROVE  \E d \in pending : d.tx.acct = e.tx.acct /\ d.tx.nonce = k
    BY ZenonT(60), <1>1 DEF NoGap
  <2>1. e.tx.acct \in Signers /\ e.tx.nonce \in Nat
    BY SignersOf DEF MempoolInv, MempoolTypeOK, Timemarked
  <2>2. k \in nonce[e.tx.acct]..e.tx.nonce
    BY <1>3, <1>4, <2>1
  <2> QED BY <2>2 DEF MempoolInv, NoGap
<1>10. OnePerNonce(pending)' /\ OnePerNonce(parked)'
  BY <1>1 DEF MempoolInv
<1>11. ChecksInv'
  <2>1. ASSUME NEW c \in Checkers, check[c].pc # "idle"
        PROVE  check[c].tx \in Submitted /\ check[c].nonce <= nonce'[check[c].tx.acct]
    <3>1. check[c].tx \in Submitted /\ check[c].nonce <= nonce[check[c].tx.acct] /\ check[c].nonce \in Nat
      BY <2>1 DEF MempoolInv, ChecksInv, MempoolTypeOK
    <3>2. check[c].tx.acct \in Signers
      BY <3>1, SignersOf
    <3> QED BY <1>3, <1>4, <3>1, <3>2
  <2> QED BY <1>1, <2>1 DEF MempoolInv, ChecksInv
<1> QED BY <1>7, <1>8, <1>9, <1>10, <1>11 DEF MempoolInv

(* After maintenance the pool is covered by the balances and no nonce in   *)
(* it is spent.                                                            *)
LEMMA RunMaintenanceInv ==
    ASSUME MempoolInv, RunMaintenance
    PROVE  /\ MempoolInv'
           /\ PoolCovered'
<1> USE DEF chain, pool, removal
<1>1. PICK order \in SetToSeqs(Signers), expired \in SUBSET ({"pending", "parked"} \X Signers) :
         LET s == MaintainAccounts(order, expired) IN
         /\ pending' = s.pending /\ parked' = s.parked
         /\ contained' = contained \ s.failed
         /\ consensus' = [consensus EXCEPT !.pc = "flush", !.adds = s.removed,
                                           !.drops = ToSet(s.removed)]
  BY DEF RunMaintenance
<1> DEFINE s == MaintainAccounts(order, expired)
<1>2. consensus.pc = "maintain" /\ UNCHANGED <<nonce, balance, fee, dropped, check>>
  BY DEF RunMaintenance
<1>3. /\ ChainTypeOK /\ Container(pending) /\ Container(parked) /\ NoGap(pending)
      /\ Hashes(pending) \cap Hashes(parked) = {} /\ Pool \subseteq contained
      /\ contained \subseteq Pool \cup consensus.drops \cup dropped /\ consensus.drops = {}
  BY <1>2 DEF MempoolInv, MempoolTypeOK, ChainTypeOK, Container, TrackedMatchesPool, DropsInv
<1>4. Maintained(s) /\ \A a \in Signers : Covered(s, a)
  BY <1>3, MaintainAccountsFacts
<1> HIDE DEF s
<1>5. /\ pending' = s.pending /\ parked' = s.parked /\ contained' = contained \ s.failed
      /\ consensus' = [consensus EXCEPT !.pc = "flush", !.adds = s.removed,
                                        !.drops = ToSet(s.removed)]
  BY <1>1 DEF s
<1>6. /\ DOMAIN consensus' = {"pc", "queue", "adds", "drops", "recost"}
      /\ consensus'.pc = "flush" /\ consensus'.queue \in SUBSET Submitted
      /\ consensus'.drops = ToSet(s.removed) /\ consensus'.recost \in BOOLEAN
  BY <1>5 DEF MempoolInv, MempoolTypeOK
<1>7. Shares(Hashes(pending'), Hashes(parked'), s.failed, ToSet(s.removed), Pool)
  BY <1>4, <1>5 DEF Maintained
<1>8. TrackedMatchesPool' /\ DropsInv'
  <2> DEFINE hP == Hashes(pending')
             hK == Hashes(parked')
             R == ToSet(s.removed)
             F == s.failed
  <2>1. Shares(hP, hK, F, R, Pool) /\ Pool' = hP \cup hK
    BY <1>7 DEF Pool
  <2> HIDE DEF hP, hK, R, F
  <2>2. hP \cap hK = {}
    BY <2>1 DEF Shares
  <2>3. Pool' \subseteq contained \ F
    BY <1>3, <2>1 DEF Shares
  <2>4. contained \ F \subseteq Pool' \cup R \cup dropped
    BY <1>3, <2>1 DEF Shares
  <2>5. R \cap Pool' = {} /\ R \subseteq contained \ F
    BY <1>3, <2>1 DEF Shares
  <2> QED BY <1>2, <1>5, <1>6, <2>2, <2>3, <2>4, <2>5 DEF TrackedMatchesPool, DropsInv, hP, hK, R, F
<1>9. OnePerNonce(pending)' /\ OnePerNonce(parked)' /\ NoGap(pending)'
  <2>1. OnePerNonce(s.pending) /\ OnePerNonce(s.parked) /\ NoGap(s.pending)
    BY <1>4 DEF Maintained, Container
  <2>2. NoGap(pending)'
    BY <1>2, <1>5, <2>1 DEF NoGap
  <2> QED BY <1>5, <2>1, <2>2
<1>10. ChecksInv'
  <2>1. contained' \subseteq contained
    BY <1>5
  <2> QED BY <1>2, <2>1, ChecksSame
<1>11. MempoolTypeOK'
  <2>1. consensus'.drops \in SUBSET Submitted
    BY <1>4, <1>6 DEF Maintained, ToSet
  <2>2. pending' \in SUBSET Timemarked /\ parked' \in SUBSET Timemarked
    BY <1>4, <1>5 DEF Maintained, Container
  <2>3. contained' \in SUBSET Submitted
    BY <1>5 DEF MempoolInv, MempoolTypeOK
  <2> QED BY <1>2, <1>6, <2>1, <2>2, <2>3 DEF MempoolInv, MempoolTypeOK
<1>12. PoolCovered'
  BY <1>2, <1>4, <1>5 DEF Covered, PoolCovered
<1> QED BY <1>8, <1>9, <1>10, <1>11, <1>12 DEF MempoolInv

(* The end of remove_tx_invalid and of run_maintenance.                    *)
LEMMA FlushInv ==
    ASSUME MempoolInv, Flush
    PROVE  MempoolInv'
<1> USE DEF chain, pool, removal
<1>1. /\ contained' = contained \ consensus.drops
      /\ UNCHANGED <<nonce, balance, fee, pending, parked, dropped, check>>
      /\ consensus' = IF consensus.pc = "flush" THEN Idle
                      ELSE [Idle EXCEPT !.pc = "prepare", !.queue = consensus.queue]
  BY DEF Flush
<1>2. /\ DOMAIN consensus' = {"pc", "queue", "adds", "drops", "recost"}
      /\ consensus'.pc \in {"idle", "prepare"} /\ consensus'.queue \in SUBSET Submitted
      /\ consensus'.drops = {} /\ consensus'.recost \in BOOLEAN
  BY <1>1 DEF MempoolInv, MempoolTypeOK, Idle
<1>3. TrackedMatchesPool' /\ DropsInv'
  <2>1. Pool' = Pool
    BY <1>1 DEF Pool
  <2> QED BY <1>1, <1>2, <2>1 DEF MempoolInv, TrackedMatchesPool, DropsInv
<1>4. OnePerNonce(pending)' /\ OnePerNonce(parked)' /\ NoGap(pending)'
  <2>1. NoGap(pending)'
    BY <1>1 DEF MempoolInv, NoGap
  <2> QED BY <1>1, <2>1 DEF MempoolInv
<1>5. ChecksInv'
  <2>1. contained' \subseteq contained
    BY <1>1
  <2> QED BY <1>1, <2>1, ChecksSame
<1>6. MempoolTypeOK'
  <2>1. contained' \in SUBSET Submitted
    BY <1>1 DEF MempoolInv, MempoolTypeOK
  <2> QED BY <1>1, <1>2, <2>1 DEF MempoolInv, MempoolTypeOK
<1> QED BY <1>3, <1>4, <1>5, <1>6 DEF MempoolInv

(* Every step of the mempool keeps the invariant.                          *)
LEMMA MempoolInductive == MempoolInv /\ [MempoolNext]_mempoolVars => MempoolInv'
<1> SUFFICES ASSUME MempoolInv, [MempoolNext]_mempoolVars PROVE MempoolInv'
  OBVIOUS
<1>1. ASSUME NEW c \in Checkers, NEW t \in Submitted, CheckTx(c, t) PROVE MempoolInv'
  BY <1>1, CheckTxInv
<1>2. ASSUME NEW c \in Checkers, IsTracked(c) PROVE MempoolInv'
  BY <1>2, IsTrackedInv
<1>3. ASSUME NEW c \in Checkers, Insert(c) PROVE MempoolInv'
  BY <1>3, InsertPendingInv, InsertParkedInv, InsertRejectedInv DEF Insert
<1>4. CASE BuilderQueue \/ EndPrepare
  BY <1>4, PrepareInv
<1>5. CASE RunMaintenance
  BY <1>5, RunMaintenanceInv
<1>6. CASE Flush
  BY <1>6, FlushInv
<1>7. ASSUME NEW t \in consensus.queue, RemoveTxInvalid(t) PROVE MempoolInv'
  BY <1>7, RemoveTxInvalidInv
<1>8. ASSUME NEW B \in SUBSET Submitted, NEW b \in [Signers -> Balances], NEW f \in Fees,
             CommitBlock(B, b, f)
      PROVE  MempoolInv'
  BY <1>8, CommitBlockInv
<1>9. CASE UNCHANGED mempoolVars
  <2>1. PoolSame /\ UNCHANGED <<check, consensus>>
    BY <1>9 DEF mempoolVars, chain, pool, removal, PoolSame
  <2>2. ChecksInv'
    BY <2>1, ChecksSame DEF PoolSame
  <2>3. MempoolTypeOK'
    BY <2>1 DEF MempoolInv, MempoolTypeOK, PoolSame
  <2>4. DropsInv'
    BY <2>1, PoolSameKeeps DEF MempoolInv, DropsInv
  <2> QED BY <2>1, <2>2, <2>3, <2>4, PoolSameKeeps DEF MempoolInv
<1> QED BY <1>1, <1>2, <1>3, <1>4, <1>5, <1>6, <1>7, <1>8, <1>9 DEF MempoolNext

(* A finite set of numbers without gap above l is an interval.             *)
LEMMA NoGapIsInterval ==
    ASSUME NEW S \in SUBSET Nat, IsFiniteSet(S), NEW l \in Nat,
           \A m \in S : m >= l, \A m \in S : \A n \in l..m : n \in S
    PROVE  S = l..(l + Cardinality(S) - 1)
<1> DEFINE k == Cardinality(S)
           T == {n \in Nat : n >= l /\ n \notin S}
<1>1. k \in Nat
  BY FS_CardinalityType
<1>2. T # {}
  <2> SUFFICES ASSUME T = {} PROVE FALSE
    OBVIOUS
  <2>1. l..(l + k) \in SUBSET S
    <3> HIDE DEF k
    <3> QED BY <1>1
  <2>2. Cardinality(l..(l + k)) = k + 1
    <3> HIDE DEF k
    <3>1. l \in Int /\ l + k \in Int /\ ~ (l > l + k) /\ (l + k) - l + 1 = k + 1
      BY <1>1
    <3> QED BY <3>1, FS_Interval
  <2>3. Cardinality(l..(l + k)) <= k
    BY <2>1, FS_Subset
  <2> HIDE DEF k
  <2> QED BY <1>1, <2>2, <2>3
<1>3. PICK n \in T : \A m \in T : n <= m
  <2>1. T \in SUBSET Nat
    OBVIOUS
  <2> QED BY <1>2, <2>1, LeastNatural
<1>4. n \in Nat /\ n >= l /\ n \notin S
  BY <1>3
<1>5. S = l..(n - 1)
  <2>1. ASSUME NEW m \in l..(n - 1) PROVE m \in S
    <3>1. m \in Nat /\ m >= l /\ ~ (n <= m)
      BY <1>4
    <3> QED BY <1>3, <3>1
  <2>2. ASSUME NEW m \in S PROVE m \in l..(n - 1)
    <3>1. m \in Nat /\ m >= l
      OBVIOUS
    <3>2. ~ (n <= m)
      BY <1>4, <3>1
    <3> QED BY <1>4, <3>1, <3>2
  <2> QED BY <2>1, <2>2
<1>6. k = n - l
  <2>1. l \in Int /\ n - 1 \in Int /\ (l > n - 1 => n - l = 0) /\ (n - 1) - l + 1 = n - l
    BY <1>4
  <2>2. Cardinality(l..(n - 1)) = n - l
    BY <1>4, <2>1, FS_Interval
  <2> QED BY <1>5, <2>2
<1>7. l + k - 1 = n - 1
  <2> HIDE DEF k
  <2> QED BY <1>1, <1>4, <1>6
<1> QED BY <1>5, <1>7

(* The invariant of the mempool.                                           *)
THEOREM MempoolInvariance == MempoolSpec => []MempoolInv
<1> QED BY MempoolInitInv, MempoolInductive, PTL DEF MempoolSpec

(* MempoolTypeOK is an invariant.                                          *)
THEOREM MempoolTypeCorrect == MempoolSpec => []MempoolTypeOK
<1>1. MempoolInv => MempoolTypeOK
  BY DEF MempoolInv
<1> QED BY <1>1, MempoolInvariance, PTL

(* Whatever the snapshots CheckTx inserts with, and however blocks, failed *)
(* proposals and maintenance interleave with it, the pending transactions  *)
(* of an account can be executed one after the other.                      *)
THEOREM PendingExecutableHolds == MempoolSpec => []PendingExecutable
<1>1. MempoolInv => PendingExecutable
  <2> SUFFICES ASSUME MempoolInv, NEW a \in Signers
               PROVE  LET live == {e.tx.nonce : e \in Fresh(pending, a)} IN
                      /\ live = nonce[a]..(nonce[a] + Cardinality(live) - 1)
                      /\ Cardinality(Fresh(pending, a)) = Cardinality(live)
    BY DEF PendingExecutable
  <2> DEFINE C == Fresh(pending, a)
             live == {e.tx.nonce : e \in C}
             f == [e \in C |-> e.tx.nonce]
  <2>1. Container(pending) /\ NoGap(pending) /\ nonce[a] \in Nat
    BY DEF MempoolInv, MempoolTypeOK, Container
  <2>2. \A e \in pending : e.tx.nonce \in Nat
    BY <2>1, SignersOf DEF Container, Timemarked
  <2>3. \A e : e \in C <=> e \in pending /\ e.tx.acct = a /\ e.tx.nonce >= nonce[a]
    BY <2>1, <2>2 DEF Fresh, Stale, Of
  <2>4. Container(C) /\ IsFiniteSet(C)
    <3>1. C \in SUBSET pending
      BY <2>3
    <3> QED BY <2>1, <3>1, SubContainer, FiniteContainer DEF Container
  <2>5. f \in Surjection(C, live)
    BY DEF Surjection
  <2>6. f \in Injection(C, live)
    <3>1. f \in [C -> live] /\ DOMAIN f = C
      OBVIOUS
    <3>2. \A d, e \in C : f[d] = f[e] => d = e
      BY <2>3, <2>4 DEF Container, OnePerNonce
    <3> HIDE DEF f, C, live
    <3> QED BY <3>1, <3>2 DEF Injection, IsInjective
  <2>7. IsFiniteSet(live) /\ Cardinality(live) = Cardinality(C)
    <3> HIDE DEF f, C, live
    <3> QED BY <2>4, <2>5, <2>6, FS_Surjection
  <2>8. live \in SUBSET Nat /\ \A m \in live : m >= nonce[a]
    BY <2>2, <2>3
  <2>9. ASSUME NEW m \in live, NEW n \in nonce[a]..m PROVE n \in live
    <3>1. PICK e \in C : m = e.tx.nonce
      OBVIOUS
    <3>2. PICK d \in pending : d.tx.acct = a /\ d.tx.nonce = n
      BY <2>1, <2>3, <3>1 DEF NoGap
    <3>3. n >= nonce[a]
      BY <2>1, <2>8
    <3> QED BY <2>3, <3>2, <3>3
  <2>10. live = nonce[a]..(nonce[a] + Cardinality(live) - 1)
    <3> HIDE DEF live
    <3> QED BY <2>1, <2>7, <2>8, <2>9, NoGapIsInterval
  <2> QED BY <2>7, <2>10
<1> QED BY <1>1, MempoolInvariance, PTL

(* A transaction of the pool is in one container and tracked, and nothing  *)
(* is tracked but the pool, what is about to be untracked and what a       *)
(* failed promotion lost.                                                  *)
THEOREM TrackedMatchesPoolHolds == MempoolSpec => []TrackedMatchesPool
<1>1. MempoolInv => TrackedMatchesPool
  BY DEF MempoolInv
<1> QED BY <1>1, MempoolInvariance, PTL

(* Maintenance leaves in pending what the balances cover and no spent      *)
(* nonce, in whichever order it visits the accounts and whatever expires.  *)
THEOREM MaintenanceCoversHolds == MempoolSpec => MaintenanceCovers
<1>1. MempoolInv /\ [MempoolNext]_mempoolVars => [RunMaintenance => PoolCovered']_mempoolVars
  BY RunMaintenanceInv
<1> QED BY <1>1, MempoolInvariance, PTL DEF MempoolSpec, MaintenanceCovers
-----------------------------------------------------------------------------
(* The states of the application *)

(* the argument of an action that locks funds is its deposit *)
Deposits == {t.arg : t \in {u \in Txs : u.act = "lock"}}

(* a state of the chain *)
Chain(c) == c \in Chains(DOMAIN c.pairs)

(* a state delta over one *)
Delta(s) ==
    /\ s = [chain |-> s.chain, deposits |-> s.deposits, blockFees |-> s.blockFees,
            updates |-> s.updates, results |-> s.results, post |-> s.post]
    /\ Chain(s.chain) /\ s.deposits \in Seq(Deposits) /\ s.blockFees \in Nat

(* the oracle's pairs after a transaction *)
PairsAfter(pairs, t) ==
    CASE t.act = "add" /\ t.arg \notin DOMAIN pairs ->
           [p \in DOMAIN pairs \cup {t.arg} |->
                IF p = t.arg THEN [nonce |-> 0, price |-> 0] ELSE pairs[p]]
      [] t.act = "remove" -> [p \in DOMAIN pairs \ {t.arg} |-> pairs[p]]
      [] OTHER -> pairs

(* What a transaction makes of a state delta, field by field. *)
After(s, t) ==
    [chain |-> [height |-> s.chain.height,
                nonce |-> [s.chain.nonce EXCEPT ![t.signer] = @ + 1],
                balance |-> [s.chain.balance EXCEPT ![t.signer] = @ - Fee(s, t)],
                fee |-> IF t.act = "fee" THEN t.arg ELSE s.chain.fee,
                pairs |-> PairsAfter(s.chain.pairs, t),
                validators |-> s.chain.validators \ (IF t.act = "update" THEN {t.arg} ELSE {}),
                enableHeight |-> s.chain.enableHeight, upgraded |-> s.chain.upgraded],
     deposits |-> IF t.act = "lock" THEN Append(s.deposits, t.arg) ELSE s.deposits,
     blockFees |-> s.blockFees + Fee(s, t),
     updates |-> s.updates \cup (IF t.act = "update" THEN {t.arg} ELSE {}),
     results |-> s.results, post |-> s.post]

(* The record of a chain's state, and of a delta over it. *)
LEMMA DeltaForm ==
    ASSUME NEW s, Delta(s)
    PROVE  /\ s = [chain |-> s.chain, deposits |-> s.deposits, blockFees |-> s.blockFees,
                   updates |-> s.updates, results |-> s.results, post |-> s.post]
           /\ s.chain = [height |-> s.chain.height, nonce |-> s.chain.nonce,
                         balance |-> s.chain.balance, fee |-> s.chain.fee,
                         pairs |-> s.chain.pairs, validators |-> s.chain.validators,
                         enableHeight |-> s.chain.enableHeight, upgraded |-> s.chain.upgraded]
           /\ s.chain.nonce \in [Holders -> Nat] /\ s.chain.balance \in [Holders -> Nat]
           /\ s.chain.pairs \in [DOMAIN s.chain.pairs -> [nonce : Nat, price : Nat]]
           /\ s.chain.fee \in Nat /\ s.blockFees \in Nat
           /\ s.chain.height \in Nat /\ s.chain.enableHeight \in Nat
BY DEF Delta, Chain, Chains

(* Execution changes what After names and nothing else.                    *)
LEMMA ExecuteForm ==
    ASSUME NEW s, Delta(s), NEW t \in Txs, Executable(s, t)
    PROVE  ExecuteTx(s, t) = After(s, t)
<1> DEFINE c == s.chain
           f == Fee(s, t)
           r == [s EXCEPT !.chain.nonce[t.signer] = @ + 1]
           q == Perform(r, t)
           nonces == [c.nonce EXCEPT ![t.signer] = @ + 1]
           Rec(n, b, g, p, v) ==
               [height |-> c.height, nonce |-> n, balance |-> b, fee |-> g, pairs |-> p,
                validators |-> v, enableHeight |-> c.enableHeight, upgraded |-> c.upgraded]
           With(d, x, g, u) == [chain |-> d, deposits |-> x, blockFees |-> g,
                                updates |-> u, results |-> s.results, post |-> s.post]
<1>1. /\ t.signer \in Holders /\ t.act \in {"lock", "fee", "update", "add", "remove"}
  BY AppAssumption
<1>2. c = Rec(c.nonce, c.balance, c.fee, c.pairs, c.validators)
  BY DeltaForm
<1>3. s = With(c, s.deposits, s.blockFees, s.updates)
  BY DeltaForm
<1>4. r = With(Rec(nonces, c.balance, c.fee, c.pairs, c.validators), s.deposits, s.blockFees, s.updates)
  <2>1. r = [s EXCEPT !.chain = [s.chain EXCEPT !.nonce = nonces]]
    BY <1>3, Zenon
  <2>2. [c EXCEPT !.nonce = nonces] = Rec(nonces, c.balance, c.fee, c.pairs, c.validators)
    <3> HIDE DEF c, nonces
    <3> QED BY <1>2
  <2> HIDE DEF nonces, r, c
  <2> QED BY <1>3, <2>1, <2>2 DEF c
<1> DEFINE pairs == PairsAfter(c.pairs, t)
           validators == c.validators \ (IF t.act = "update" THEN {t.arg} ELSE {})
           deposits == IF t.act = "lock" THEN Append(s.deposits, t.arg) ELSE s.deposits
           updates == s.updates \cup (IF t.act = "update" THEN {t.arg} ELSE {})
           newFee == IF t.act = "fee" THEN t.arg ELSE c.fee
           balances == [c.balance EXCEPT ![t.signer] = @ - f]
<1>5. q = With(Rec(nonces, c.balance, newFee, pairs, validators), deposits, s.blockFees, updates)
  <2>1. CASE t.act = "lock"
    <3>1. q = [r EXCEPT !.deposits = Append(r.deposits, t.arg)]
      BY <2>1 DEF Perform
    <3>2. pairs = c.pairs /\ validators = c.validators /\ updates = s.updates /\ newFee = c.fee
      BY <2>1 DEF PairsAfter
    <3> HIDE DEF c, nonces, r, q, pairs, validators, updates, newFee
    <3> QED BY <1>4, <2>1, <3>1, <3>2
  <2>2. CASE t.act = "fee"
    <3>1. q = [r EXCEPT !.chain = [r.chain EXCEPT !.fee = t.arg]]
      BY <2>2 DEF Perform
    <3>2. pairs = c.pairs /\ validators = c.validators /\ updates = s.updates /\ newFee = t.arg
      BY <2>2 DEF PairsAfter
    <3> HIDE DEF c, nonces, r, q, pairs, validators, updates, newFee
    <3> QED BY <1>4, <2>2, <3>1, <3>2
  <2>3. CASE t.act = "update"
    <3>1. q = [r EXCEPT !.chain = [r.chain EXCEPT !.validators = r.chain.validators \ {t.arg}],
                        !.updates = r.updates \cup {t.arg}]
      BY <2>3 DEF Perform
    <3>2. pairs = c.pairs /\ validators = c.validators \ {t.arg}
          /\ updates = s.updates \cup {t.arg} /\ newFee = c.fee
      BY <2>3 DEF PairsAfter
    <3> HIDE DEF c, nonces, r, q, pairs, validators, updates, newFee
    <3> QED BY <1>4, <2>3, <3>1, <3>2
  <2>4. CASE t.act \in {"add", "remove"}
    <3>1. q = [r EXCEPT !.chain = [r.chain EXCEPT !.pairs = pairs]]
      <4>1. r.chain.pairs = c.pairs
        <5> HIDE DEF c, r
        <5> QED BY <1>4
      <4>2. CASE t.act = "add"
        <5> HIDE DEF r, c
        <5> QED BY <4>1, <4>2 DEF Perform, PairsAfter
      <4>3. CASE t.act = "remove"
        <5> HIDE DEF r, c
        <5> QED BY <4>1, <4>3 DEF Perform, PairsAfter, Restrict
      <4> QED BY <2>4, <4>2, <4>3
    <3>2. validators = c.validators /\ updates = s.updates /\ newFee = c.fee
      BY <2>4
    <3> HIDE DEF c, nonces, r, q, pairs, validators, updates, newFee
    <3> QED BY <1>4, <2>4, <3>1, <3>2
  <2> QED BY <1>1, <2>1, <2>2, <2>3, <2>4
<1>6. Fee(q, t) = f
  <2>1. q.chain.fee = newFee
    <3> HIDE DEF q, newFee, c, pairs, validators, updates, nonces
    <3> QED BY <1>5
  <2> HIDE DEF q
  <2> QED BY <2>1 DEF Fee
<1>7. PayFee(q, t) = With(Rec(nonces, balances, newFee, pairs, validators), deposits,
                          s.blockFees + f, updates)
  <2>1. PayFee(q, t) = [q EXCEPT !.chain = [q.chain EXCEPT !.balance = [q.chain.balance EXCEPT ![t.signer] = @ - f]],
                                 !.blockFees = q.blockFees + f]
    <3> HIDE DEF q, f
    <3> QED BY <1>6 DEF PayFee
  <2>2. q.chain.balance = c.balance
    <3> HIDE DEF q, newFee, c, pairs, validators, updates, nonces
    <3> QED BY <1>5
  <2>3. PayFee(q, t) = [q EXCEPT !.chain = [q.chain EXCEPT !.balance = balances],
                                 !.blockFees = q.blockFees + f]
    <3> HIDE DEF q, f, c
    <3> QED BY <2>1, <2>2
  <2> HIDE DEF c, nonces, r, q, pairs, validators, updates, newFee, balances, f, deposits
  <2> QED BY ZenonT(60), <1>5, <2>3
<1>8. ExecuteTx(s, t) = PayFee(q, t)
  BY DEF ExecuteTx
<1> QED BY <1>7, <1>8 DEF After

(* A transaction leaves a state of the application, and changes the fee    *)
(* only if the mempool is recosted.                                        *)
LEMMA ExecuteFacts ==
    ASSUME NEW s, Delta(s), NEW t \in Txs, Executable(s, t)
    PROVE  LET e == ExecuteTx(s, t) IN
           /\ Delta(e)
           /\ e.chain.height = s.chain.height /\ e.chain.enableHeight = s.chain.enableHeight
           /\ e.results = s.results /\ e.post = s.post
           /\ IsFeeChange(t) \/ e.chain.fee = s.chain.fee
<1> DEFINE c == s.chain
           e == After(s, t)
<1>1. /\ t.signer \in Holders /\ t.act \in {"lock", "fee", "update", "add", "remove"}
      /\ t.act = "fee" => t.arg \in Nat
  BY AppAssumption
<1>2. /\ e.chain.height = c.height /\ e.chain.enableHeight = c.enableHeight
      /\ e.results = s.results /\ e.post = s.post
      /\ e.chain.fee = IF t.act = "fee" THEN t.arg ELSE c.fee
  BY DEF After
<1>3. IsFeeChange(t) \/ e.chain.fee = c.fee
  BY <1>2 DEF IsFeeChange
<1>4. Fee(s, t) \in Nat /\ Fee(s, t) <= c.balance[t.signer]
  BY <1>1, DeltaForm DEF Executable, Fee
<1>5. [c.nonce EXCEPT ![t.signer] = @ + 1] \in [Holders -> Nat]
  <2>1. c.nonce \in [Holders -> Nat]
    BY DeltaForm
  <2> HIDE DEF c
  <2> QED BY <1>1, <2>1
<1>6. [c.balance EXCEPT ![t.signer] = @ - Fee(s, t)] \in [Holders -> Nat]
  <2> DEFINE f == Fee(s, t)
  <2> HIDE DEF f
  <2>1. f \in Nat /\ f <= c.balance[t.signer] /\ c.balance \in [Holders -> Nat]
    BY <1>4, DeltaForm DEF f
  <2>2. c.balance[t.signer] - f \in Nat
    BY <1>1, <2>1
  <2> QED BY <1>1, <2>1, <2>2 DEF f
<1>7. PairsAfter(c.pairs, t) \in [DOMAIN PairsAfter(c.pairs, t) -> [nonce : Nat, price : Nat]]
  <2> DEFINE p == c.pairs
  <2>1. p \in [DOMAIN p -> [nonce : Nat, price : Nat]]
    BY DeltaForm
  <2> HIDE DEF p
  <2> DEFINE State == [nonce : Nat, price : Nat]
  <2>2. [nonce |-> 0, price |-> 0] \in State
    OBVIOUS
  <2>3. CASE t.act = "add" /\ t.arg \notin DOMAIN p
    <3>1. PairsAfter(p, t) = [x \in DOMAIN p \cup {t.arg} |->
                                IF x = t.arg THEN [nonce |-> 0, price |-> 0] ELSE p[x]]
      BY <2>3 DEF PairsAfter
    <3> HIDE DEF State
    <3> QED BY <2>1, <2>2, <3>1 DEF p, State
  <2>4. CASE t.act = "remove"
    <3>1. PairsAfter(p, t) = [x \in DOMAIN p \ {t.arg} |-> p[x]]
      BY <2>4 DEF PairsAfter
    <3> QED BY <2>1, <3>1 DEF p
  <2>5. CASE ~ (t.act = "add" /\ t.arg \notin DOMAIN p) /\ t.act # "remove"
    <3>1. PairsAfter(p, t) = p
      BY <2>5 DEF PairsAfter
    <3> QED BY <2>1, <3>1 DEF p
  <2> QED BY <2>3, <2>4, <2>5
<1>8. Chain(e.chain)
  <2>1. c.validators \in SUBSET Validators /\ c.upgraded \in BOOLEAN /\ c.height \in Nat
        /\ c.enableHeight \in Nat /\ c.fee \in Nat
    BY DEF Delta, Chain, Chains
  <2>2. e.chain.pairs = PairsAfter(c.pairs, t)
    BY DEF After
  <2> DEFINE n == [c.nonce EXCEPT ![t.signer] = @ + 1]
             b == [c.balance EXCEPT ![t.signer] = @ - Fee(s, t)]
             p == PairsAfter(c.pairs, t)
             f == IF t.act = "fee" THEN t.arg ELSE c.fee
             v == c.validators \ (IF t.act = "update" THEN {t.arg} ELSE {})
  <2>3. f \in Nat /\ v \in SUBSET Validators
    BY <1>1, <2>1
  <2>4. e.chain = [height |-> c.height, nonce |-> n, balance |-> b, fee |-> f, pairs |-> p,
                   validators |-> v, enableHeight |-> c.enableHeight, upgraded |-> c.upgraded]
    BY DEF After
  <2> HIDE DEF n, b, p, f, v, e, c
  <2> QED BY <1>5, <1>6, <1>7, <2>1, <2>2, <2>3, <2>4 DEF Chain, Chains, n, b, p
<1>9. e.deposits \in Seq(Deposits) /\ e.blockFees \in Nat
  <2>1. t.act = "lock" => t.arg \in Deposits
    BY DEF Deposits
  <2>2. s.deposits \in Seq(Deposits) /\ s.blockFees \in Nat
    BY DEF Delta
  <2>3. e.deposits = IF t.act = "lock" THEN Append(s.deposits, t.arg) ELSE s.deposits
    BY DEF After
  <2>4. e.blockFees = s.blockFees + Fee(s, t)
    BY DEF After
  <2> HIDE DEF e
  <2>5. e.blockFees \in Nat
    BY <1>4, <2>2, <2>4
  <2> QED BY <2>1, <2>2, <2>3, <2>5
<1>10. e = [chain |-> e.chain, deposits |-> e.deposits, blockFees |-> e.blockFees,
            updates |-> e.updates, results |-> e.results, post |-> e.post]
  BY DEF After
<1>11. Delta(e)
  <2> HIDE DEF e
  <2> QED BY <1>8, <1>9, <1>10 DEF Delta
<1> HIDE DEF e
<1> QED BY <1>2, <1>3, <1>11, ExecuteForm DEF e

-----------------------------------------------------------------------------
(* Executing transactions, one after the other *)

(* g gives the proposal after each of the first m transactions of the queue *)
Inclusions(g, start, queue, m) ==
    /\ g = [i \in 0..m |-> g[i]] /\ g[0] = start
    /\ \A i \in 1..m : g[i] = Include(g[i - 1], queue[i])

(* A proposal takes the transactions of the queue one by one. *)
LEMMA IncludedDefined ==
    ASSUME NEW start, NEW queue, Len(queue) \in Nat
    PROVE  \E g : Inclusions(g, start, queue, Len(queue)) /\ Included(start, queue) = g[Len(queue)]
<1> DEFINE T == {m \in Nat : ~ \E g : Inclusions(g, start, queue, m)}
<1>1. ASSUME T # {} PROVE FALSE
  <2>1. PICK m \in T : \A y \in T : m <= y
    BY <1>1, LeastNatural
  <2>2. CASE m = 0
    <3>1. Inclusions([k \in 0..0 |-> start], start, queue, 0)
      BY DEF Inclusions
    <3> QED BY <2>1, <2>2, <3>1
  <2>3. CASE m # 0
    <3>1. m - 1 \in Nat /\ m - 1 \notin T /\ m \in Nat
      <4> HIDE DEF T
      <4>1. m \in Nat
        BY DEF T
      <4> QED BY <2>1, <2>3, <4>1
    <3>2. PICK g : Inclusions(g, start, queue, m - 1)
      BY <3>1
    <3> DEFINE h == [k \in 0..m |-> IF k = m THEN Include(g[m - 1], queue[m]) ELSE g[k]]
    <3>3. h = [i \in 0..m |-> h[i]] /\ h[0] = start
      <4>1. 0 \in 0..m /\ 0 # m /\ g[0] = start
        BY <2>3, <3>1, <3>2 DEF Inclusions
      <4> QED BY <4>1
    <3>4. ASSUME NEW k \in 1..m PROVE h[k] = Include(h[k - 1], queue[k])
      <4>1. k \in 0..m /\ k - 1 \in 0..m /\ k - 1 # m
        BY <3>1
      <4>2. h[k - 1] = g[k - 1]
        BY <4>1
      <4>3. CASE k = m
        BY <4>1, <4>2, <4>3
      <4>4. CASE k # m
        <5>1. k \in 1..(m - 1) /\ h[k] = g[k]
          BY <3>1, <4>1, <4>4
        <5> QED BY <3>2, <4>2, <5>1 DEF Inclusions
      <4> QED BY <4>3, <4>4
    <3>5. Inclusions(h, start, queue, m)
      <4> HIDE DEF h
      <4> QED BY <3>3, <3>4, Zenon DEF Inclusions
    <3> QED BY <2>1, <3>5
  <2> QED BY <2>2, <2>3
<1>2. PICK g : Inclusions(g, start, queue, Len(queue))
  BY <1>1
<1> DEFINE Def(after) == [i \in 0..Len(queue) |->
               IF i = 0 THEN start ELSE Include(after[i - 1], queue[i])]
           result == CHOOSE after : after = Def(after)
<1>3. g = Def(g)
  <2>1. g = [i \in 0..Len(queue) |-> g[i]]
    BY <1>2, Zenon DEF Inclusions
  <2>2. ASSUME NEW i \in 0..Len(queue) PROVE g[i] = Def(g)[i]
    <3>1. CASE i = 0
      BY <1>2, <3>1 DEF Inclusions
    <3>2. CASE i # 0
      <4>1. i \in 1..Len(queue)
        BY <3>2
      <4>2. g[i] = Include(g[i - 1], queue[i])
        BY <1>2, <4>1 DEF Inclusions
      <4> QED BY <3>2, <4>2
    <3> QED BY <3>1, <3>2
  <2>3. Def(g) = [i \in 0..Len(queue) |-> Def(g)[i]]
    OBVIOUS
  <2> HIDE DEF Def
  <2> QED BY <2>1, <2>2, <2>3
<1>4. result = Def(result)
  BY <1>3, Zenon
<1>5. Included(start, queue) = result[Len(queue)]
  BY DEF Included
<1> HIDE DEF result
<1>6. Inclusions(result, start, queue, Len(queue))
  <2>1. result = [i \in 0..Len(queue) |-> result[i]]
    <3>1. Def(result) = [i \in 0..Len(queue) |-> Def(result)[i]]
      OBVIOUS
    <3> HIDE DEF Def
    <3> QED BY <1>4, <3>1
  <2>2. \A i \in 0..Len(queue) : result[i] =
           IF i = 0 THEN start ELSE Include(result[i - 1], queue[i])
    <3>1. \A i \in 0..Len(queue) : Def(result)[i] =
           IF i = 0 THEN start ELSE Include(result[i - 1], queue[i])
      OBVIOUS
    <3> HIDE DEF Def
    <3> QED BY <1>4, <3>1
  <2>3. \A i \in 1..Len(queue) : i \in 0..Len(queue) /\ i # 0
    OBVIOUS
  <2>4. 0 \in 0..Len(queue)
    OBVIOUS
  <2> QED BY <2>1, <2>2, <2>3, <2>4, Zenon DEF Inclusions
<1> QED BY <1>5, <1>6

(* g gives the checked state after each of the first m transactions *)
Checks(g, start, txs, m) ==
    /\ g = [i \in 0..m |-> g[i]] /\ g[0] = start
    /\ \A i \in 1..m : g[i] = Check(g[i - 1], txs[i])

(* A processed proposal's transactions are checked one by one. *)
LEMMA CheckedDefined ==
    ASSUME NEW start, NEW txs, Len(txs) \in Nat
    PROVE  \E g : Checks(g, start, txs, Len(txs)) /\ Checked(start, txs) = g[Len(txs)]
<1> DEFINE T == {m \in Nat : ~ \E g : Checks(g, start, txs, m)}
<1>1. ASSUME T # {} PROVE FALSE
  <2>1. PICK m \in T : \A y \in T : m <= y
    BY <1>1, LeastNatural
  <2>2. CASE m = 0
    <3>1. Checks([k \in 0..0 |-> start], start, txs, 0)
      BY DEF Checks
    <3> QED BY <2>1, <2>2, <3>1
  <2>3. CASE m # 0
    <3>1. m - 1 \in Nat /\ m - 1 \notin T /\ m \in Nat
      <4> HIDE DEF T
      <4>1. m \in Nat
        BY DEF T
      <4> QED BY <2>1, <2>3, <4>1
    <3>2. PICK g : Checks(g, start, txs, m - 1)
      BY <3>1
    <3> DEFINE h == [k \in 0..m |-> IF k = m THEN Check(g[m - 1], txs[m]) ELSE g[k]]
    <3>3. h = [i \in 0..m |-> h[i]] /\ h[0] = start
      <4>1. 0 \in 0..m /\ 0 # m /\ g[0] = start
        BY <2>3, <3>1, <3>2 DEF Checks
      <4> QED BY <4>1
    <3>4. ASSUME NEW k \in 1..m PROVE h[k] = Check(h[k - 1], txs[k])
      <4>1. k \in 0..m /\ k - 1 \in 0..m /\ k - 1 # m
        BY <3>1
      <4>2. h[k - 1] = g[k - 1]
        BY <4>1
      <4>3. CASE k = m
        BY <4>1, <4>2, <4>3
      <4>4. CASE k # m
        <5>1. k \in 1..(m - 1) /\ h[k] = g[k]
          BY <3>1, <4>1, <4>4
        <5> QED BY <3>2, <4>2, <5>1 DEF Checks
      <4> QED BY <4>3, <4>4
    <3>5. Checks(h, start, txs, m)
      <4> HIDE DEF h
      <4> QED BY <3>3, <3>4, Zenon DEF Checks
    <3> QED BY <2>1, <3>5
  <2> QED BY <2>2, <2>3
<1>2. PICK g : Checks(g, start, txs, Len(txs))
  BY <1>1
<1> DEFINE Def(after) == [i \in 0..Len(txs) |->
               IF i = 0 THEN start ELSE Check(after[i - 1], txs[i])]
           result == CHOOSE after : after = Def(after)
<1>3. g = Def(g)
  <2>1. g = [i \in 0..Len(txs) |-> g[i]]
    BY <1>2, Zenon DEF Checks
  <2>2. ASSUME NEW i \in 0..Len(txs) PROVE g[i] = Def(g)[i]
    <3>1. CASE i = 0
      BY <1>2, <3>1 DEF Checks
    <3>2. CASE i # 0
      <4>1. i \in 1..Len(txs)
        BY <3>2
      <4>2. g[i] = Check(g[i - 1], txs[i])
        BY <1>2, <4>1 DEF Checks
      <4> QED BY <3>2, <4>2
    <3> QED BY <3>1, <3>2
  <2>3. Def(g) = [i \in 0..Len(txs) |-> Def(g)[i]]
    OBVIOUS
  <2> HIDE DEF Def
  <2> QED BY <2>1, <2>2, <2>3
<1>4. result = Def(result)
  BY <1>3, Zenon
<1>5. Checked(start, txs) = result[Len(txs)]
  BY DEF Checked
<1> HIDE DEF result
<1>6. Checks(result, start, txs, Len(txs))
  <2>1. result = [i \in 0..Len(txs) |-> result[i]]
    <3>1. Def(result) = [i \in 0..Len(txs) |-> Def(result)[i]]
      OBVIOUS
    <3> HIDE DEF Def
    <3> QED BY <1>4, <3>1
  <2>2. \A i \in 0..Len(txs) : result[i] =
           IF i = 0 THEN start ELSE Check(result[i - 1], txs[i])
    <3>1. \A i \in 0..Len(txs) : Def(result)[i] =
           IF i = 0 THEN start ELSE Check(result[i - 1], txs[i])
      OBVIOUS
    <3> HIDE DEF Def
    <3> QED BY <1>4, <3>1
  <2>3. \A i \in 1..Len(txs) : i \in 0..Len(txs) /\ i # 0
    OBVIOUS
  <2>4. 0 \in 0..Len(txs)
    OBVIOUS
  <2> QED BY <2>1, <2>2, <2>3, <2>4, Zenon DEF Checks
<1> QED BY <1>5, <1>6

(* g gives the state after each of the first m transactions *)
Runs(g, s, txs, m) ==
    /\ g = [i \in 0..m |-> g[i]] /\ g[0] = [s |-> s, results |-> << >>, recost |-> FALSE]
    /\ \A i \in 1..m : g[i] = Run(g[i - 1], txs[i])

(* A finalized block's transactions are executed one by one. *)
LEMMA RunAllDefined ==
    ASSUME NEW s, NEW txs, Len(txs) \in Nat
    PROVE  \E g : Runs(g, s, txs, Len(txs)) /\ RunAll(s, txs) = g[Len(txs)]
<1> DEFINE T == {m \in Nat : ~ \E g : Runs(g, s, txs, m)}
<1>1. ASSUME T # {} PROVE FALSE
  <2>1. PICK m \in T : \A y \in T : m <= y
    BY <1>1, LeastNatural
  <2>2. CASE m = 0
    <3>1. Runs([k \in 0..0 |-> [s |-> s, results |-> << >>, recost |-> FALSE]], s, txs, 0)
      BY DEF Runs
    <3> QED BY <2>1, <2>2, <3>1
  <2>3. CASE m # 0
    <3>1. m - 1 \in Nat /\ m - 1 \notin T /\ m \in Nat
      <4> HIDE DEF T
      <4>1. m \in Nat
        BY DEF T
      <4> QED BY <2>1, <2>3, <4>1
    <3>2. PICK g : Runs(g, s, txs, m - 1)
      BY <3>1
    <3> DEFINE h == [k \in 0..m |-> IF k = m THEN Run(g[m - 1], txs[m]) ELSE g[k]]
    <3>3. h = [i \in 0..m |-> h[i]] /\ h[0] = [s |-> s, results |-> << >>, recost |-> FALSE]
      <4>1. 0 \in 0..m /\ 0 # m /\ g[0] = [s |-> s, results |-> << >>, recost |-> FALSE]
        BY <2>3, <3>1, <3>2 DEF Runs
      <4> QED BY <4>1
    <3>4. ASSUME NEW k \in 1..m PROVE h[k] = Run(h[k - 1], txs[k])
      <4>1. k \in 0..m /\ k - 1 \in 0..m /\ k - 1 # m
        BY <3>1
      <4>2. h[k - 1] = g[k - 1]
        BY <4>1
      <4>3. CASE k = m
        BY <4>1, <4>2, <4>3
      <4>4. CASE k # m
        <5>1. k \in 1..(m - 1) /\ h[k] = g[k]
          BY <3>1, <4>1, <4>4
        <5> QED BY <3>2, <4>2, <5>1 DEF Runs
      <4> QED BY <4>3, <4>4
    <3>5. Runs(h, s, txs, m)
      <4> HIDE DEF h
      <4> QED BY <3>3, <3>4, Zenon DEF Runs
    <3> QED BY <2>1, <3>5
  <2> QED BY <2>2, <2>3
<1>2. PICK g : Runs(g, s, txs, Len(txs))
  BY <1>1
<1> DEFINE Def(after) == [i \in 0..Len(txs) |->
               IF i = 0 THEN [s |-> s, results |-> << >>, recost |-> FALSE] ELSE Run(after[i - 1], txs[i])]
           result == CHOOSE after : after = Def(after)
<1>3. g = Def(g)
  <2>1. g = [i \in 0..Len(txs) |-> g[i]]
    BY <1>2, Zenon DEF Runs
  <2>2. ASSUME NEW i \in 0..Len(txs) PROVE g[i] = Def(g)[i]
    <3>1. CASE i = 0
      BY <1>2, <3>1 DEF Runs
    <3>2. CASE i # 0
      <4>1. i \in 1..Len(txs)
        BY <3>2
      <4>2. g[i] = Run(g[i - 1], txs[i])
        BY <1>2, <4>1 DEF Runs
      <4> QED BY <3>2, <4>2
    <3> QED BY <3>1, <3>2
  <2>3. Def(g) = [i \in 0..Len(txs) |-> Def(g)[i]]
    OBVIOUS
  <2> HIDE DEF Def
  <2> QED BY <2>1, <2>2, <2>3
<1>4. result = Def(result)
  BY <1>3, Zenon
<1>5. RunAll(s, txs) = result[Len(txs)]
  BY DEF RunAll
<1> HIDE DEF result
<1>6. Runs(result, s, txs, Len(txs))
  <2>1. result = [i \in 0..Len(txs) |-> result[i]]
    <3>1. Def(result) = [i \in 0..Len(txs) |-> Def(result)[i]]
      OBVIOUS
    <3> HIDE DEF Def
    <3> QED BY <1>4, <3>1
  <2>2. \A i \in 0..Len(txs) : result[i] =
           IF i = 0 THEN [s |-> s, results |-> << >>, recost |-> FALSE] ELSE Run(result[i - 1], txs[i])
    <3>1. \A i \in 0..Len(txs) : Def(result)[i] =
           IF i = 0 THEN [s |-> s, results |-> << >>, recost |-> FALSE] ELSE Run(result[i - 1], txs[i])
      OBVIOUS
    <3> HIDE DEF Def
    <3> QED BY <1>4, <3>1
  <2>3. \A i \in 1..Len(txs) : i \in 0..Len(txs) /\ i # 0
    OBVIOUS
  <2>4. 0 \in 0..Len(txs)
    OBVIOUS
  <2> QED BY <2>1, <2>2, <2>3, <2>4, Zenon DEF Runs
<1> QED BY <1>5, <1>6

(* e is a state in the middle of the block that s begins *)
Continues(s, e) ==
    /\ Delta(e) /\ e.chain.height = s.chain.height
    /\ e.chain.enableHeight = s.chain.enableHeight /\ e.results = s.results /\ e.post = s.post

(* p and q have executed the first i transactions, none of them failing *)
Agree(s, p, q, i) ==
    /\ p = [s |-> p.s, group |-> p.group, data |-> p.data, ok |-> p.ok, recost |-> p.recost]
    /\ p.ok \in BOOLEAN /\ p.recost \in BOOLEAN /\ Continues(s, p.s)
    /\ p.recost \/ p.s.chain.fee = s.chain.fee
    /\ p.ok => q.s = p.s /\ q.recost = p.recost /\ q.results = [k \in 1..i |-> "ok"]

(* Checking and running one more transaction.                              *)
LEMMA AgreeStep ==
    ASSUME NEW s, Delta(s), NEW p, NEW q, NEW i \in Nat, Agree(s, p, q, i), NEW t \in Txs
    PROVE  Agree(s, Check(p, t), Run(q, t), i + 1)
<1> DEFINE c == Check(p, t)
           r == Run(q, t)
<1>1. /\ p = [s |-> p.s, group |-> p.group, data |-> p.data, ok |-> p.ok, recost |-> p.recost]
      /\ p.ok \in BOOLEAN /\ p.recost \in BOOLEAN /\ Continues(s, p.s)
      /\ p.recost \/ p.s.chain.fee = s.chain.fee
      /\ p.ok => q.s = p.s /\ q.recost = p.recost /\ q.results = [k \in 1..i |-> "ok"]
  BY DEF Agree
<1>2. CASE ~p.ok \/ p.data + t.data > MaxData \/ t.group > p.group \/ ~Executable(p.s, t)
  <2>1. c = [p EXCEPT !.ok = FALSE]
    BY <1>2 DEF Check
  <2>2. c = [s |-> p.s, group |-> p.group, data |-> p.data, ok |-> FALSE, recost |-> p.recost]
    BY <1>1, <2>1
  <2> HIDE DEF c, r
  <2>3. /\ c.s = p.s /\ c.group = p.group /\ c.data = p.data /\ c.ok = FALSE
        /\ c.recost = p.recost
    BY <2>2
  <2>4. c = [s |-> c.s, group |-> c.group, data |-> c.data, ok |-> c.ok, recost |-> c.recost]
    BY <2>2, <2>3
  <2> QED BY <1>1, <2>3, <2>4 DEF Agree, c, r
<1>3. CASE ~ (~p.ok \/ p.data + t.data > MaxData \/ t.group > p.group \/ ~Executable(p.s, t))
  <2>1. c = [p EXCEPT !.s = ExecuteTx(p.s, t), !.group = t.group, !.data = p.data + t.data,
                      !.recost = p.recost \/ IsFeeChange(t)]
    BY <1>3 DEF Check
  <2> DEFINE e == ExecuteTx(p.s, t)
             d == p.data + t.data
             f == p.recost \/ IsFeeChange(t)
  <2>2. c = [s |-> e, group |-> t.group, data |-> d, ok |-> p.ok, recost |-> f]
    <3> HIDE DEF e, d, f, c
    <3> QED BY <1>1, <2>1 DEF e, d, f
  <2>3. p.ok /\ Executable(p.s, t) /\ q.s = p.s /\ Delta(p.s)
    BY <1>1, <1>3 DEF Continues
  <2>4. r = [s |-> e, results |-> Append(q.results, "ok"), recost |-> f]
    BY <1>1, <2>3 DEF Run
  <2>5. Append(q.results, "ok") = [k \in 1..(i + 1) |-> "ok"]
    <3>1. q.results = [k \in 1..i |-> "ok"]
      BY <1>1, <2>3
    <3> QED BY <3>1
  <2>6. /\ Delta(e)
        /\ e.chain.height = p.s.chain.height /\ e.chain.enableHeight = p.s.chain.enableHeight
        /\ e.results = p.s.results /\ e.post = p.s.post
        /\ IsFeeChange(t) \/ e.chain.fee = p.s.chain.fee
    BY <2>3, ExecuteFacts
  <2>7. Continues(s, e) /\ (f \/ e.chain.fee = s.chain.fee) /\ f \in BOOLEAN
    <3>1. Continues(s, e)
      BY <1>1, <2>6, Zenon DEF Continues
    <3>2. f \/ e.chain.fee = s.chain.fee
      <4> HIDE DEF e
      <4> QED BY <1>1, <2>6, Zenon
    <3>3. f \in BOOLEAN
      OBVIOUS
    <3> QED BY <3>1, <3>2, <3>3
  <2> HIDE DEF c, r, e, d, f
  <2>8. /\ c.s = e /\ c.group = t.group /\ c.data = d /\ c.ok = p.ok /\ c.recost = f
        /\ r.s = e /\ r.results = Append(q.results, "ok") /\ r.recost = f
    BY <2>2, <2>4
  <2>9. c = [s |-> c.s, group |-> c.group, data |-> c.data, ok |-> c.ok, recost |-> c.recost]
    BY <2>2, <2>8
  <2> QED BY <1>1, <2>5, <2>7, <2>8, <2>9 DEF Agree, c, r
<1> QED BY <1>2, <1>3

(* Transactions that are checked without a failure are executed alike by   *)
(* finalize_block.                                                         *)
LEMMA CheckedAgrees ==
    ASSUME NEW s, Delta(s), NEW g, NEW d, NEW txs \in Seq(Txs)
    PROVE  LET start == [s |-> s, group |-> g, data |-> d, ok |-> TRUE, recost |-> FALSE] IN
           Agree(s, Checked(start, txs), RunAll(s, txs), Len(txs))
<1> DEFINE start == [s |-> s, group |-> g, data |-> d, ok |-> TRUE, recost |-> FALSE]
           n == Len(txs)
<1>1. n \in Nat /\ \A i \in 1..n : txs[i] \in Txs
  OBVIOUS
<1>2. PICK a : Checks(a, start, txs, n) /\ Checked(start, txs) = a[n]
  BY <1>1, CheckedDefined
<1>3. PICK b : Runs(b, s, txs, n) /\ RunAll(s, txs) = b[n]
  BY <1>1, RunAllDefined
<1> DEFINE Good(i) == Agree(s, a[i], b[i], i)
           T == {i \in Nat : i <= n /\ ~Good(i)}
<1>4. Good(0)
  <2>1. a[0] = start /\ b[0] = [s |-> s, results |-> << >>, recost |-> FALSE]
    BY <1>2, <1>3 DEF Checks, Runs
  <2>2. << >> = [k \in 1..0 |-> "ok"]
    OBVIOUS
  <2>3. Continues(s, s)
    BY DEF Continues
  <2>4. Agree(s, start, [s |-> s, results |-> << >>, recost |-> FALSE], 0)
    BY <2>2, <2>3 DEF Agree
  <2> QED BY <2>1, <2>4, Zenon
<1>5. ASSUME NEW i \in 1..n, Good(i - 1) PROVE Good(i)
  <2>1. a[i] = Check(a[i - 1], txs[i]) /\ b[i] = Run(b[i - 1], txs[i])
    BY <1>2, <1>3 DEF Checks, Runs
  <2>2. i - 1 \in Nat /\ (i - 1) + 1 = i /\ txs[i] \in Txs
    BY <1>1
  <2>3. Agree(s, Check(a[i - 1], txs[i]), Run(b[i - 1], txs[i]), (i - 1) + 1)
    BY <1>5, <2>2, AgreeStep
  <2> QED BY <2>1, <2>2, <2>3
<1> HIDE DEF Good, n
<1>6. ASSUME T # {} PROVE FALSE
  <2>1. PICK i \in T : \A y \in T : i <= y
    BY <1>6, LeastNatural
  <2>2. i \in Nat /\ i <= n /\ i # 0 /\ ~Good(i)
    BY <1>4, <2>1
  <2>3. i \in 1..n /\ i - 1 \in Nat /\ i - 1 <= n /\ i - 1 \notin T
    BY <1>1, <2>1, <2>2
  <2>4. Good(i - 1)
    BY <2>3
  <2> QED BY <1>5, <2>2, <2>3, <2>4
<1>7. Good(n)
  BY <1>1, <1>6
<1> QED BY <1>2, <1>3, <1>7 DEF Good, n

(* Checking one more transaction.                                          *)
LEMMA CheckedAppend ==
    ASSUME NEW start, NEW txs \in Seq(Txs), NEW t \in Txs
    PROVE  /\ Checked(start, << >>) = start
           /\ Checked(start, Append(txs, t)) = Check(Checked(start, txs), t)
<1> DEFINE n == Len(txs)
           more == Append(txs, t)
<1>1. n \in Nat /\ Len(more) = n + 1 /\ more[n + 1] = t /\ \A i \in 1..n : more[i] = txs[i]
  OBVIOUS
<1>2. PICK a : Checks(a, start, txs, n) /\ Checked(start, txs) = a[n]
  BY <1>1, CheckedDefined
<1>3. PICK b : Checks(b, start, more, n + 1) /\ Checked(start, more) = b[n + 1]
  <2> HIDE DEF more, n
  <2>1. Len(more) \in Nat
    BY <1>1
  <2>2. \E b : Checks(b, start, more, Len(more)) /\ Checked(start, more) = b[Len(more)]
    BY <2>1, CheckedDefined
  <2> QED BY <1>1, <2>2
<1>4. PICK e : Checks(e, start, << >>, 0) /\ Checked(start, << >>) = e[0]
  <2>1. Len(<< >>) = 0
    OBVIOUS
  <2> QED BY <2>1, CheckedDefined
<1> HIDE DEF n, more
<1> DEFINE T == {i \in Nat : i <= n /\ a[i] # b[i]}
<1>5. ASSUME T # {} PROVE FALSE
  <2>1. PICK i \in T : \A y \in T : i <= y
    BY <1>5, LeastNatural
  <2>2. i \in Nat /\ i <= n /\ a[i] # b[i]
    BY <2>1
  <2>3. i # 0
    BY <1>2, <1>3, <2>2 DEF Checks
  <2>4. i \in 1..n /\ i \in 1..(n + 1) /\ i - 1 \in Nat /\ i - 1 <= n /\ i - 1 \notin T
    BY <1>1, <2>1, <2>2, <2>3
  <2>5. a[i - 1] = b[i - 1]
    BY <2>4
  <2>6. a[i] = Check(a[i - 1], txs[i]) /\ b[i] = Check(b[i - 1], more[i])
    BY <1>2, <1>3, <2>4 DEF Checks
  <2> QED BY <1>1, <2>2, <2>4, <2>5, <2>6
<1>6. a[n] = b[n]
  BY <1>1, <1>5
<1>7. b[n + 1] = Check(b[n], t)
  <2>1. n + 1 \in 1..(n + 1) /\ (n + 1) - 1 = n
    BY <1>1
  <2>2. b[n + 1] = Check(b[(n + 1) - 1], more[n + 1])
    BY <1>3, <2>1 DEF Checks
  <2> QED BY <1>1, <2>1, <2>2
<1>8. e[0] = start
  BY <1>4 DEF Checks
<1> QED BY <1>2, <1>3, <1>4, <1>6, <1>7, <1>8 DEF more

-----------------------------------------------------------------------------
(* The frame of a block *)

(* the oracle's pairs when the block at height h begins *)
PairsAt(pairs, h) ==
    IF UpgradeDue(h) THEN [p \in Pairs |-> [nonce |-> 0, price |-> 0]] ELSE pairs

(* the pairs with the prices of the block b *)
Priced(pairs, b) ==
    [p \in DOMAIN pairs |->
        IF p \in PricedPairs(b.votes) THEN [nonce |-> pairs[p].nonce + 1, price |-> b.height]
        ELSE pairs[p]]

EnableAfter(c, b) == IF UpgradeDue(b.height) THEN b.height + 1 ELSE c.enableHeight

(* the state in which the transactions of a block begin *)
LEMMA PreExecuteForm ==
    ASSUME NEW s, Delta(s), NEW h, NEW byzantine
    PROVE  PreExecute(s, h, byzantine) =
             [chain |-> [height |-> h, nonce |-> s.chain.nonce, balance |-> s.chain.balance,
                         fee |-> s.chain.fee, pairs |-> PairsAt(s.chain.pairs, h),
                         validators |-> s.chain.validators \ byzantine,
                         enableHeight |-> s.chain.enableHeight,
                         upgraded |-> s.chain.upgraded \/ UpgradeDue(h)],
              deposits |-> s.deposits, blockFees |-> s.blockFees, updates |-> s.updates,
              results |-> s.results, post |-> s.post]
<1> DEFINE c == s.chain
           v == c.validators \ byzantine
           u == c.upgraded \/ UpgradeDue(h)
           p == PairsAt(c.pairs, h)
<1>1. c = [height |-> c.height, nonce |-> c.nonce, balance |-> c.balance, fee |-> c.fee,
           pairs |-> c.pairs, validators |-> c.validators, enableHeight |-> c.enableHeight,
           upgraded |-> c.upgraded]
  BY DeltaForm
<1>2. s = [chain |-> c, deposits |-> s.deposits, blockFees |-> s.blockFees,
           updates |-> s.updates, results |-> s.results, post |-> s.post]
  BY DeltaForm
<1>3. PreExecute(s, h, byzantine) =
        [s EXCEPT !.chain = [[[[c EXCEPT !.height = h] EXCEPT !.validators = v]
                                EXCEPT !.upgraded = u] EXCEPT !.pairs = p]]
  <2> DEFINE s1 == [s EXCEPT !.chain = [s.chain EXCEPT !.height = h]]
             s2 == [s1 EXCEPT !.chain = [s1.chain EXCEPT !.validators = @ \ byzantine]]
             s3 == [s2 EXCEPT !.chain = [s2.chain EXCEPT !.upgraded = @ \/ UpgradeDue(h)]]
             s4 == [s3 EXCEPT !.chain = [s3.chain EXCEPT !.pairs = PairsAt(@, h)]]
  <2>1. PreExecute(s, h, byzantine) = s4
    BY ZenonT(60) DEF PreExecute, PairsAt
  <2> QED BY <1>1, <1>2, <2>1
<1> QED BY <1>1, <1>2, <1>3

(* the state after a block *)
LEMMA PostExecuteForm ==
    ASSUME NEW s, Delta(s), NEW b, NEW results
    PROVE  PostExecute(s, b, results) =
             [chain |-> [height |-> s.chain.height, nonce |-> s.chain.nonce,
                         balance |-> [s.chain.balance EXCEPT ![SudoAddress] = @ + s.blockFees],
                         fee |-> s.chain.fee, pairs |-> s.chain.pairs,
                         validators |-> s.chain.validators,
                         enableHeight |-> EnableAfter(s.chain, b),
                         upgraded |-> s.chain.upgraded],
              deposits |-> s.deposits, blockFees |-> s.blockFees, updates |-> {},
              results |-> s.results,
              post |-> <<[updates |-> s.updates, results |-> results,
                          enable |-> EnableAfter(s.chain, b), block |-> b,
                          deposits |-> s.deposits]>>]
<1> DEFINE c == s.chain
           e == EnableAfter(c, b)
           m == [c.balance EXCEPT ![SudoAddress] = @ + s.blockFees]
           r == <<[updates |-> s.updates, results |-> results, enable |-> e, block |-> b,
                   deposits |-> s.deposits]>>
<1>1. c = [height |-> c.height, nonce |-> c.nonce, balance |-> c.balance, fee |-> c.fee,
           pairs |-> c.pairs, validators |-> c.validators, enableHeight |-> c.enableHeight,
           upgraded |-> c.upgraded]
  BY DeltaForm
<1>2. s = [chain |-> c, deposits |-> s.deposits, blockFees |-> s.blockFees,
           updates |-> s.updates, results |-> s.results, post |-> s.post]
  BY DeltaForm
<1>3. PostExecute(s, b, results) =
        [s EXCEPT !.chain = [[c EXCEPT !.balance = m] EXCEPT !.enableHeight = e],
                  !.updates = {}, !.post = r]
  <2> DEFINE s1 == [s EXCEPT !.chain = [s.chain EXCEPT !.balance = m]]
             s2 == [s1 EXCEPT !.updates = {}]
             s3 == [s2 EXCEPT !.chain = [s2.chain EXCEPT !.enableHeight = e]]
             s4 == [s3 EXCEPT !.post = r]
  <2>1. PostExecute(s, b, results) = s4
    BY DEF PostExecute, EnableAfter
  <2> HIDE DEF m, e, r
  <2> QED BY <1>1, <1>2, <2>1
<1> HIDE DEF m, e, r, c
<1>4. [[c EXCEPT !.balance = m] EXCEPT !.enableHeight = e] =
        [height |-> c.height, nonce |-> c.nonce, balance |-> m, fee |-> c.fee,
         pairs |-> c.pairs, validators |-> c.validators, enableHeight |-> e,
         upgraded |-> c.upgraded]
  <2> DEFINE k == [c EXCEPT !.balance = m]
  <2>1. k = [height |-> c.height, nonce |-> c.nonce, balance |-> m, fee |-> c.fee,
             pairs |-> c.pairs, validators |-> c.validators, enableHeight |-> c.enableHeight,
             upgraded |-> c.upgraded]
    BY <1>1
  <2> HIDE DEF k
  <2>2. [k EXCEPT !.enableHeight = e] =
          [height |-> c.height, nonce |-> c.nonce, balance |-> m, fee |-> c.fee,
           pairs |-> c.pairs, validators |-> c.validators, enableHeight |-> e,
           upgraded |-> c.upgraded]
    BY <2>1
  <2> QED BY <2>2 DEF k
<1>5. PostExecute(s, b, results) =
        [chain |-> [[c EXCEPT !.balance = m] EXCEPT !.enableHeight = e],
         deposits |-> s.deposits, blockFees |-> s.blockFees, updates |-> {},
         results |-> s.results, post |-> r]
  BY <1>2, <1>3
<1> QED BY <1>4, <1>5 DEF m, e, r, c

(* the state after the prices of a block *)
LEMMA ApplyPricesForm ==
    ASSUME NEW s, Delta(s), NEW b
    PROVE  ApplyPrices(s, b) =
             [chain |-> [height |-> s.chain.height, nonce |-> s.chain.nonce,
                         balance |-> s.chain.balance, fee |-> s.chain.fee,
                         pairs |-> Priced(s.chain.pairs, b),
                         validators |-> s.chain.validators,
                         enableHeight |-> s.chain.enableHeight,
                         upgraded |-> s.chain.upgraded],
              deposits |-> s.deposits, blockFees |-> s.blockFees, updates |-> s.updates,
              results |-> s.results, post |-> s.post]
<1> DEFINE c == s.chain
           p == Priced(c.pairs, b)
<1>1. c = [height |-> c.height, nonce |-> c.nonce, balance |-> c.balance, fee |-> c.fee,
           pairs |-> c.pairs, validators |-> c.validators, enableHeight |-> c.enableHeight,
           upgraded |-> c.upgraded]
  BY DeltaForm
<1>2. s = [chain |-> c, deposits |-> s.deposits, blockFees |-> s.blockFees,
           updates |-> s.updates, results |-> s.results, post |-> s.post]
  BY DeltaForm
<1>3. ApplyPrices(s, b) = [s EXCEPT !.chain = [c EXCEPT !.pairs = p]]
  BY DEF ApplyPrices, Priced
<1> HIDE DEF c, p
<1>4. [c EXCEPT !.pairs = p] =
        [height |-> c.height, nonce |-> c.nonce, balance |-> c.balance, fee |-> c.fee,
         pairs |-> p, validators |-> c.validators, enableHeight |-> c.enableHeight,
         upgraded |-> c.upgraded]
  BY <1>1
<1> QED BY <1>2, <1>3, <1>4 DEF c, p

(* Each of the three leaves a state of the application.                    *)
LEMMA FrameTypes ==
    ASSUME NEW s, Delta(s), NEW b, b.height \in Nat, NEW results, NEW byzantine
    PROVE  /\ Delta(PreExecute(s, b.height, byzantine))
           /\ Delta(PostExecute(s, b, results))
           /\ Delta(ApplyPrices(s, b))
<1> DEFINE c == s.chain
           State == [nonce : Nat, price : Nat]
<1>1. /\ c.nonce \in [Holders -> Nat] /\ c.balance \in [Holders -> Nat]
      /\ c.pairs \in [DOMAIN c.pairs -> State] /\ c.fee \in Nat /\ c.height \in Nat
      /\ c.enableHeight \in Nat /\ c.validators \in SUBSET Validators /\ c.upgraded \in BOOLEAN
      /\ s.deposits \in Seq(Deposits) /\ s.blockFees \in Nat
  BY DEF Delta, Chain, Chains
<1> DEFINE Typed(d) ==
      /\ d = [chain |-> d.chain, deposits |-> d.deposits, blockFees |-> d.blockFees,
              updates |-> d.updates, results |-> d.results, post |-> d.post]
      /\ d.chain = [height |-> d.chain.height, nonce |-> d.chain.nonce,
                    balance |-> d.chain.balance, fee |-> d.chain.fee,
                    pairs |-> d.chain.pairs, validators |-> d.chain.validators,
                    enableHeight |-> d.chain.enableHeight, upgraded |-> d.chain.upgraded]
      /\ d.chain.height \in Nat /\ d.chain.nonce \in [Holders -> Nat]
      /\ d.chain.balance \in [Holders -> Nat] /\ d.chain.fee \in Nat
      /\ d.chain.pairs \in [DOMAIN d.chain.pairs -> State]
      /\ d.chain.validators \in SUBSET Validators /\ d.chain.enableHeight \in Nat
      /\ d.chain.upgraded \in BOOLEAN
      /\ d.deposits = s.deposits /\ d.blockFees = s.blockFees
<1>2. ASSUME NEW d, Typed(d) PROVE Delta(d)
  <2>1. d.chain \in Chains(DOMAIN d.chain.pairs)
    BY <1>2 DEF Chains
  <2> QED BY <1>1, <1>2, <2>1 DEF Delta, Chain
<1>3. Delta(PreExecute(s, b.height, byzantine))
  <2> DEFINE p == PairsAt(c.pairs, b.height)
             v == c.validators \ byzantine
             u == c.upgraded \/ UpgradeDue(b.height)
  <2>1. p \in [DOMAIN p -> State]
    <3>1. CASE UpgradeDue(b.height)
      BY <3>1 DEF PairsAt
    <3>2. CASE ~UpgradeDue(b.height)
      BY <1>1, <3>2 DEF PairsAt
    <3> QED BY <3>1, <3>2
  <2>2. v \in SUBSET Validators /\ u \in BOOLEAN
    BY <1>1
  <2> HIDE DEF p, v, u, State
  <2>3. PreExecute(s, b.height, byzantine) =
             [chain |-> [height |-> b.height, nonce |-> c.nonce, balance |-> c.balance,
                         fee |-> c.fee, pairs |-> p, validators |-> v,
                         enableHeight |-> c.enableHeight, upgraded |-> u],
              deposits |-> s.deposits, blockFees |-> s.blockFees, updates |-> s.updates,
              results |-> s.results, post |-> s.post]
    BY PreExecuteForm, Zenon DEF p, v, u
  <2> DEFINE d == PreExecute(s, b.height, byzantine)
  <2> HIDE DEF d
  <2>4. /\ d.chain.height = b.height /\ d.chain.nonce = c.nonce /\ d.chain.balance = c.balance
        /\ d.chain.fee = c.fee /\ d.chain.pairs = p /\ d.chain.validators = v
        /\ d.chain.enableHeight = c.enableHeight /\ d.chain.upgraded = u
        /\ d.deposits = s.deposits /\ d.blockFees = s.blockFees
    BY <2>3 DEF d
  <2>5. d.chain = [height |-> d.chain.height, nonce |-> d.chain.nonce,
                    balance |-> d.chain.balance, fee |-> d.chain.fee,
                    pairs |-> d.chain.pairs, validators |-> d.chain.validators,
                    enableHeight |-> d.chain.enableHeight, upgraded |-> d.chain.upgraded]
    BY <2>3, <2>4 DEF d
  <2>6. d = [chain |-> d.chain, deposits |-> d.deposits, blockFees |-> d.blockFees,
              updates |-> d.updates, results |-> d.results, post |-> d.post]
    BY <2>3 DEF d
  <2>7. Typed(d)
    BY <1>1, <2>1, <2>2, <2>4, <2>5, <2>6
  <2> QED BY <1>2, <2>7 DEF d
<1>4. Delta(PostExecute(s, b, results))
  <2> DEFINE m == [c.balance EXCEPT ![SudoAddress] = @ + s.blockFees]
             e == EnableAfter(c, b)
             r == <<[updates |-> s.updates, results |-> results, enable |-> e, block |-> b,
                     deposits |-> s.deposits]>>
  <2>1. m \in [Holders -> Nat]
    <3> HIDE DEF c
    <3> QED BY <1>1, AppAssumption
  <2>2. e \in Nat
    BY <1>1 DEF EnableAfter
  <2> HIDE DEF m, e, r, State
  <2>3. PostExecute(s, b, results) =
             [chain |-> [height |-> c.height, nonce |-> c.nonce, balance |-> m,
                         fee |-> c.fee, pairs |-> c.pairs, validators |-> c.validators,
                         enableHeight |-> e, upgraded |-> c.upgraded],
              deposits |-> s.deposits, blockFees |-> s.blockFees, updates |-> {},
              results |-> s.results, post |-> r]
    BY PostExecuteForm, Zenon DEF m, e, r
  <2>4. Typed(PostExecute(s, b, results))
    BY <1>1, <2>1, <2>2, <2>3
  <2> QED BY <1>2, <2>4
<1>5. Delta(ApplyPrices(s, b))
  <2> DEFINE p == Priced(c.pairs, b)
  <2>1. p \in [DOMAIN p -> State]
    <3> DEFINE q == c.pairs
    <3>1. q \in [DOMAIN q -> State]
      BY <1>1
    <3> HIDE DEF q
    <3>2. ASSUME NEW x \in DOMAIN q PROVE q[x].nonce + 1 \in Nat /\ q[x] \in State
      BY <3>1
    <3>3. p = [x \in DOMAIN q |-> p[x]] /\ DOMAIN p = DOMAIN q
      BY DEF Priced, q
    <3>4. ASSUME NEW x \in DOMAIN q PROVE p[x] \in State
      BY <3>2 DEF Priced, q
    <3> HIDE DEF p
    <3> QED BY <3>3, <3>4
  <2> HIDE DEF p, State
  <2>2. ApplyPrices(s, b) =
             [chain |-> [height |-> c.height, nonce |-> c.nonce, balance |-> c.balance,
                         fee |-> c.fee, pairs |-> p, validators |-> c.validators,
                         enableHeight |-> c.enableHeight, upgraded |-> c.upgraded],
              deposits |-> s.deposits, blockFees |-> s.blockFees, updates |-> s.updates,
              results |-> s.results, post |-> s.post]
    BY ApplyPricesForm, Zenon DEF p
  <2>3. Typed(ApplyPrices(s, b))
    BY <1>1, <2>1, <2>2
  <2> QED BY <1>2, <2>3
<1> QED BY <1>3, <1>4, <1>5

(* A fresh state delta has the committed state and no results.             *)
LEMMA SnapshotDelta ==
    ASSUME NEW c, Chain(c)
    PROVE  Delta(Snapshot(c)) /\ Snapshot(c).chain = c /\ Snapshot(c).results = << >>
           /\ Snapshot(c).post = << >>
BY DEF Delta, Snapshot

-----------------------------------------------------------------------------
(* A proposal *)

(* how process_proposal begins to check transactions *)
CheckStart(s) == [s |-> s, group |-> 4, data |-> 0, ok |-> TRUE, recost |-> FALSE]

(* process_proposal accepts the transactions that the proposal p includes, *)
(* from the state s, and is then in the state of p                         *)
Accepted(s, p) ==
    /\ p = [s |-> p.s, txs |-> p.txs, group |-> p.group, data |-> p.data,
            items |-> p.items, full |-> p.full, recost |-> p.recost]
    /\ p.txs \in Seq(Txs) /\ p.group \in Nat
    /\ \E g \in Nat : /\ p.group <= g
                      /\ Checked(CheckStart(s), p.txs) =
                           [s |-> p.s, group |-> g, data |-> p.data, ok |-> TRUE,
                            recost |-> p.recost]

(* One more transaction of the queue, included or not.                     *)
LEMMA IncludeStep ==
    ASSUME NEW s, NEW p, Accepted(s, p), NEW t \in Txs
    PROVE  Accepted(s, Include(p, t))
<1> DEFINE i == Include(p, t)
<1>1. /\ p = [s |-> p.s, txs |-> p.txs, group |-> p.group, data |-> p.data,
              items |-> p.items, full |-> p.full, recost |-> p.recost]
      /\ p.txs \in Seq(Txs) /\ p.group \in Nat
  BY DEF Accepted
<1>2. PICK g \in Nat : /\ p.group <= g
                       /\ Checked(CheckStart(s), p.txs) =
                           [s |-> p.s, group |-> g, data |-> p.data, ok |-> TRUE,
                            recost |-> p.recost]
  BY DEF Accepted
<1>3. t.group \in Nat
  BY AppAssumption
<1>4. CASE p.full \/ Len(p.txs) + p.items >= MaxTxBytes
  <2>1. i = [p EXCEPT !.full = TRUE]
    BY <1>4 DEF Include
  <2> HIDE DEF i
  <2>2. i = [s |-> p.s, txs |-> p.txs, group |-> p.group, data |-> p.data,
             items |-> p.items, full |-> TRUE, recost |-> p.recost]
    BY <1>1, <2>1
  <2> QED BY <1>1, <1>2, <2>2 DEF Accepted, i
<1>5. CASE /\ ~ (p.full \/ Len(p.txs) + p.items >= MaxTxBytes)
           /\ p.data + t.data > MaxData \/ t.group > p.group
  <2>1. i = p
    BY <1>5 DEF Include
  <2> QED BY <2>1
<1>6. CASE /\ ~ (p.full \/ Len(p.txs) + p.items >= MaxTxBytes)
           /\ ~ (p.data + t.data > MaxData \/ t.group > p.group)
           /\ ~Executable(p.s, t)
  <2>1. i = [p EXCEPT !.group = t.group]
    BY <1>6 DEF Include
  <2> HIDE DEF i
  <2>2. i = [s |-> p.s, txs |-> p.txs, group |-> t.group, data |-> p.data,
             items |-> p.items, full |-> p.full, recost |-> p.recost]
    BY <1>1, <2>1
  <2>3. t.group <= g
    BY <1>1, <1>2, <1>3, <1>6
  <2> QED BY <1>1, <1>2, <1>3, <2>2, <2>3 DEF Accepted, i
<1>7. CASE /\ ~ (p.full \/ Len(p.txs) + p.items >= MaxTxBytes)
           /\ ~ (p.data + t.data > MaxData \/ t.group > p.group)
           /\ Executable(p.s, t)
  <2> DEFINE e == ExecuteTx(p.s, t)
             d == p.data + t.data
             f == p.recost \/ IsFeeChange(t)
             x == Append(p.txs, t)
             c == [s |-> p.s, group |-> g, data |-> p.data, ok |-> TRUE, recost |-> p.recost]
  <2>1. i = [p EXCEPT !.s = e, !.txs = x, !.group = t.group, !.data = d, !.recost = f]
    BY <1>7 DEF Include
  <2>2. Check(c, t) = [c EXCEPT !.s = e, !.group = t.group, !.data = d, !.recost = f]
    <3>1. c.ok = TRUE /\ c.data = p.data /\ c.group = g /\ c.s = p.s /\ c.recost = p.recost
      OBVIOUS
    <3>2. ~ (t.group > g)
      BY <1>1, <1>2, <1>3, <1>7
    <3> HIDE DEF c
    <3> QED BY <1>7, <3>1, <3>2 DEF Check
  <2>3. x \in Seq(Txs) /\ Checked(CheckStart(s), x) = Check(c, t)
    <3>1. Checked(CheckStart(s), x) = Check(Checked(CheckStart(s), p.txs), t)
      BY <1>1, CheckedAppend
    <3>2. x \in Seq(Txs)
      BY <1>1
    <3> HIDE DEF x
    <3> QED BY <1>2, <3>1, <3>2, Zenon
  <2> HIDE DEF i, e, d, f, x
  <2>4. i = [s |-> e, txs |-> x, group |-> t.group, data |-> d,
             items |-> p.items, full |-> p.full, recost |-> f]
    BY <1>1, <2>1
  <2>5. Checked(CheckStart(s), x) =
             [s |-> e, group |-> t.group, data |-> d, ok |-> TRUE, recost |-> f]
    BY <2>2, <2>3
  <2> QED BY <1>3, <2>3, <2>4, <2>5 DEF Accepted, i
<1> QED BY <1>4, <1>5, <1>6, <1>7

(* All transactions that a proposal includes are accepted.                 *)
LEMMA IncludedAccepted ==
    ASSUME NEW s, NEW start, Accepted(s, start), NEW queue, Len(queue) \in Nat,
           \A i \in 1..Len(queue) : queue[i] \in Txs
    PROVE  Accepted(s, Included(start, queue))
<1> DEFINE n == Len(queue)
<1>1. PICK a : Inclusions(a, start, queue, n) /\ Included(start, queue) = a[n]
  BY IncludedDefined
<1> DEFINE Good(i) == Accepted(s, a[i])
           T == {i \in Nat : i <= n /\ ~Good(i)}
<1>2. Good(0)
  BY <1>1 DEF Inclusions
<1>3. ASSUME NEW i \in 1..n, Good(i - 1) PROVE Good(i)
  <2>1. a[i] = Include(a[i - 1], queue[i])
    BY <1>1 DEF Inclusions
  <2> QED BY <1>3, <2>1, IncludeStep
<1> HIDE DEF Good
<1>4. ASSUME T # {} PROVE FALSE
  <2>1. PICK i \in T : \A y \in T : i <= y
    BY <1>4, LeastNatural
  <2>2. i \in Nat /\ i <= n /\ i # 0 /\ ~Good(i)
    BY <1>2, <2>1
  <2>3. i \in 1..n /\ i - 1 \in Nat /\ i - 1 <= n /\ i - 1 \notin T
    BY <2>1, <2>2
  <2>4. Good(i - 1)
    BY <2>3
  <2> QED BY <1>3, <2>2, <2>3, <2>4
<1>5. Good(n)
  BY <1>4
<1> QED BY <1>1, <1>5 DEF Good

(* A queue is a sequence of transactions.                                  *)
LEMMA QueueFacts ==
    ASSUME NEW queue \in BuilderQueues
    PROVE  Len(queue) \in Nat /\ \A i \in 1..Len(queue) : queue[i] \in Txs
<1>1. PICK S \in SUBSET Txs : queue \in SetToSeqs(S)
  BY DEF BuilderQueues
<1>2. IsFiniteSet(S)
  BY AppAssumption, FS_Subset
<1> DEFINE n == Cardinality(S)
<1>3. n \in Nat
  BY <1>2, FS_CardinalityType
<1>4. queue \in [1..n -> S]
  BY <1>1 DEF SetToSeqs
<1> HIDE DEF n
<1>5. Len(queue) = n
  BY <1>3, <1>4
<1> QED BY <1>1, <1>3, <1>4, <1>5

(* b is a block that may follow the state c of the chain *)
WellFormed(c, b) ==
    /\ b.height = c.height + 1 /\ b.txs \in Seq(Txs)
    /\ b.votes.ids # {} => c.enableHeight # 0
    /\ b.votes.listed = {} => b.votes.ids = {}

(* the prices of b find their pairs *)
PairsKnown(c, b) == PricedPairs(b.votes) \subseteq DOMAIN c.pairs

(* the record of a block and of its votes *)
VotesForm(v) ==
    /\ v = [present |-> v.present, decodes |-> v.decodes, listed |-> v.listed,
            voters |-> v.voters, ids |-> v.ids, pairs |-> v.pairs]
    /\ v.listed = {} => v.ids = {} /\ v.voters = {}

BlockForm(b) ==
    /\ b = [height |-> b.height, byzantine |-> b.byzantine, txs |-> b.txs,
            deposits |-> b.deposits, votes |-> b.votes, changeHashes |-> b.changeHashes]
    /\ VotesForm(b.votes)

(* vote extensions are enabled by the upgrade only *)
Enabling(c) == c.enableHeight # 0 => Aspen <= c.height

(* the block b after the state c: where its transactions begin, and what   *)
(* their execution gives                                                   *)
Beginning(c, b) == PreExecute(Snapshot(c), b.height, b.byzantine)
Outcome(c, b) == RunAll(Beginning(c, b), b.txs)

(* s has executed the transactions of b, all of them with success *)
PreparedState(c, b, s) ==
    /\ Outcome(c, b).results = AllOk(b.txs) /\ Delta(Outcome(c, b).s)
    /\ s = [Outcome(c, b).s EXCEPT !.results = <<AllOk(b.txs)>>]

(* the state in which the transactions of a block begin, on a fresh delta  *)
LEMMA BeginningForm ==
    ASSUME NEW c, Chain(c), NEW h \in Nat, NEW byzantine
    PROVE  LET s == PreExecute(Snapshot(c), h, byzantine) IN
           /\ Delta(s) /\ s.chain.height = h /\ s.chain.enableHeight = c.enableHeight
           /\ s.chain.fee = c.fee /\ s.chain.pairs = PairsAt(c.pairs, h)
           /\ s.chain.validators = c.validators \ byzantine
           /\ s.results = << >> /\ s.post = << >> /\ s.deposits = << >>
<1> DEFINE z == Snapshot(c)
           b == [height |-> h]
           s == PreExecute(z, h, byzantine)
<1>1. Delta(z) /\ z.chain = c /\ z.results = << >> /\ z.post = << >> /\ z.deposits = << >>
  <2>1. z.deposits = << >>
    BY DEF Snapshot
  <2> QED BY <2>1, SnapshotDelta
<1> HIDE DEF z
<1>2. s = [chain |-> [height |-> h, nonce |-> z.chain.nonce, balance |-> z.chain.balance,
                      fee |-> z.chain.fee, pairs |-> PairsAt(z.chain.pairs, h),
                      validators |-> z.chain.validators \ byzantine,
                      enableHeight |-> z.chain.enableHeight,
                      upgraded |-> z.chain.upgraded \/ UpgradeDue(h)],
           deposits |-> z.deposits, blockFees |-> z.blockFees, updates |-> z.updates,
           results |-> z.results, post |-> z.post]
  BY <1>1, PreExecuteForm
<1>3. Delta(s)
  <2>1. b.height = h
    OBVIOUS
  <2> HIDE DEF b
  <2>2. Delta(PreExecute(z, b.height, byzantine))
    BY <1>1, <2>1, FrameTypes
  <2> QED BY <2>1, <2>2
<1> HIDE DEF s
<1>4. /\ s.chain.height = h /\ s.chain.enableHeight = z.chain.enableHeight
      /\ s.chain.fee = z.chain.fee /\ s.chain.pairs = PairsAt(z.chain.pairs, h)
      /\ s.chain.validators = z.chain.validators \ byzantine
      /\ s.results = z.results /\ s.post = z.post /\ s.deposits = z.deposits
  BY <1>2
<1> QED BY <1>1, <1>3, <1>4 DEF s, z

(* The votes a proposer includes.                                          *)
LEMMA VotesFacts ==
    ASSUME NEW c, Chain(c), Enabling(c), NEW byzantine, NEW voters \in {{}, Validators},
           NEW pairs
    PROVE  LET h == c.height + 1
               s == PreExecute(Snapshot(c), h, byzantine)
               base == Commitments + IF UpgradeDue(h) THEN 1 ELSE 0
               votes == IF VoteExtensionsEnabled(s, h)
                        THEN PreparedVotes(s, voters, pairs, MaxTxBytes - base) ELSE NoVotes IN
           /\ votes.ids # {} => c.enableHeight # 0
           /\ votes.present <=> VoteExtensionsEnabled(Snapshot(c), h)
           /\ VotesAccepted(Snapshot(c), votes)
           /\ Cardinality(Validators) < MaxTxBytes => votes.decodes
           /\ VotesForm(votes)
<1> DEFINE h == c.height + 1
           s == PreExecute(Snapshot(c), h, byzantine)
           z == Snapshot(c)
           base == Commitments + IF UpgradeDue(h) THEN 1 ELSE 0
           room == MaxTxBytes - base
           votes == IF VoteExtensionsEnabled(s, h)
                    THEN PreparedVotes(s, voters, pairs, room) ELSE NoVotes
<1>1. c.height \in Nat /\ h \in Nat /\ c.enableHeight \in Nat
  BY DEF Chain, Chains
<1>2. /\ s.chain.enableHeight = c.enableHeight /\ s.chain.pairs = PairsAt(c.pairs, h)
      /\ s.chain.validators = c.validators \ byzantine
  BY <1>1, BeginningForm
<1>3. z.chain = c
  BY SnapshotDelta
<1>4. VoteExtensionsEnabled(s, h) <=> VoteExtensionsEnabled(z, h)
  <2> HIDE DEF s, z, h
  <2> QED BY <1>2, <1>3 DEF VoteExtensionsEnabled
<1>5. CASE ~VoteExtensionsEnabled(s, h)
  <2>1. votes = [present |-> FALSE, decodes |-> TRUE, listed |-> {}, voters |-> {}, ids |-> {},
                   pairs |-> {}]
    BY <1>5 DEF NoVotes
  <2> HIDE DEF votes
  <2>2. votes.present = FALSE /\ votes.decodes /\ votes.listed = {} /\ votes.voters = {}
        /\ votes.ids = {}
    BY <2>1
  <2>3. VotesForm(votes)
    BY <2>1 DEF VotesForm
  <2> QED BY <1>4, <1>5, <2>2, <2>3 DEF VotesAccepted, votes
<1>6. CASE VoteExtensionsEnabled(s, h)
  <2>1. c.enableHeight # 0
    <3> HIDE DEF s, h
    <3> QED BY <1>2, <1>6 DEF VoteExtensionsEnabled
  <2>2. ~UpgradeDue(h)
    BY <1>1, <2>1, AppAssumption DEF UpgradeDue, Enabling
  <2>3. s.chain.pairs = c.pairs
    <3> HIDE DEF s, h
    <3> QED BY <1>2, <2>2 DEF PairsAt
  <2>4. base = 1
    <3> HIDE DEF h
    <3> QED BY <2>2 DEF Commitments
  <2>5. votes = PreparedVotes(s, voters, pairs, room)
    BY <1>6
  <2>6. EmptyVotes = [present |-> TRUE, decodes |-> TRUE, listed |-> {}, voters |-> {}, ids |-> {},
                   pairs |-> {}]
    <3> DEFINE n == NoVotes
    <3>1. n = [present |-> FALSE, decodes |-> TRUE, listed |-> {}, voters |-> {}, ids |-> {},
                   pairs |-> {}]
      BY DEF NoVotes
    <3>2. EmptyVotes = [n EXCEPT !.present = TRUE]
      BY DEF EmptyVotes
    <3> HIDE DEF n
    <3> QED BY <3>1, <3>2
  <2>7. EmptyBytes = [present |-> TRUE, decodes |-> FALSE, listed |-> {}, voters |-> {}, ids |-> {},
                   pairs |-> {}]
    <3> DEFINE n == EmptyVotes
    <3>1. n = [present |-> TRUE, decodes |-> TRUE, listed |-> {}, voters |-> {}, ids |-> {},
                   pairs |-> {}]
      BY <2>6
    <3>2. EmptyBytes = [n EXCEPT !.decodes = FALSE]
      BY DEF EmptyBytes
    <3> HIDE DEF n
    <3> QED BY <3>1, <3>2
  <2> HIDE DEF votes, s, h, z
  <2>8. CASE ~VotesValid(s, voters, Validators)
    <3>1. votes = [present |-> TRUE, decodes |-> TRUE, listed |-> {}, voters |-> {}, ids |-> {},
                   pairs |-> {}]
      BY <2>5, <2>6, <2>8 DEF PreparedVotes
    <3>2. votes.present = TRUE /\ votes.decodes /\ votes.listed = {} /\ votes.voters = {}
        /\ votes.ids = {}
      BY <3>1
    <3>3. VotesForm(votes)
      BY <3>1 DEF VotesForm
    <3> QED BY <1>4, <1>6, <3>2, <3>3 DEF VotesAccepted, votes, s, h, z
  <2>9. CASE VotesValid(s, voters, Validators) /\ Cardinality(voters) > room
    <3>1. votes = [present |-> TRUE, decodes |-> FALSE, listed |-> {}, voters |-> {}, ids |-> {},
                   pairs |-> {}]
      BY <2>5, <2>7, <2>9 DEF PreparedVotes
    <3>2. votes.present = TRUE /\ votes.listed = {} /\ votes.voters = {}
        /\ votes.ids = {}
      BY <3>1
    <3>3. ~ (Cardinality(Validators) < MaxTxBytes)
      <4>1. Cardinality(Validators) \in Nat /\ Cardinality({}) = 0
        BY AppAssumption, FS_CardinalityType, FS_EmptySet
      <4>2. MaxTxBytes \in Nat
        BY AppAssumption
      <4>3. Cardinality(voters) <= Cardinality(Validators) /\ Cardinality(voters) \in Nat
        <5>1. CASE voters = {}
          BY <4>1, <5>1
        <5>2. CASE voters = Validators
          BY <4>1, <5>2
        <5> QED BY <5>1, <5>2
      <4> DEFINE x == Cardinality(voters)
                 y == Cardinality(Validators)
      <4> HIDE DEF x, y
      <4>4. x > MaxTxBytes - 1 /\ x <= y /\ x \in Nat /\ y \in Nat
        BY <2>4, <2>9, <4>1, <4>3 DEF x, y
      <4>5. ~ (y < MaxTxBytes)
        BY <4>2, <4>4
      <4> QED BY <4>5 DEF y
    <3>4. VotesForm(votes)
      BY <3>1 DEF VotesForm
    <3> QED BY <1>4, <1>6, <3>2, <3>3, <3>4 DEF VotesAccepted, votes, s, h, z
  <2>10. CASE VotesValid(s, voters, Validators) /\ ~ (Cardinality(voters) > room)
    <3> DEFINE q == pairs \cap DOMAIN s.chain.pairs
    <3> DEFINE v == EmptyVotes
    <3>1. votes = [v EXCEPT !.listed = Validators, !.voters = voters, !.ids = pairs, !.pairs = q]
      BY <2>5, <2>10 DEF PreparedVotes, IdToCurrencyPair
    <3>0. v = [present |-> TRUE, decodes |-> TRUE, listed |-> {}, voters |-> {}, ids |-> {},
               pairs |-> {}]
      BY <2>6
    <3> HIDE DEF q, v
    <3>2. votes = [present |-> TRUE, decodes |-> TRUE, listed |-> Validators, voters |-> voters,
                   ids |-> pairs, pairs |-> q]
      BY <3>0, <3>1
    <3>3. /\ votes.present = TRUE /\ votes.decodes /\ votes.voters = voters /\ votes.pairs = q
          /\ votes.listed = Validators /\ votes.ids = pairs
      BY <3>2
    <3>4. q = IdToCurrencyPair(z, pairs)
      BY <1>3, <2>3 DEF q, IdToCurrencyPair
    <3>5. VotesValid(z, voters, Validators)
      BY <1>2, <1>3, <2>10 DEF VotesValid
    <3>6. VotesAccepted(z, votes)
      BY <3>3, <3>4, <3>5 DEF VotesAccepted
    <3>7. VotesForm(votes)
      <4>1. voters # {}
        <5>1. Cardinality({}) = 0 /\ Cardinality(Validators) \in Nat
          BY AppAssumption, FS_CardinalityType, FS_EmptySet
        <5> DEFINE y == Cardinality(Validators)
        <5>2. 0 < (2 * y) \div 3 + 1
          <6> HIDE DEF y
          <6> QED BY <5>1, AppAssumption DEF y
        <5> QED BY <2>10, <5>1, <5>2 DEF VotesValid
      <4> QED BY <3>2, <3>3, <4>1 DEF VotesForm
    <3> QED BY <1>4, <1>6, <2>1, <3>3, <3>6, <3>7 DEF votes, s, h, z
  <2> QED BY <2>8, <2>9, <2>10
<1> QED BY <1>5, <1>6

(* Setting the results of a delta.                                         *)
LEMMA WithResults ==
    ASSUME NEW s, Delta(s), NEW results
    PROVE  LET e == [s EXCEPT !.results = results] IN
           /\ Delta(e) /\ e.results = results
           /\ e.chain = s.chain /\ e.deposits = s.deposits /\ e.blockFees = s.blockFees
           /\ e.updates = s.updates /\ e.post = s.post
<1> DEFINE e == [s EXCEPT !.results = results]
<1>1. s = [chain |-> s.chain, deposits |-> s.deposits, blockFees |-> s.blockFees,
           updates |-> s.updates, results |-> s.results, post |-> s.post]
  BY DeltaForm
<1>2. e = [chain |-> s.chain, deposits |-> s.deposits, blockFees |-> s.blockFees,
           updates |-> s.updates, results |-> results, post |-> s.post]
  BY <1>1
<1> HIDE DEF e
<1>3. /\ e.results = results
      /\ e.chain = s.chain /\ e.deposits = s.deposits /\ e.blockFees = s.blockFees
      /\ e.updates = s.updates /\ e.post = s.post
  BY <1>2
<1>4. Delta(e)
  BY <1>2, <1>3 DEF Delta
<1> QED BY <1>3, <1>4 DEF e

(* What prepare_proposal leaves, and that the proposal is accepted if the  *)
(* votes of all validators fit into it.                                    *)
LEMMA PreparedFacts ==
    ASSUME NEW c, Chain(c), Enabling(c), NEW r, r.queue \in BuilderQueues,
           r.voters \in {{}, Validators}
    PROVE  LET p == PreparedFrom(c, r) IN
           /\ WellFormed(c, p.block) /\ PreparedState(c, p.block, p.s)
           /\ Delta(p.s) /\ p.s.post = << >> /\ p.recost \in BOOLEAN
           /\ p.s.chain.enableHeight = c.enableHeight
           /\ p.recost \/ p.s.chain.fee = c.fee
           /\ Cardinality(Validators) < MaxTxBytes => Valid(c, p.block)
           /\ BlockForm(p.block)
<1> DEFINE h == c.height + 1
           s0 == PreExecute(Snapshot(c), h, r.byzantine)
           base == Commitments + IF UpgradeDue(h) THEN 1 ELSE 0
           votes == IF VoteExtensionsEnabled(s0, h)
                    THEN PreparedVotes(s0, r.voters, r.pairs, MaxTxBytes - base) ELSE NoVotes
           start == [s |-> s0, txs |-> << >>, group |-> 4, data |-> 0,
                     items |-> base + Cardinality(votes.voters),
                     full |-> FALSE, recost |-> FALSE]
           q == Included(start, r.queue)
           b == [height |-> h, byzantine |-> r.byzantine, txs |-> q.txs,
                 deposits |-> q.s.deposits, votes |-> votes, changeHashes |-> UpgradeDue(h)]
           k == CheckStart(s0)
           p == PreparedFrom(c, r)
<1>1. p = [s |-> [q.s EXCEPT !.results = <<AllOk(q.txs)>>], recost |-> q.recost, block |-> b]
  BY Zenon DEF PreparedFrom
<1>2. h \in Nat
  BY DEF Chain, Chains
<1>3. /\ Delta(s0) /\ s0.chain.enableHeight = c.enableHeight /\ s0.chain.fee = c.fee
      /\ s0.post = << >>
  BY <1>2, BeginningForm
<1>4. /\ votes.ids # {} => c.enableHeight # 0
      /\ votes.present <=> VoteExtensionsEnabled(Snapshot(c), h)
      /\ VotesAccepted(Snapshot(c), votes)
      /\ Cardinality(Validators) < MaxTxBytes => votes.decodes
      /\ VotesForm(votes)
  BY VotesFacts, Zenon
<1> HIDE DEF votes, base
<1>5. Accepted(s0, start)
  <2> HIDE DEF s0
  <2> DEFINE items == base + Cardinality(votes.voters)
  <2> HIDE DEF items
  <2>0. start = [s |-> s0, txs |-> << >>, group |-> 4, data |-> 0, items |-> items,
                 full |-> FALSE, recost |-> FALSE]
    BY DEF items
  <2> HIDE DEF start
  <2>1. << >> \in Seq(Txs)
    OBVIOUS
  <2>2. Checked(k, << >>) = k
    <3>1. CASE \E t \in Txs : TRUE
      BY <2>1, <3>1, CheckedAppend
    <3>2. CASE ~ \E t \in Txs : TRUE
      <4>1. Len(<< >>) = 0
        OBVIOUS
      <4>2. PICK e : Checks(e, k, << >>, 0) /\ Checked(k, << >>) = e[0]
        BY <4>1, CheckedDefined
      <4> QED BY <4>2 DEF Checks
    <3> QED BY <3>1, <3>2
  <2>3. k = [s |-> s0, group |-> 4, data |-> 0, ok |-> TRUE, recost |-> FALSE]
    BY DEF CheckStart
  <2>4. /\ start.s = s0 /\ start.txs = << >> /\ start.group = 4 /\ start.data = 0
        /\ start.recost = FALSE /\ start.items = items /\ start.full = FALSE
    BY <2>0
  <2>5. start = [s |-> start.s, txs |-> start.txs, group |-> start.group, data |-> start.data,
                 items |-> start.items, full |-> start.full, recost |-> start.recost]
    BY <2>0, <2>4
  <2>6. 4 \in Nat /\ 4 <= 4
    OBVIOUS
  <2> QED BY <2>1, <2>2, <2>3, <2>4, <2>5, <2>6 DEF Accepted
<1>6. Accepted(s0, q)
  <2>1. Len(r.queue) \in Nat /\ \A i \in 1..Len(r.queue) : r.queue[i] \in Txs
    BY QueueFacts
  <2> HIDE DEF s0, start
  <2> QED BY <1>5, <2>1, IncludedAccepted
<1> HIDE DEF q, start
<1>7. PICK g \in Nat : Checked(k, q.txs) = [s |-> q.s, group |-> g, data |-> q.data,
                                           ok |-> TRUE, recost |-> q.recost]
  BY <1>6 DEF Accepted
<1>8. q.txs \in Seq(Txs)
  BY <1>6 DEF Accepted
<1> DEFINE w == Checked(k, q.txs)
           o == RunAll(s0, q.txs)
<1>9. Agree(s0, w, o, Len(q.txs))
  <2> HIDE DEF s0
  <2> QED BY <1>3, <1>8, CheckedAgrees DEF CheckStart
<1> HIDE DEF s0, w
<1>10. w.s = q.s /\ w.ok = TRUE /\ w.recost = q.recost
  BY <1>7 DEF w
<1>11. /\ q.recost \in BOOLEAN /\ Continues(s0, q.s)
       /\ q.recost \/ q.s.chain.fee = s0.chain.fee
       /\ o.s = q.s /\ o.results = AllOk(q.txs)
  <2> HIDE DEF o
  <2> QED BY <1>9, <1>10 DEF Agree, AllOk
<1>12. b.height = h /\ b.byzantine = r.byzantine /\ b.txs = q.txs /\ b.deposits = q.s.deposits
       /\ b.votes = votes /\ b.changeHashes = UpgradeDue(h)
       /\ b = [height |-> b.height, byzantine |-> b.byzantine, txs |-> b.txs,
               deposits |-> b.deposits, votes |-> b.votes, changeHashes |-> b.changeHashes]
  OBVIOUS
<1> HIDE DEF b
<1>13. /\ p.s = [q.s EXCEPT !.results = <<AllOk(q.txs)>>] /\ p.recost = q.recost
       /\ p.block = b
  <2> HIDE DEF p
  <2> QED BY <1>1
<1> HIDE DEF p
<1>14. WellFormed(c, b)
  BY <1>4, <1>8, <1>12 DEF WellFormed, VotesForm
<1>15. Outcome(c, b) = o
  BY <1>12, Zenon DEF Outcome, Beginning, s0
<1> HIDE DEF o
<1>16. Delta(q.s) /\ q.s.post = << >> /\ q.s.chain.enableHeight = c.enableHeight
  <2>1. Continues(s0, q.s)
    BY <1>11, Zenon
  <2> QED BY <1>3, <2>1 DEF Continues
<1>17. PreparedState(c, b, p.s)
  BY <1>11, <1>12, <1>13, <1>15, <1>16, Zenon DEF PreparedState
<1>18. Delta(p.s) /\ p.s.chain = q.s.chain /\ p.s.post = q.s.post
  <2> DEFINE e == [q.s EXCEPT !.results = <<AllOk(q.txs)>>]
  <2>1. Delta(e) /\ e.chain = q.s.chain /\ e.post = q.s.post
    BY <1>16, WithResults, Zenon
  <2> HIDE DEF e
  <2> QED BY <1>13, <2>1 DEF e
<1>19. ASSUME Cardinality(Validators) < MaxTxBytes PROVE Valid(c, b)
  <2>1. Parses(Snapshot(c), b)
    BY <1>4, <1>12, <1>19 DEF Parses
  <2>2. VotesAccepted(Snapshot(c), b.votes) /\ b.changeHashes = UpgradeDue(b.height)
    BY <1>4, <1>12
  <2> DEFINE x == [s |-> Snapshot(c), group |-> 4, data |-> 0, ok |-> TRUE, recost |-> FALSE]
             y == Checked([x EXCEPT !.s = PreExecute(Snapshot(c), b.height, b.byzantine)], b.txs)
  <2>3. Processed(c, b) = [y EXCEPT !.ok = @ /\ b.deposits = y.s.deposits]
    BY <2>2 DEF Processed
  <2>4. y = w
    <3>1. [x EXCEPT !.s = PreExecute(Snapshot(c), b.height, b.byzantine)] = k
      <4>1. PreExecute(Snapshot(c), b.height, b.byzantine) = s0
        BY <1>12, Zenon DEF s0
      <4> DEFINE z == Snapshot(c)
      <4> HIDE DEF z
      <4>2. [x EXCEPT !.s = s0] = [s |-> s0, group |-> 4, data |-> 0, ok |-> TRUE, recost |-> FALSE]
        <5>1. x = [s |-> z, group |-> 4, data |-> 0, ok |-> TRUE, recost |-> FALSE]
          BY DEF z
        <5>2. ASSUME NEW a, NEW o1, NEW o2,
                     a = [s |-> z, group |-> 4, data |-> 0, ok |-> o1, recost |-> o2]
              PROVE  [a EXCEPT !.s = s0] =
                       [s |-> s0, group |-> 4, data |-> 0, ok |-> o1, recost |-> o2]
          BY <5>2
        <5> HIDE DEF x
        <5> QED BY <5>1, <5>2, Zenon
      <4> QED BY <4>1, <4>2 DEF CheckStart
    <3> HIDE DEF x, k
    <3> QED BY <1>12, <3>1 DEF w
  <2> HIDE DEF y
  <2>5. Processed(c, b).ok = (w.ok /\ b.deposits = w.s.deposits)
    <3>1. w = [s |-> q.s, group |-> g, data |-> q.data, ok |-> TRUE, recost |-> q.recost]
      BY <1>7 DEF w
    <3>2. Processed(c, b) = [w EXCEPT !.ok = w.ok /\ b.deposits = w.s.deposits]
      BY <2>3, <2>4
    <3> QED BY <3>1, <3>2
  <2> QED BY <1>10, <1>12, <2>1, <2>5 DEF Valid
<1>20. p.recost \in BOOLEAN /\ p.s.chain.enableHeight = c.enableHeight /\ p.s.post = << >>
  BY <1>11, <1>13, <1>16, <1>18
<1>21. p.recost \/ p.s.chain.fee = c.fee
  BY <1>3, <1>11, <1>13, <1>18, Zenon
<1>22. WellFormed(c, p.block) /\ (Cardinality(Validators) < MaxTxBytes => Valid(c, p.block))
       /\ PreparedState(c, p.block, p.s) /\ BlockForm(p.block)
  <2>1. BlockForm(b)
    BY <1>4, <1>12, Zenon DEF BlockForm
  <2> QED BY <1>13, <1>14, <1>17, <1>19, <2>1
<1> QED BY <1>18, <1>20, <1>21, <1>22 DEF p

(* A tampered block still is a block.                                      *)
LEMMA TamperedFacts ==
    ASSUME NEW c, NEW p, WellFormed(c, p), BlockForm(p), NEW b \in {p} \cup Tampered(p)
    PROVE  WellFormed(c, b)
<1>1. p = [height |-> p.height, byzantine |-> p.byzantine, txs |-> p.txs,
           deposits |-> p.deposits, votes |-> p.votes, changeHashes |-> p.changeHashes]
  BY DEF BlockForm
<1>0. p.votes = [present |-> p.votes.present, decodes |-> p.votes.decodes,
                 listed |-> p.votes.listed, voters |-> p.votes.voters,
                 ids |-> p.votes.ids, pairs |-> p.votes.pairs]
  BY DEF BlockForm, VotesForm
<1>2. CASE b = [p EXCEPT !.txs = Reverse(@)]
  <2> DEFINE x == Reverse(p.txs)
  <2>1. x \in Seq(Txs)
    <3>1. p.txs \in Seq(Txs)
      BY DEF WellFormed
    <3> DEFINE n == Len(p.txs)
    <3>2. n \in Nat
      BY <3>1
    <3>3. ASSUME NEW i \in 1..n PROVE p.txs[(n - i) + 1] \in Txs
      <4>1. (n - i) + 1 \in 1..n
        BY <3>2
      <4> QED BY <3>1, <4>1
    <3>4. x = [i \in 1..n |-> p.txs[(n - i) + 1]]
      BY DEF Reverse
    <3> HIDE DEF n
    <3> QED BY <3>2, <3>3, <3>4
  <2>2. b = [p EXCEPT !.txs = x]
    BY <1>2
  <2> HIDE DEF x
  <2>3. b.height = p.height /\ b.txs = x /\ b.votes = p.votes
    BY <1>1, <2>2
  <2> QED BY <2>1, <2>3 DEF WellFormed
<1>3. CASE b = [p EXCEPT !.deposits = Append(@, "forged")]
  <2> DEFINE x == Append(p.deposits, "forged")
  <2>1. b = [p EXCEPT !.deposits = x]
    BY <1>3
  <2> HIDE DEF x
  <2>2. b.height = p.height /\ b.txs = p.txs /\ b.votes = p.votes
    BY <1>1, <2>1
  <2> QED BY <2>2 DEF WellFormed
<1>4. CASE b = [p EXCEPT !.changeHashes = ~@]
  <2> DEFINE x == ~p.changeHashes
  <2>1. b = [p EXCEPT !.changeHashes = x]
    BY <1>4
  <2> HIDE DEF x
  <2>2. b.height = p.height /\ b.txs = p.txs /\ b.votes = p.votes
    BY <1>1, <2>1
  <2> QED BY <2>2 DEF WellFormed
<1>5. CASE b = [p EXCEPT !.votes.present = ~@]
  <2> DEFINE v == p.votes
             x == ~v.present
             w == [v EXCEPT !.present = x]
  <2>1. b = [p EXCEPT !.votes = w]
    BY <1>5
  <2>3. w.pairs = v.pairs /\ w.ids = v.ids /\ w.listed = v.listed
    <3> HIDE DEF v, x
    <3> QED BY <1>0 DEF v
  <2> HIDE DEF w
  <2>4. b.height = p.height /\ b.txs = p.txs /\ b.votes = w
    BY <1>1, <2>1
  <2> QED BY <2>3, <2>4 DEF WellFormed
<1>6. CASE b = [p EXCEPT !.votes.pairs = Pairs] /\ p.votes.voters # {}
  <2> DEFINE v == p.votes
             w == [v EXCEPT !.pairs = Pairs]
  <2>1. b = [p EXCEPT !.votes = w]
    BY <1>6
  <2>3. w.ids = v.ids /\ w.listed = v.listed
    <3> HIDE DEF v
    <3> QED BY <1>0 DEF v
  <2> HIDE DEF w
  <2>4. b.height = p.height /\ b.txs = p.txs /\ b.votes = w
    BY <1>1, <2>1
  <2> QED BY <1>6, <2>3, <2>4 DEF WellFormed
<1>7. ASSUME NEW u \in p.votes.voters, b = [p EXCEPT !.votes.listed = {u}, !.votes.voters = {u}]
      PROVE  WellFormed(c, b)
  <2> DEFINE v == p.votes
             w == [v EXCEPT !.listed = {u}, !.voters = {u}]
  <2>1. b = [p EXCEPT !.votes = w]
    BY <1>7
  <2>3. w.ids = v.ids /\ w.listed = {u} /\ w.pairs = v.pairs
    <3> HIDE DEF v
    <3> QED BY <1>0 DEF v
  <2> HIDE DEF w
  <2>4. b.height = p.height /\ b.txs = p.txs /\ b.votes = w
    BY <1>1, <2>1
  <2> QED BY <2>3, <2>4 DEF WellFormed
<1> QED BY <1>2, <1>3, <1>4, <1>5, <1>6, <1>7 DEF Tampered

-----------------------------------------------------------------------------
(* Execution of a block *)

(* q is the execution of some transactions after s *)
Running(s, q) ==
    /\ q = [s |-> q.s, results |-> q.results, recost |-> q.recost]
    /\ q.recost \in BOOLEAN /\ Continues(s, q.s)
    /\ q.recost \/ q.s.chain.fee = s.chain.fee

(* finalize_block executes one more transaction.                           *)
LEMMA RunStep ==
    ASSUME NEW s, NEW q, Running(s, q), NEW t \in Txs
    PROVE  Running(s, Run(q, t))
<1> DEFINE r == Run(q, t)
<1>1. /\ q = [s |-> q.s, results |-> q.results, recost |-> q.recost]
      /\ q.recost \in BOOLEAN /\ Continues(s, q.s)
      /\ q.recost \/ q.s.chain.fee = s.chain.fee
  BY DEF Running
<1>2. CASE Executable(q.s, t)
  <2> DEFINE e == ExecuteTx(q.s, t)
             f == q.recost \/ IsFeeChange(t)
  <2>1. r = [s |-> e, results |-> Append(q.results, "ok"), recost |-> f]
    BY <1>2 DEF Run
  <2>2. /\ Delta(e)
        /\ e.chain.height = q.s.chain.height /\ e.chain.enableHeight = q.s.chain.enableHeight
        /\ e.results = q.s.results /\ e.post = q.s.post
        /\ IsFeeChange(t) \/ e.chain.fee = q.s.chain.fee
    BY <1>1, <1>2, ExecuteFacts DEF Continues
  <2>3. Continues(s, e)
    BY <1>1, <2>2, Zenon DEF Continues
  <2>4. (f \/ e.chain.fee = s.chain.fee) /\ f \in BOOLEAN
    <3>1. f \/ e.chain.fee = s.chain.fee
      <4> HIDE DEF e
      <4> QED BY <1>1, <2>2, Zenon
    <3>2. f \in BOOLEAN
      OBVIOUS
    <3> QED BY <3>1, <3>2
  <2> DEFINE x == Append(q.results, "ok")
  <2> HIDE DEF r, e, f, x
  <2>5. r.s = e /\ r.recost = f /\ r.results = x
    BY <2>1 DEF x
  <2>6. r = [s |-> r.s, results |-> r.results, recost |-> r.recost]
    BY <2>1, <2>5 DEF x
  <2> QED BY <2>3, <2>4, <2>5, <2>6 DEF Running, r
<1>3. CASE ~Executable(q.s, t)
  <2> DEFINE x == Append(q.results, "err")
  <2>1. r = [q EXCEPT !.results = x]
    BY <1>3 DEF Run
  <2> HIDE DEF r, x
  <2>2. r = [s |-> q.s, results |-> x, recost |-> q.recost]
    BY <1>1, <2>1
  <2>3. r.s = q.s /\ r.recost = q.recost /\ r.results = x
    BY <2>2
  <2>4. r = [s |-> r.s, results |-> r.results, recost |-> r.recost]
    BY <2>2, <2>3
  <2> QED BY <1>1, <2>3, <2>4 DEF Running, r
<1> QED BY <1>2, <1>3

(* finalize_block executes the transactions of a block.                    *)
LEMMA RunAllFacts ==
    ASSUME NEW s, Delta(s), NEW txs \in Seq(Txs)
    PROVE  Running(s, RunAll(s, txs))
<1> DEFINE n == Len(txs)
<1>1. n \in Nat /\ \A i \in 1..n : txs[i] \in Txs
  OBVIOUS
<1>2. PICK a : Runs(a, s, txs, n) /\ RunAll(s, txs) = a[n]
  BY <1>1, RunAllDefined
<1> DEFINE Good(i) == Running(s, a[i])
           T == {i \in Nat : i <= n /\ ~Good(i)}
<1>3. Good(0)
  <2>1. a[0] = [s |-> s, results |-> << >>, recost |-> FALSE]
    BY <1>2 DEF Runs
  <2>2. Running(s, [s |-> s, results |-> << >>, recost |-> FALSE])
    BY DEF Running, Continues
  <2> QED BY <2>1, <2>2
<1>4. ASSUME NEW i \in 1..n, Good(i - 1) PROVE Good(i)
  <2>1. a[i] = Run(a[i - 1], txs[i])
    BY <1>2 DEF Runs
  <2> QED BY <1>1, <1>4, <2>1, RunStep
<1> HIDE DEF Good, n
<1>5. ASSUME T # {} PROVE FALSE
  <2>1. PICK i \in T : \A y \in T : i <= y
    BY <1>5, LeastNatural
  <2>2. i \in Nat /\ i <= n /\ i # 0 /\ ~Good(i)
    BY <1>3, <2>1
  <2>3. i \in 1..n /\ i - 1 \in Nat /\ i - 1 <= n /\ i - 1 \notin T
    BY <1>1, <2>1, <2>2
  <2>4. Good(i - 1)
    BY <2>3
  <2> QED BY <1>4, <2>2, <2>3, <2>4
<1>6. Good(n)
  BY <1>1, <1>5
<1> QED BY <1>2, <1>6 DEF Good, n

(* What process_proposal leaves if it executes a block.                    *)
LEMMA ProcessedFacts ==
    ASSUME NEW c, Chain(c), NEW b, WellFormed(c, b)
    PROVE  LET p == Processed(c, b) IN
           /\ Delta(p.s) /\ p.s.post = << >> /\ p.recost \in BOOLEAN
           /\ p.recost \/ p.s.chain.fee = c.fee
           /\ ~VotesAccepted(Snapshot(c), b.votes) => p.s.chain.fee = c.fee
           /\ p.ok => p.s = Outcome(c, b).s /\ Outcome(c, b).results = AllOk(b.txs)
           /\ p.ok => VotesAccepted(Snapshot(c), b.votes)
<1> DEFINE z == Snapshot(c)
           s0 == Beginning(c, b)
           start == [s |-> z, group |-> 4, data |-> 0, ok |-> TRUE, recost |-> FALSE]
           w == Checked([start EXCEPT !.s = s0], b.txs)
           p == Processed(c, b)
<1>1. b.height \in Nat /\ b.txs \in Seq(Txs)
  BY DEF WellFormed, Chain, Chains
<1>2. Delta(z) /\ z.chain = c /\ z.post = << >>
  BY SnapshotDelta
<1>3. Delta(s0) /\ s0.chain.fee = c.fee /\ s0.post = << >>
  BY <1>1, BeginningForm DEF Beginning
<1> HIDE DEF s0, z
<1>4. /\ [start EXCEPT !.s = s0] =
           [s |-> s0, group |-> 4, data |-> 0, ok |-> TRUE, recost |-> FALSE]
      /\ [start EXCEPT !.ok = FALSE] =
           [s |-> z, group |-> 4, data |-> 0, ok |-> FALSE, recost |-> FALSE]
      /\ [start EXCEPT !.ok = FALSE, !.s = s0] =
           [s |-> s0, group |-> 4, data |-> 0, ok |-> FALSE, recost |-> FALSE]
  <2>1. ASSUME NEW a, NEW o, NEW r,
               a = [s |-> z, group |-> 4, data |-> 0, ok |-> o, recost |-> r]
        PROVE  [a EXCEPT !.s = s0] = [s |-> s0, group |-> 4, data |-> 0, ok |-> o, recost |-> r]
    BY <2>1
  <2>2. ASSUME NEW a, NEW o, NEW r,
               a = [s |-> z, group |-> 4, data |-> 0, ok |-> o, recost |-> r]
        PROVE  [a EXCEPT !.ok = r] = [s |-> z, group |-> 4, data |-> 0, ok |-> r, recost |-> r]
    BY <2>2
  <2>3. start = [s |-> z, group |-> 4, data |-> 0, ok |-> TRUE, recost |-> FALSE]
    OBVIOUS
  <2> HIDE DEF start
  <2> DEFINE k == [start EXCEPT !.ok = FALSE]
  <2>4. k = [s |-> z, group |-> 4, data |-> 0, ok |-> FALSE, recost |-> FALSE]
    BY <2>2, <2>3, Zenon
  <2>5. [start EXCEPT !.ok = FALSE, !.s = s0] = [k EXCEPT !.s = s0]
    OBVIOUS
  <2> HIDE DEF k
  <2>6. [k EXCEPT !.s = s0] = [s |-> s0, group |-> 4, data |-> 0, ok |-> FALSE, recost |-> FALSE]
    BY <2>1, <2>4, Zenon
  <2>7. [start EXCEPT !.s = s0] = [s |-> s0, group |-> 4, data |-> 0, ok |-> TRUE, recost |-> FALSE]
    BY <2>1, <2>3, Zenon
  <2> QED BY <2>4, <2>5, <2>6, <2>7, Zenon DEF k
<1>5. CASE ~VotesAccepted(z, b.votes)
  <2>1. p = [start EXCEPT !.ok = FALSE]
    BY <1>5 DEF Processed, z
  <2> HIDE DEF p, start
  <2>2. p = [s |-> z, group |-> 4, data |-> 0, ok |-> FALSE, recost |-> FALSE]
    BY <1>4, <2>1
  <2>3. p.s = z /\ p.ok = FALSE /\ p.recost = FALSE
    BY <2>2
  <2> QED BY <1>2, <2>3 DEF p
<1>6. CASE VotesAccepted(z, b.votes) /\ b.changeHashes # UpgradeDue(b.height)
  <2>1. p = [start EXCEPT !.ok = FALSE, !.s = s0]
    BY <1>6 DEF Processed, z, s0, Beginning
  <2> HIDE DEF p, start
  <2>2. p = [s |-> s0, group |-> 4, data |-> 0, ok |-> FALSE, recost |-> FALSE]
    BY <1>4, <2>1
  <2>3. p.s = s0 /\ p.ok = FALSE /\ p.recost = FALSE
    BY <2>2
  <2> QED BY <1>3, <1>6, <2>3 DEF p, z
<1>7. CASE VotesAccepted(z, b.votes) /\ ~ (b.changeHashes # UpgradeDue(b.height))
  <2>1. p = [w EXCEPT !.ok = w.ok /\ b.deposits = w.s.deposits]
    BY <1>7 DEF Processed, z, s0, Beginning
  <2>2. w = Checked([s |-> s0, group |-> 4, data |-> 0, ok |-> TRUE, recost |-> FALSE], b.txs)
    BY <1>4
  <2> HIDE DEF w
  <2>3. Agree(s0, w, Outcome(c, b), Len(b.txs))
    <3>1. Agree(s0, w, RunAll(s0, b.txs), Len(b.txs))
      BY <1>1, <1>3, <2>2, CheckedAgrees
    <3> QED BY <3>1 DEF Outcome, s0
  <2>4. /\ w = [s |-> w.s, group |-> w.group, data |-> w.data, ok |-> w.ok, recost |-> w.recost]
        /\ w.ok \in BOOLEAN /\ w.recost \in BOOLEAN /\ Continues(s0, w.s)
        /\ w.recost \/ w.s.chain.fee = s0.chain.fee
        /\ w.ok => Outcome(c, b).s = w.s /\ Outcome(c, b).results = AllOk(b.txs)
    BY <2>3, Zenon DEF Agree, AllOk
  <2> DEFINE o == w.ok /\ b.deposits = w.s.deposits
  <2> HIDE DEF p, o
  <2>5. p = [s |-> w.s, group |-> w.group, data |-> w.data, ok |-> o, recost |-> w.recost]
    BY <2>1, <2>4 DEF o
  <2>6. p.s = w.s /\ p.recost = w.recost /\ p.ok = o
    BY <2>5
  <2>7. o => w.ok
    BY DEF o
  <2>8. Delta(w.s) /\ w.s.post = << >>
    BY <1>3, <2>4 DEF Continues
  <2>9. p.recost \in BOOLEAN /\ Delta(p.s) /\ p.s.post = << >>
    BY <2>4, <2>6, <2>8
  <2>10. p.recost \/ p.s.chain.fee = c.fee
    BY <1>3, <2>4, <2>6, Zenon
  <2>11. p.ok => p.s = Outcome(c, b).s /\ Outcome(c, b).results = AllOk(b.txs)
    BY <2>4, <2>6, <2>7, Zenon
  <2> QED BY <1>7, <2>9, <2>10, <2>11 DEF p, z
<1> QED BY <1>5, <1>6, <1>7

-----------------------------------------------------------------------------
(* Prices before or after the transactions *)

(* u is s with the prices of b, except for what the state does not hold *)
Twin(s, u, b) ==
    /\ Delta(s) /\ Delta(u)
    /\ u.chain.height = s.chain.height /\ u.chain.nonce = s.chain.nonce
    /\ u.chain.balance = s.chain.balance /\ u.chain.fee = s.chain.fee
    /\ u.chain.validators = s.chain.validators
    /\ u.chain.enableHeight = s.chain.enableHeight /\ u.chain.upgraded = s.chain.upgraded
    /\ u.chain.pairs = Priced(s.chain.pairs, b)
    /\ u.deposits = s.deposits /\ u.blockFees = s.blockFees /\ u.updates = s.updates

(* of the pairs that are priced, only those are gone that the first i      *)
(* transactions remove                                                     *)
GonePairs(s, b, i) ==
    \A p \in PricedPairs(b.votes) :
        p \in DOMAIN s.chain.pairs
        \/ \E k \in 1..i : b.txs[k].act = "remove" /\ b.txs[k].arg = p

(* A transaction and the prices commute on the pairs, unless it adds one   *)
(* that is priced.                                                         *)
LEMMA PricedAfter ==
    ASSUME NEW P, NEW b, NEW t, t.act = "add" /\ t.arg \notin DOMAIN P => t.arg \notin PricedPairs(b.votes)
    PROVE  PairsAfter(Priced(P, b), t) = Priced(PairsAfter(P, t), b)
<1> DEFINE Q == Priced(P, b)
           N == [nonce |-> 0, price |-> 0]
           At(f, p) == IF p \in PricedPairs(b.votes) THEN [nonce |-> f[p].nonce + 1, price |-> b.height]
                       ELSE f[p]
<1>1. Q = [p \in DOMAIN P |-> At(P, p)] /\ DOMAIN Q = DOMAIN P
  BY DEF Priced
<1> HIDE DEF Q, N
<1>2. CASE t.act = "add" /\ t.arg \notin DOMAIN P
  <2> DEFINE R == PairsAfter(P, t)
             D == DOMAIN P \cup {t.arg}
  <2>1. PairsAfter(Q, t) = [p \in D |-> IF p = t.arg THEN N ELSE Q[p]]
    BY <1>1, <1>2 DEF PairsAfter, N
  <2>2. R = [p \in D |-> IF p = t.arg THEN N ELSE P[p]]
    BY <1>2 DEF PairsAfter, N
  <2>3. Priced(R, b) = [p \in D |-> At(R, p)]
    <3> HIDE DEF D
    <3>1. DOMAIN R = D
      BY <2>2
    <3> HIDE DEF R
    <3> QED BY <3>1 DEF Priced
  <2>4. ASSUME NEW p \in D PROVE At(R, p) = IF p = t.arg THEN N ELSE Q[p]
    <3>1. CASE p = t.arg
      <4>1. p \notin PricedPairs(b.votes) /\ R[p] = N
        BY <1>2, <2>2, <3>1
      <4> HIDE DEF R
      <4> QED BY <3>1, <4>1
    <3>2. CASE p # t.arg
      <4>1. p \in DOMAIN P /\ R[p] = P[p]
        BY <2>2, <3>2
      <4> HIDE DEF R
      <4> QED BY <1>1, <3>2, <4>1
    <3> QED BY <3>1, <3>2
  <2> HIDE DEF D, R, At
  <2> QED BY <2>1, <2>3, <2>4 DEF Q, R
<1>3. CASE t.act = "remove"
  <2> DEFINE D == DOMAIN P \ {t.arg}
             R == PairsAfter(P, t)
  <2>1. PairsAfter(Q, t) = [p \in D |-> Q[p]]
    BY <1>1, <1>3 DEF PairsAfter
  <2>2. R = [p \in D |-> P[p]]
    BY <1>3 DEF PairsAfter
  <2>3. Priced(R, b) = [p \in D |-> At(R, p)]
    <3> HIDE DEF D
    <3>1. DOMAIN R = D
      BY <2>2
    <3> HIDE DEF R
    <3> QED BY <3>1 DEF Priced
  <2>4. ASSUME NEW p \in D PROVE At(R, p) = Q[p]
    <3>1. p \in DOMAIN P /\ R[p] = P[p]
      BY <2>2
    <3> HIDE DEF R
    <3> QED BY <1>1, <3>1
  <2> HIDE DEF D, R, At
  <2> QED BY <2>1, <2>3, <2>4 DEF Q, R
<1>4. CASE ~ (t.act = "add" /\ t.arg \notin DOMAIN P) /\ t.act # "remove"
  BY <1>1, <1>4 DEF PairsAfter, Q
<1> QED BY <1>2, <1>3, <1>4

(* A transaction has the same effect before and after the prices.          *)
LEMMA TwinStep ==
    ASSUME NEW s, NEW u, NEW b, Twin(s, u, b), NEW t \in Txs,
           t.act = "add" /\ t.arg \notin DOMAIN s.chain.pairs => t.arg \notin PricedPairs(b.votes)
    PROVE  /\ Executable(u, t) <=> Executable(s, t)
           /\ Executable(s, t) => Twin(ExecuteTx(s, t), ExecuteTx(u, t), b)
<1>1. /\ Delta(s) /\ Delta(u)
      /\ u.chain.height = s.chain.height /\ u.chain.nonce = s.chain.nonce
      /\ u.chain.balance = s.chain.balance /\ u.chain.fee = s.chain.fee
      /\ u.chain.validators = s.chain.validators
      /\ u.chain.enableHeight = s.chain.enableHeight /\ u.chain.upgraded = s.chain.upgraded
      /\ u.chain.pairs = Priced(s.chain.pairs, b)
      /\ u.deposits = s.deposits /\ u.blockFees = s.blockFees /\ u.updates = s.updates
  BY DEF Twin
<1>2. Fee(u, t) = Fee(s, t)
  BY <1>1 DEF Fee
<1>3. DOMAIN u.chain.pairs = DOMAIN s.chain.pairs
  BY <1>1 DEF Priced
<1>4. Executable(u, t) <=> Executable(s, t)
  BY <1>1, <1>2, <1>3 DEF Executable, InvalidNonce
<1>5. ASSUME Executable(s, t) PROVE Twin(ExecuteTx(s, t), ExecuteTx(u, t), b)
  <2> DEFINE e == ExecuteTx(s, t)
             f == ExecuteTx(u, t)
  <2>1. e = After(s, t) /\ f = After(u, t) /\ Delta(e) /\ Delta(f)
    BY <1>1, <1>4, <1>5, ExecuteForm, ExecuteFacts
  <2>2. PairsAfter(u.chain.pairs, t) = Priced(PairsAfter(s.chain.pairs, t), b)
    BY <1>1, PricedAfter
  <2> HIDE DEF e, f
  <2>3. f.chain.pairs = PairsAfter(u.chain.pairs, t) /\ e.chain.pairs = PairsAfter(s.chain.pairs, t)
    BY <2>1 DEF After
  <2>4. f.chain.nonce = e.chain.nonce /\ f.chain.balance = e.chain.balance
    BY <1>1, <1>2, <2>1 DEF After
  <2>5. /\ f.chain.height = e.chain.height /\ f.chain.fee = e.chain.fee
        /\ f.chain.validators = e.chain.validators
        /\ f.chain.enableHeight = e.chain.enableHeight /\ f.chain.upgraded = e.chain.upgraded
    BY <1>1, <2>1 DEF After
  <2>6. f.deposits = e.deposits /\ f.blockFees = e.blockFees /\ f.updates = e.updates
    BY <1>1, <1>2, <2>1 DEF After
  <2> QED BY <2>1, <2>2, <2>3, <2>4, <2>5, <2>6 DEF Twin, e, f
<1> QED BY <1>4, <1>5

(* q and r have executed the first i transactions of b, r with the prices  *)
TwinRuns(q, r, b, i) ==
    /\ q = [s |-> q.s, results |-> q.results, recost |-> q.recost]
    /\ r = [s |-> r.s, results |-> r.results, recost |-> r.recost]
    /\ r.results = q.results /\ Twin(q.s, r.s, b) /\ GonePairs(q.s, b, i)

(* So has one more transaction of a block.                                 *)
LEMMA TwinRunsStep ==
    ASSUME NEW b, b.txs \in Seq(Txs), ~PricesReadded(b), NEW i \in 1..Len(b.txs),
           NEW q, NEW r, TwinRuns(q, r, b, i - 1)
    PROVE  TwinRuns(Run(q, b.txs[i]), Run(r, b.txs[i]), b, i)
<1> DEFINE t == b.txs[i]
           P == q.s.chain.pairs
<1>1. t \in Txs /\ Len(b.txs) \in Nat
  OBVIOUS
<1>2. /\ q = [s |-> q.s, results |-> q.results, recost |-> q.recost]
      /\ r = [s |-> r.s, results |-> r.results, recost |-> r.recost]
      /\ r.results = q.results /\ Twin(q.s, r.s, b)
      /\ GonePairs(q.s, b, i - 1)
  BY DEF TwinRuns
<1>3. t.act = "add" /\ t.arg \notin DOMAIN P => t.arg \notin PricedPairs(b.votes)
  <2> SUFFICES ASSUME t.act = "add", t.arg \notin DOMAIN P, t.arg \in PricedPairs(b.votes)
               PROVE  FALSE
    OBVIOUS
  <2>1. PICK k \in 1..(i - 1) : b.txs[k].act = "remove" /\ b.txs[k].arg = t.arg
    BY <1>2 DEF GonePairs
  <2>2. k \in 1..Len(b.txs) /\ k < i
    BY <1>1
  <2> QED BY <2>1, <2>2 DEF PricesReadded
<1>4. /\ Executable(r.s, t) <=> Executable(q.s, t)
      /\ Executable(q.s, t) => Twin(ExecuteTx(q.s, t), ExecuteTx(r.s, t), b)
  BY <1>1, <1>2, <1>3, TwinStep
<1> DEFINE a == Run(q, t)
           d == Run(r, t)
<1>5. CASE Executable(q.s, t)
  <2> DEFINE e == ExecuteTx(q.s, t)
             f == ExecuteTx(r.s, t)
             x == Append(q.results, "ok")
             y == q.recost \/ IsFeeChange(t)
             z == r.recost \/ IsFeeChange(t)
  <2>1. a = [s |-> e, results |-> x, recost |-> y] /\ d = [s |-> f, results |-> x, recost |-> z]
    BY <1>2, <1>4, <1>5 DEF Run
  <2>2. GonePairs(e, b, i)
    <3>1. e.chain.pairs = PairsAfter(P, t)
      BY <1>1, <1>2, <1>5, ExecuteForm DEF After, Twin
    <3> SUFFICES ASSUME NEW p \in PricedPairs(b.votes), p \notin DOMAIN e.chain.pairs
                 PROVE  \E k \in 1..i : b.txs[k].act = "remove" /\ b.txs[k].arg = p
      BY DEF GonePairs
    <3>2. CASE p \in DOMAIN P
      <4>1. t.act = "remove" /\ t.arg = p
        <5> HIDE DEF e, P
        <5>1. CASE t.act = "add" /\ t.arg \notin DOMAIN P
          <6>1. DOMAIN PairsAfter(P, t) = DOMAIN P \cup {t.arg}
            BY <5>1 DEF PairsAfter
          <6> QED BY <3>1, <3>2, <6>1
        <5>2. CASE t.act = "remove"
          <6>1. DOMAIN PairsAfter(P, t) = DOMAIN P \ {t.arg}
            BY <5>2 DEF PairsAfter
          <6> QED BY <3>1, <3>2, <5>2, <6>1
        <5>3. CASE ~ (t.act = "add" /\ t.arg \notin DOMAIN P) /\ t.act # "remove"
          <6>1. PairsAfter(P, t) = P
            BY <5>3 DEF PairsAfter
          <6> QED BY <3>1, <3>2, <6>1
        <5> QED BY <5>1, <5>2, <5>3
      <4>2. i \in 1..i
        BY <1>1
      <4> QED BY <4>1, <4>2
    <3>3. CASE p \notin DOMAIN P
      <4>1. PICK k \in 1..(i - 1) : b.txs[k].act = "remove" /\ b.txs[k].arg = p
        BY <1>2, <3>3 DEF GonePairs
      <4>2. k \in 1..i
        BY <1>1
      <4> QED BY <4>1, <4>2
    <3> QED BY <3>2, <3>3
  <2>3. Twin(e, f, b)
    BY <1>4, <1>5
  <2> HIDE DEF a, d, e, f, x, y, z
  <2>4. a.s = e /\ d.s = f /\ a.results = x /\ d.results = x /\ a.recost = y /\ d.recost = z
    BY <2>1
  <2>5. a = [s |-> a.s, results |-> a.results, recost |-> a.recost]
    BY <2>1, <2>4
  <2>6. d = [s |-> d.s, results |-> d.results, recost |-> d.recost]
    BY <2>1, <2>4
  <2>7. TwinRuns(a, d, b, i)
    BY <2>2, <2>3, <2>4, <2>5, <2>6 DEF TwinRuns
  <2> QED BY <2>7 DEF a, d
<1>6. CASE ~Executable(q.s, t)
  <2> DEFINE x == Append(q.results, "err")
  <2>1. a = [q EXCEPT !.results = x] /\ d = [r EXCEPT !.results = x]
    BY <1>2, <1>4, <1>6 DEF Run
  <2>2. GonePairs(q.s, b, i)
    <3>1. \A k \in 1..(i - 1) : k \in 1..i
      BY <1>1
    <3> QED BY <1>2, <3>1 DEF GonePairs
  <2> HIDE DEF a, d, x
  <2>3. a = [s |-> q.s, results |-> x, recost |-> q.recost]
    BY <1>2, <2>1
  <2>4. d = [s |-> r.s, results |-> x, recost |-> r.recost]
    BY <1>2, <2>1
  <2>5. a.s = q.s /\ d.s = r.s /\ a.results = x /\ d.results = x
        /\ a.recost = q.recost /\ d.recost = r.recost
    BY <2>3, <2>4
  <2>6. a = [s |-> a.s, results |-> a.results, recost |-> a.recost]
    BY <2>3, <2>5
  <2>7. d = [s |-> d.s, results |-> d.results, recost |-> d.recost]
    BY <2>4, <2>5
  <2>8. TwinRuns(a, d, b, i)
    BY <1>2, <2>2, <2>5, <2>6, <2>7 DEF TwinRuns
  <2> QED BY <2>8 DEF a, d
<1> QED BY <1>5, <1>6

(* So have all transactions of a block.                                    *)
LEMMA TwinRunAll ==
    ASSUME NEW b, b.txs \in Seq(Txs), ~PricesReadded(b), NEW s, NEW u, Twin(s, u, b),
           GonePairs(s, b, 0)
    PROVE  /\ Twin(RunAll(s, b.txs).s, RunAll(u, b.txs).s, b)
           /\ RunAll(u, b.txs).results = RunAll(s, b.txs).results
<1> DEFINE n == Len(b.txs)
           txs == b.txs
<1>1. n \in Nat
  OBVIOUS
<1> HIDE DEF txs
<1>2. PICK g : Runs(g, s, txs, n) /\ RunAll(s, txs) = g[n]
  BY <1>1, RunAllDefined DEF txs
<1>3. PICK h : Runs(h, u, txs, n) /\ RunAll(u, txs) = h[n]
  BY <1>1, RunAllDefined DEF txs
<1> DEFINE Good(i) == TwinRuns(g[i], h[i], b, i)
           T == {i \in Nat : i <= n /\ ~Good(i)}
<1>4. Good(0)
  <2>1. /\ g[0] = [s |-> s, results |-> << >>, recost |-> FALSE]
        /\ h[0] = [s |-> u, results |-> << >>, recost |-> FALSE]
    BY <1>2, <1>3 DEF Runs
  <2>2. TwinRuns([s |-> s, results |-> << >>, recost |-> FALSE],
                 [s |-> u, results |-> << >>, recost |-> FALSE], b, 0)
    BY DEF TwinRuns
  <2> QED BY <2>1, <2>2, Zenon
<1>5. ASSUME NEW i \in 1..n, Good(i - 1) PROVE Good(i)
  <2>1. g[i] = Run(g[i - 1], txs[i]) /\ h[i] = Run(h[i - 1], txs[i])
    BY <1>2, <1>3 DEF Runs
  <2>2. TwinRuns(Run(g[i - 1], b.txs[i]), Run(h[i - 1], b.txs[i]), b, i)
    BY <1>5, TwinRunsStep
  <2> QED BY <2>1, <2>2 DEF txs
<1> HIDE DEF Good, n
<1>6. ASSUME T # {} PROVE FALSE
  <2>1. PICK i \in T : \A y \in T : i <= y
    BY <1>6, LeastNatural
  <2>2. i \in Nat /\ i <= n /\ i # 0 /\ ~Good(i)
    BY <1>4, <2>1
  <2>3. i \in 1..n /\ i - 1 \in Nat /\ i - 1 <= n /\ i - 1 \notin T
    BY <1>1, <2>1, <2>2
  <2>4. Good(i - 1)
    BY <2>3
  <2> QED BY <1>5, <2>2, <2>3, <2>4
<1>7. Good(n)
  BY <1>1, <1>6
<1> QED BY <1>2, <1>3, <1>7 DEF Good, TwinRuns, txs

(* s is what the block b leaves on c, before the prices *)
ExecutedState(c, b, s) ==
    /\ Outcome(c, b).results = AllOk(b.txs)
    /\ s.chain = PostExecute(Outcome(c, b).s, b, AllOk(b.txs)).chain
    /\ s.post = PostExecute(Outcome(c, b).s, b, AllOk(b.txs)).post

(* d can be committed after c *)
Successor(c, d) == Chain(d) /\ Enabling(d) /\ d.height = c.height + 1

(* Executing a block from a state s that has begun it.                     *)
LEMMA BlockFacts ==
    ASSUME NEW c, Chain(c), Enabling(c), NEW b, WellFormed(c, b), NEW s, Delta(s),
           s.chain.height = b.height, s.chain.enableHeight = c.enableHeight,
           NEW results
    PROVE  LET e == PostExecute(s, b, results) IN
           /\ Delta(e) /\ Successor(c, e.chain) /\ e.chain.fee = s.chain.fee
           /\ e.chain.pairs = s.chain.pairs /\ e.post # << >>
<1> DEFINE e == PostExecute(s, b, results)
           r == <<[updates |-> s.updates, results |-> results,
                   enable |-> EnableAfter(s.chain, b), block |-> b, deposits |-> s.deposits]>>
<1>1. c.height \in Nat /\ c.enableHeight \in Nat /\ b.height = c.height + 1
  BY DEF Chain, Chains, WellFormed
<1>2. Delta(e)
  BY <1>1, FrameTypes
<1> DEFINE m == [s.chain.balance EXCEPT ![SudoAddress] = @ + s.blockFees]
           k == EnableAfter(s.chain, b)
<1>3. e = [chain |-> [height |-> s.chain.height, nonce |-> s.chain.nonce, balance |-> m,
                      fee |-> s.chain.fee, pairs |-> s.chain.pairs,
                      validators |-> s.chain.validators, enableHeight |-> k,
                      upgraded |-> s.chain.upgraded],
           deposits |-> s.deposits, blockFees |-> s.blockFees, updates |-> {},
           results |-> s.results, post |-> r]
  BY PostExecuteForm, Zenon
<1>4. r # << >>
  <2>1. Len(r) = 1 /\ Len(<< >>) = 0
    OBVIOUS
  <2> QED BY <2>1
<1> HIDE DEF e, m, k, r
<1>5. /\ e.chain.height = b.height /\ e.chain.enableHeight = k /\ e.post # << >>
      /\ e.chain.fee = s.chain.fee /\ e.chain.pairs = s.chain.pairs
  BY <1>3, <1>4
<1>6. Enabling(e.chain)
  <2>1. CASE UpgradeDue(b.height)
    BY <1>1, <1>5, <2>1, AppAssumption DEF Enabling, UpgradeDue
  <2>2. CASE ~UpgradeDue(b.height)
    <3>1. k = c.enableHeight
      BY <2>2 DEF k, EnableAfter
    <3> QED BY <1>1, <1>5, <3>1, AppAssumption DEF Enabling
  <2> QED BY <2>1, <2>2
<1>7. Successor(c, e.chain)
  BY <1>1, <1>2, <1>5, <1>6 DEF Successor, Delta
<1> QED BY <1>2, <1>5, <1>7 DEF e

(* The outcome of a block.                                                 *)
LEMMA OutcomeFacts ==
    ASSUME NEW c, Chain(c), NEW b, WellFormed(c, b)
    PROVE  LET o == Outcome(c, b) IN
           /\ Delta(o.s) /\ o.recost \in BOOLEAN
           /\ o.s.chain.height = b.height /\ o.s.chain.enableHeight = c.enableHeight
           /\ o.recost \/ o.s.chain.fee = c.fee
<1> DEFINE s == Beginning(c, b)
<1>1. b.height \in Nat /\ b.txs \in Seq(Txs)
  BY DEF WellFormed, Chain, Chains
<1>2. /\ Delta(s) /\ s.chain.height = b.height /\ s.chain.enableHeight = c.enableHeight
      /\ s.chain.fee = c.fee
  BY <1>1, BeginningForm DEF Beginning
<1> HIDE DEF s
<1>3. Running(s, RunAll(s, b.txs))
  BY <1>1, <1>2, RunAllFacts
<1> QED BY <1>2, <1>3 DEF Running, Continues, Outcome, s

(* The block is executed on the prices.                                    *)
LEMMA ReplayedFacts ==
    ASSUME NEW c, Chain(c), Enabling(c), NEW b, WellFormed(c, b)
    PROVE  LET r == Replayed(ApplyPrices(Snapshot(c), b), b) IN
           /\ Successor(c, r.s.chain) /\ r.recost \in BOOLEAN
           /\ r.recost \/ r.s.chain.fee = c.fee
<1> DEFINE z == Snapshot(c)
           a == ApplyPrices(z, b)
           s == PreExecute(a, b.height, b.byzantine)
           o == RunAll(s, b.txs)
           e == PostExecute(o.s, b, o.results)
<1>1. b.height \in Nat /\ b.txs \in Seq(Txs)
  BY DEF WellFormed, Chain, Chains
<1>2. Delta(z) /\ z.chain = c
  BY SnapshotDelta
<1> HIDE DEF z
<1>3. a = [chain |-> [height |-> z.chain.height, nonce |-> z.chain.nonce,
                      balance |-> z.chain.balance, fee |-> z.chain.fee,
                      pairs |-> Priced(z.chain.pairs, b), validators |-> z.chain.validators,
                      enableHeight |-> z.chain.enableHeight, upgraded |-> z.chain.upgraded],
           deposits |-> z.deposits, blockFees |-> z.blockFees, updates |-> z.updates,
           results |-> z.results, post |-> z.post]
  BY <1>2, ApplyPricesForm
<1>4. Delta(a)
  BY <1>1, <1>2, FrameTypes
<1> HIDE DEF a
<1>5. a.chain.fee = c.fee /\ a.chain.enableHeight = c.enableHeight
  BY <1>2, <1>3
<1>6. s = [chain |-> [height |-> b.height, nonce |-> a.chain.nonce, balance |-> a.chain.balance,
                      fee |-> a.chain.fee, pairs |-> PairsAt(a.chain.pairs, b.height),
                      validators |-> a.chain.validators \ b.byzantine,
                      enableHeight |-> a.chain.enableHeight,
                      upgraded |-> a.chain.upgraded \/ UpgradeDue(b.height)],
           deposits |-> a.deposits, blockFees |-> a.blockFees, updates |-> a.updates,
           results |-> a.results, post |-> a.post]
  BY <1>4, PreExecuteForm
<1>7. Delta(s)
  BY <1>1, <1>4, FrameTypes
<1> HIDE DEF s
<1>8. s.chain.height = b.height /\ s.chain.fee = c.fee /\ s.chain.enableHeight = c.enableHeight
  BY <1>5, <1>6
<1>9. Running(s, o)
  BY <1>1, <1>7, RunAllFacts
<1> HIDE DEF o
<1>10. /\ Delta(o.s) /\ o.s.chain.height = b.height /\ o.s.chain.enableHeight = c.enableHeight
       /\ o.recost \in BOOLEAN /\ (o.recost \/ o.s.chain.fee = c.fee)
  BY <1>8, <1>9 DEF Running, Continues
<1>11. Successor(c, e.chain) /\ e.chain.fee = o.s.chain.fee
  BY <1>10, BlockFacts
<1>12. Replayed(a, b) = [s |-> e, recost |-> o.recost]
  BY DEF Replayed, o, s
<1> HIDE DEF e
<1>13. Replayed(a, b).s = e /\ Replayed(a, b).recost = o.recost
  BY <1>12
<1>14. Replayed(a, b).recost \/ Replayed(a, b).s.chain.fee = c.fee
  BY <1>10, <1>11, <1>13, Zenon
<1> QED BY <1>10, <1>11, <1>13, <1>14 DEF a, z

(* The transactions of a block begin in twin states.                       *)
LEMMA TwinBeginning ==
    ASSUME NEW c, Chain(c), Enabling(c), NEW b, WellFormed(c, b),
           PairsKnown(c, b)
    PROVE  LET u == PreExecute(ApplyPrices(Snapshot(c), b), b.height, b.byzantine) IN
           Twin(Beginning(c, b), u, b) /\ GonePairs(Beginning(c, b), b, 0)
<1> DEFINE z == Snapshot(c)
           a == ApplyPrices(z, b)
           s == PreExecute(z, b.height, b.byzantine)
           u == PreExecute(a, b.height, b.byzantine)
<1>1. /\ c.height \in Nat /\ c.enableHeight \in Nat /\ b.height = c.height + 1
      /\ PricedPairs(b.votes) \subseteq DOMAIN c.pairs
      /\ PricedPairs(b.votes) # {} => c.enableHeight # 0
      /\ c.pairs \in [DOMAIN c.pairs -> [nonce : Nat, price : Nat]]
  BY DEF WellFormed, PairsKnown, PricedPairs, Chain, Chains
<1>2. Delta(z) /\ z.chain = c
  BY SnapshotDelta
<1> HIDE DEF z
<1>3. a = [chain |-> [height |-> z.chain.height, nonce |-> z.chain.nonce,
                      balance |-> z.chain.balance, fee |-> z.chain.fee,
                      pairs |-> Priced(z.chain.pairs, b), validators |-> z.chain.validators,
                      enableHeight |-> z.chain.enableHeight, upgraded |-> z.chain.upgraded],
           deposits |-> z.deposits, blockFees |-> z.blockFees, updates |-> z.updates,
           results |-> z.results, post |-> z.post]
  BY <1>2, ApplyPricesForm
<1>4. Delta(a)
  BY <1>1, <1>2, FrameTypes
<1> HIDE DEF a
<1>5. /\ a.chain.nonce = z.chain.nonce /\ a.chain.balance = z.chain.balance
      /\ a.chain.fee = z.chain.fee /\ a.chain.pairs = Priced(c.pairs, b)
      /\ a.chain.validators = z.chain.validators /\ a.chain.enableHeight = z.chain.enableHeight
      /\ a.chain.upgraded = z.chain.upgraded /\ a.deposits = z.deposits
      /\ a.blockFees = z.blockFees /\ a.updates = z.updates
  BY <1>2, <1>3
<1>6. u = [chain |-> [height |-> b.height, nonce |-> a.chain.nonce, balance |-> a.chain.balance,
                      fee |-> a.chain.fee, pairs |-> PairsAt(a.chain.pairs, b.height),
                      validators |-> a.chain.validators \ b.byzantine,
                      enableHeight |-> a.chain.enableHeight,
                      upgraded |-> a.chain.upgraded \/ UpgradeDue(b.height)],
           deposits |-> a.deposits, blockFees |-> a.blockFees, updates |-> a.updates,
           results |-> a.results, post |-> a.post]
  BY <1>4, PreExecuteForm
<1>7. s = [chain |-> [height |-> b.height, nonce |-> z.chain.nonce, balance |-> z.chain.balance,
                      fee |-> z.chain.fee, pairs |-> PairsAt(z.chain.pairs, b.height),
                      validators |-> z.chain.validators \ b.byzantine,
                      enableHeight |-> z.chain.enableHeight,
                      upgraded |-> z.chain.upgraded \/ UpgradeDue(b.height)],
           deposits |-> z.deposits, blockFees |-> z.blockFees, updates |-> z.updates,
           results |-> z.results, post |-> z.post]
  BY <1>2, PreExecuteForm
<1>8. Delta(s) /\ Delta(u)
  BY <1>1, <1>2, <1>4, FrameTypes
<1> HIDE DEF s, u
<1>9. /\ u.chain.height = s.chain.height /\ u.chain.nonce = s.chain.nonce
      /\ u.chain.balance = s.chain.balance /\ u.chain.fee = s.chain.fee
      /\ u.chain.validators = s.chain.validators
      /\ u.chain.enableHeight = s.chain.enableHeight
      /\ u.deposits = s.deposits /\ u.blockFees = s.blockFees /\ u.updates = s.updates
  BY <1>5, <1>6, <1>7
<1>10. u.chain.upgraded = s.chain.upgraded
  BY <1>5, <1>6, <1>7
<1>11. s.chain.pairs = PairsAt(c.pairs, b.height) /\ u.chain.pairs = PairsAt(Priced(c.pairs, b), b.height)
  BY <1>2, <1>5, <1>6, <1>7
<1>12. CASE UpgradeDue(b.height)
  <2>1. PricedPairs(b.votes) = {}
    BY <1>1, <1>12, AppAssumption DEF UpgradeDue, Enabling
  <2> DEFINE f == [p \in Pairs |-> [nonce |-> 0, price |-> 0]]
  <2>2. s.chain.pairs = f /\ u.chain.pairs = f
    BY <1>11, <1>12 DEF PairsAt
  <2>3. f = [p \in DOMAIN f |-> f[p]]
    OBVIOUS
  <2> HIDE DEF f
  <2>4. Priced(f, b) = f
    BY <2>1, <2>3 DEF Priced
  <2> QED BY <1>8, <1>9, <1>10, <2>1, <2>2, <2>4 DEF Twin, GonePairs, Beginning, s, u, z, a
<1>13. CASE ~UpgradeDue(b.height)
  <2>1. s.chain.pairs = c.pairs /\ u.chain.pairs = Priced(c.pairs, b)
    BY <1>11, <1>13 DEF PairsAt
  <2>2. Twin(s, u, b)
    BY <1>8, <1>9, <1>10, <2>1 DEF Twin
  <2>3. GonePairs(s, b, 0)
    BY <1>1, <2>1 DEF GonePairs
  <2> QED BY <2>2, <2>3 DEF Beginning, s, u, z, a
<1> QED BY <1>12, <1>13

(* Prices after the cached execution give what prices before the execution *)
(* give.                                                                   *)
LEMMA CachedIsReplayed ==
    ASSUME NEW c, Chain(c), Enabling(c), NEW b, WellFormed(c, b),
           PairsKnown(c, b), ~PricesReadded(b),
           NEW s, Delta(s), ExecutedState(c, b, s)
    PROVE  LET r == Replayed(ApplyPrices(Snapshot(c), b), b).s IN
           /\ ApplyPrices(s, b).chain = r.chain
           /\ ApplyPrices(s, b).post = r.post
<1> DEFINE u == PreExecute(ApplyPrices(Snapshot(c), b), b.height, b.byzantine)
           o == Outcome(c, b)
           w == RunAll(u, b.txs)
           e == PostExecute(o.s, b, o.results)
           r == PostExecute(w.s, b, w.results)
<1>1. Twin(Beginning(c, b), u, b) /\ GonePairs(Beginning(c, b), b, 0)
  BY TwinBeginning, Zenon
<1>2. b.txs \in Seq(Txs)
  BY DEF WellFormed
<1> HIDE DEF u
<1>3. Twin(o.s, w.s, b) /\ w.results = o.results
  BY <1>1, <1>2, TwinRunAll DEF Outcome
<1>4. Replayed(ApplyPrices(Snapshot(c), b), b).s = r
  <2>1. Replayed(ApplyPrices(Snapshot(c), b), b) = [s |-> r, recost |-> w.recost]
    BY Zenon DEF Replayed, u
  <2> HIDE DEF r
  <2> QED BY <2>1
<1>5. s.chain = e.chain /\ s.post = e.post
  BY Zenon DEF ExecutedState
<1> HIDE DEF o, w
<1>6. /\ Delta(o.s) /\ Delta(w.s)
      /\ w.s.chain.height = o.s.chain.height /\ w.s.chain.nonce = o.s.chain.nonce
      /\ w.s.chain.balance = o.s.chain.balance /\ w.s.chain.fee = o.s.chain.fee
      /\ w.s.chain.validators = o.s.chain.validators
      /\ w.s.chain.enableHeight = o.s.chain.enableHeight
      /\ w.s.chain.upgraded = o.s.chain.upgraded
      /\ w.s.chain.pairs = Priced(o.s.chain.pairs, b)
      /\ w.s.deposits = o.s.deposits /\ w.s.blockFees = o.s.blockFees
      /\ w.s.updates = o.s.updates
  BY <1>3 DEF Twin
<1> DEFINE m == [o.s.chain.balance EXCEPT ![SudoAddress] = @ + o.s.blockFees]
           k == EnableAfter(o.s.chain, b)
           v == <<[updates |-> o.s.updates, results |-> o.results, enable |-> k, block |-> b,
                   deposits |-> o.s.deposits]>>
<1>7. /\ e.chain = [height |-> o.s.chain.height, nonce |-> o.s.chain.nonce, balance |-> m,
                    fee |-> o.s.chain.fee, pairs |-> o.s.chain.pairs,
                    validators |-> o.s.chain.validators, enableHeight |-> k,
                    upgraded |-> o.s.chain.upgraded]
      /\ e.post = v
  <2>1. e = [chain |-> [height |-> o.s.chain.height, nonce |-> o.s.chain.nonce, balance |-> m,
                        fee |-> o.s.chain.fee, pairs |-> o.s.chain.pairs,
                        validators |-> o.s.chain.validators, enableHeight |-> k,
                        upgraded |-> o.s.chain.upgraded],
             deposits |-> o.s.deposits, blockFees |-> o.s.blockFees, updates |-> {},
             results |-> o.s.results, post |-> v]
    BY <1>6, PostExecuteForm, Zenon
  <2> HIDE DEF e, m, k, v
  <2> QED BY <2>1
<1>8. /\ r.chain = [height |-> o.s.chain.height, nonce |-> o.s.chain.nonce, balance |-> m,
                    fee |-> o.s.chain.fee, pairs |-> Priced(o.s.chain.pairs, b),
                    validators |-> o.s.chain.validators, enableHeight |-> k,
                    upgraded |-> o.s.chain.upgraded]
      /\ r.post = v
  <2> DEFINE m2 == [w.s.chain.balance EXCEPT ![SudoAddress] = @ + w.s.blockFees]
             k2 == EnableAfter(w.s.chain, b)
             v2 == <<[updates |-> w.s.updates, results |-> w.results, enable |-> k2, block |-> b,
                      deposits |-> w.s.deposits]>>
  <2>1. r = [chain |-> [height |-> w.s.chain.height, nonce |-> w.s.chain.nonce, balance |-> m2,
                        fee |-> w.s.chain.fee, pairs |-> w.s.chain.pairs,
                        validators |-> w.s.chain.validators, enableHeight |-> k2,
                        upgraded |-> w.s.chain.upgraded],
             deposits |-> w.s.deposits, blockFees |-> w.s.blockFees, updates |-> {},
             results |-> w.s.results, post |-> v2]
    BY <1>6, PostExecuteForm, Zenon
  <2>2. k2 = k
    BY <1>6 DEF EnableAfter
  <2>3. m2 = m
    BY <1>6
  <2> HIDE DEF k, k2
  <2>4. v2 = v
    BY <1>3, <1>6, <2>2
  <2> HIDE DEF r, m, m2, v, v2
  <2> QED BY <1>6, <2>1, <2>2, <2>3, <2>4
<1> DEFINE x == ApplyPrices(s, b)
<1>9. /\ x.chain = [height |-> s.chain.height, nonce |-> s.chain.nonce,
                    balance |-> s.chain.balance, fee |-> s.chain.fee,
                    pairs |-> Priced(s.chain.pairs, b), validators |-> s.chain.validators,
                    enableHeight |-> s.chain.enableHeight, upgraded |-> s.chain.upgraded]
      /\ x.post = s.post
  BY ApplyPricesForm
<1> HIDE DEF x, e, r, m, k, v
<1>10. /\ s.chain.height = o.s.chain.height /\ s.chain.nonce = o.s.chain.nonce
       /\ s.chain.balance = m /\ s.chain.fee = o.s.chain.fee
       /\ s.chain.pairs = o.s.chain.pairs /\ s.chain.validators = o.s.chain.validators
       /\ s.chain.enableHeight = k /\ s.chain.upgraded = o.s.chain.upgraded
  BY <1>5, <1>7
<1>11. x.chain = r.chain /\ x.post = r.post
  BY <1>5, <1>7, <1>8, <1>9, <1>10
<1> QED BY <1>4, <1>11 DEF x

-----------------------------------------------------------------------------
(* The inductive invariant of the application *)

AppTypeOK ==
    /\ Chain(storage) /\ Enabling(storage) /\ Delta(interBlockState)
    /\ executionState = [tag |-> executionState.tag, block |-> executionState.block]
    /\ executionState.tag \in {"Unset", "Prepared", "PreparedValid", "CheckedPreparedMismatch",
                               "ExecutedBlock", "CheckedExecutedBlockMismatch"}
    /\ recostMempool \in BOOLEAN /\ mempoolFee \in Nat
    /\ writeBatch = << >> \/ /\ writeBatch = <<writeBatch[1], writeBatch[2]>>
                             /\ Successor(storage, writeBatch[1])
    /\ comet = [round |-> comet.round, phase |-> comet.phase, proposals |-> comet.proposals,
                block |-> comet.block, crashes |-> comet.crashes]
    /\ comet.round \in Nat /\ comet.crashes \in Nat
    /\ comet.phase \in {"rounds", "decided", "panicked", "finalized"}

(* Every block that is proposed or decided may follow the committed state. *)
BlocksFollow ==
    /\ \A b \in comet.proposals : WellFormed(storage, b)
    /\ comet.phase # "rounds" =>
         /\ WellFormed(storage, comet.block) /\ PairsKnown(storage, comet.block)
         /\ comet.proposals = {}

(* The execution state machine tells which block the state in memory has   *)
(* executed.                                                               *)
CacheIsOfBlock ==
    /\ executionState.tag \in {"Prepared", "PreparedValid"} =>
         /\ WellFormed(storage, executionState.block)
         /\ PreparedState(storage, executionState.block, interBlockState)
    /\ executionState.tag = "ExecutedBlock" /\ interBlockState.post # << >> =>
         /\ WellFormed(storage, executionState.block)
         /\ ExecutedState(storage, executionState.block, interBlockState)

(* The recost flag is set if the state in memory, or the one to commit,    *)
(* has other fees than the committed one.                                  *)
RecostFlagged ==
    /\ recostMempool \/ interBlockState.chain.fee = storage.fee
    /\ writeBatch # << >> => recostMempool \/ writeBatch[1].fee = storage.fee

(* Only a block that is decided waits for its commit. *)
BatchOfDecided ==
    /\ writeBatch # << >> => comet.phase # "rounds"
    /\ comet.phase = "finalized" => writeBatch # << >>

AppInv ==
    /\ AppTypeOK /\ BlocksFollow /\ CacheIsOfBlock /\ RecostFlagged /\ BatchOfDecided
    /\ MempoolCostsCurrent
    /\ Cardinality(Validators) < MaxTxBytes => OwnProposalAccepted
    /\ CachedEqualsReplayed

(* The invariant holds after init_chain.                                   *)
LEMMA AppInitInv == AppInit => AppInv
<1> SUFFICES ASSUME AppInit PROVE AppInv
  OBVIOUS
<1>1. Genesis \in Chains(DOMAIN Genesis.pairs) /\ (Genesis.enableHeight # 0 => Aspen <= Genesis.height)
  BY AppAssumption
<1>2. Chain(storage) /\ Enabling(storage) /\ storage.fee \in Nat
  BY <1>1 DEF AppInit, Chain, Enabling, Chains
<1>3. /\ Delta(interBlockState) /\ interBlockState.chain = storage
      /\ interBlockState.post = << >>
  BY <1>2, SnapshotDelta DEF AppInit
<1>4. AppTypeOK
  BY <1>2, <1>3 DEF AppInit, AppTypeOK, Unset
<1>5. BlocksFollow /\ BatchOfDecided
  BY DEF AppInit, BlocksFollow, BatchOfDecided
<1>6. CacheIsOfBlock /\ OwnProposalAccepted
  BY DEF AppInit, CacheIsOfBlock, OwnProposalAccepted, Unset
<1>7. RecostFlagged /\ MempoolCostsCurrent /\ CachedEqualsReplayed
  BY <1>3 DEF AppInit, RecostFlagged, MempoolCostsCurrent, CachedEqualsReplayed
<1> QED BY <1>4, <1>5, <1>6, <1>7 DEF AppInv

(* The steps of CometBFT that leave the application alone.                 *)
LEMMA CometStep ==
    ASSUME AppInv,
           UNCHANGED <<storage, interBlockState, executionState, recostMempool, writeBatch,
                       mempoolFee>>,
           comet' = [round |-> comet'.round, phase |-> comet'.phase, proposals |-> comet'.proposals,
                     block |-> comet'.block, crashes |-> comet'.crashes],
           comet'.round \in Nat, comet'.crashes \in Nat,
           comet'.phase \in {"rounds", "decided", "panicked", "finalized"},
           BlocksFollow', BatchOfDecided', comet'.block = comet.block \/ writeBatch = << >>
    PROVE  AppInv'
<1>1. AppTypeOK'
  BY DEF AppInv, AppTypeOK
<1>2. CacheIsOfBlock' /\ RecostFlagged' /\ MempoolCostsCurrent'
  BY DEF AppInv, CacheIsOfBlock, RecostFlagged, MempoolCostsCurrent
<1>3. Cardinality(Validators) < MaxTxBytes => OwnProposalAccepted'
  BY DEF AppInv, OwnProposalAccepted
<1>4. CachedEqualsReplayed'
  <2>1. CASE comet'.block = comet.block
    BY <2>1 DEF AppInv, CachedEqualsReplayed
  <2>2. CASE writeBatch = << >>
    BY <2>2 DEF CachedEqualsReplayed
  <2> QED BY <2>1, <2>2
<1> QED BY <1>1, <1>2, <1>3, <1>4 DEF AppInv

(* What CometBFT asks for.                                                 *)
LEMMA RequestFacts ==
    ASSUME NEW r \in Requests
    PROVE  r.queue \in BuilderQueues /\ r.voters \in {{}, Validators}
BY DEF Requests

(* A round in which b is proposed.                                         *)
LEMMA ProposeFacts ==
    ASSUME AppInv, NextRound, NEW b, Propose(b)
    PROVE  /\ comet' = [round |-> comet'.round, phase |-> comet'.phase,
                        proposals |-> comet'.proposals, block |-> comet'.block,
                        crashes |-> comet'.crashes]
           /\ comet'.round \in Nat /\ comet'.crashes \in Nat /\ comet'.phase = "rounds"
           /\ comet.phase = "rounds" /\ comet'.proposals = comet.proposals \cup {b}
           /\ comet'.block = comet.block /\ writeBatch = << >>
<1>1. comet = [round |-> comet.round, phase |-> comet.phase, proposals |-> comet.proposals,
               block |-> comet.block, crashes |-> comet.crashes]
      /\ comet.round \in Nat /\ comet.crashes \in Nat
  BY DEF AppInv, AppTypeOK
<1>2. comet.phase = "rounds" /\ writeBatch = << >>
  BY DEF AppInv, BatchOfDecided, NextRound
<1> DEFINE n == comet.round + 1
           P == comet.proposals \cup {b}
<1>3. comet' = [comet EXCEPT !.round = n, !.proposals = P]
  BY DEF Propose
<1>4. n \in Nat
  BY <1>1
<1> HIDE DEF n, P
<1>5. comet' = [round |-> n, phase |-> comet.phase, proposals |-> P, block |-> comet.block,
                crashes |-> comet.crashes]
  BY <1>1, <1>3
<1>6. comet'.round = n /\ comet'.phase = comet.phase /\ comet'.proposals = P
      /\ comet'.block = comet.block /\ comet'.crashes = comet.crashes
  BY <1>5
<1>7. comet' = [round |-> comet'.round, phase |-> comet'.phase,
                proposals |-> comet'.proposals, block |-> comet'.block,
                crashes |-> comet'.crashes]
  BY <1>5, <1>6
<1> QED BY <1>1, <1>2, <1>4, <1>6, <1>7 DEF P

(* Another validator proposes.                                             *)
LEMMA ForeignProposalInv ==
    ASSUME AppInv, NEW r \in Requests, ForeignProposal(r)
    PROVE  AppInv'
<1> DEFINE p == PreparedFrom(storage, r).block
<1>1. PICK b \in {p} \cup Tampered(p) : Propose(b)
  BY DEF ForeignProposal
<1>2. NextRound /\ UNCHANGED <<storage, interBlockState, executionState, recostMempool,
                               writeBatch, mempoolFee>>
  BY DEF ForeignProposal
<1>3. WellFormed(storage, p) /\ BlockForm(p)
  BY RequestFacts, PreparedFacts DEF AppInv, AppTypeOK
<1>4. WellFormed(storage, b)
  <2> HIDE DEF p
  <2> QED BY <1>1, <1>3, TamperedFacts
<1>5. /\ comet' = [round |-> comet'.round, phase |-> comet'.phase,
                   proposals |-> comet'.proposals, block |-> comet'.block,
                   crashes |-> comet'.crashes]
      /\ comet'.round \in Nat /\ comet'.crashes \in Nat /\ comet'.phase = "rounds"
      /\ comet.phase = "rounds" /\ comet'.proposals = comet.proposals \cup {b}
      /\ comet'.block = comet.block /\ writeBatch = << >>
  BY <1>1, <1>2, ProposeFacts
<1>6. BlocksFollow' /\ BatchOfDecided'
  BY <1>2, <1>4, <1>5 DEF AppInv, BlocksFollow, BatchOfDecided
<1> QED BY <1>2, <1>5, <1>6, CometStep

(* prepare_proposal executes its own block and keeps it.                   *)
LEMMA PrepareProposalInv ==
    ASSUME AppInv, NEW r \in Requests, PrepareProposal(r)
    PROVE  AppInv'
<1> DEFINE p == PreparedFrom(storage, r)
           b == p.block
<1>1. /\ NextRound /\ interBlockState' = p.s
      /\ executionState' = [tag |-> "Prepared", block |-> b]
      /\ recostMempool' = p.recost /\ Propose(b)
      /\ storage' = storage /\ writeBatch' = writeBatch /\ mempoolFee' = mempoolFee
  BY DEF PrepareProposal
<1>2. /\ WellFormed(storage, b) /\ PreparedState(storage, b, p.s)
      /\ Delta(p.s) /\ p.recost \in BOOLEAN
      /\ p.recost \/ p.s.chain.fee = storage.fee
      /\ Cardinality(Validators) < MaxTxBytes => Valid(storage, b)
  BY RequestFacts, PreparedFacts DEF AppInv, AppTypeOK
<1> HIDE DEF p, b
<1>3. /\ comet' = [round |-> comet'.round, phase |-> comet'.phase,
                   proposals |-> comet'.proposals, block |-> comet'.block,
                   crashes |-> comet'.crashes]
      /\ comet'.round \in Nat /\ comet'.crashes \in Nat /\ comet'.phase = "rounds"
      /\ comet.phase = "rounds" /\ comet'.proposals = comet.proposals \cup {b}
      /\ comet'.block = comet.block /\ writeBatch = << >>
  BY <1>1, ProposeFacts
<1>4. executionState'.tag = "Prepared" /\ executionState'.block = b
  BY <1>1
<1>5. AppTypeOK'
  BY <1>1, <1>2, <1>3, <1>4 DEF AppInv, AppTypeOK
<1>6. BlocksFollow' /\ BatchOfDecided'
  BY <1>1, <1>2, <1>3 DEF AppInv, BlocksFollow, BatchOfDecided
<1>7. CacheIsOfBlock'
  BY <1>1, <1>2, <1>4 DEF CacheIsOfBlock
<1>8. RecostFlagged' /\ MempoolCostsCurrent'
  BY <1>1, <1>2, <1>3 DEF AppInv, RecostFlagged, MempoolCostsCurrent
<1>9. Cardinality(Validators) < MaxTxBytes => OwnProposalAccepted'
  BY <1>1, <1>2, <1>4 DEF OwnProposalAccepted
<1>10. CachedEqualsReplayed'
  BY <1>1, <1>3 DEF CachedEqualsReplayed
<1> QED BY <1>5, <1>6, <1>7, <1>8, <1>9, <1>10 DEF AppInv

(* Ending the block that was prepared.                                     *)
LEMMA PreparedExecuted ==
    ASSUME NEW c, Chain(c), Enabling(c), NEW b, WellFormed(c, b), NEW s,
           PreparedState(c, b, s)
    PROVE  LET e == PostExecute(s, b, s.results[1]) IN
           /\ Delta(e) /\ ExecutedState(c, b, e) /\ e.chain.fee = s.chain.fee
<1> DEFINE o == Outcome(c, b).s
           x == AllOk(b.txs)
           e == PostExecute(s, b, x)
           d == PostExecute(o, b, x)
<1>1. Delta(o) /\ s = [o EXCEPT !.results = <<x>>] /\ Outcome(c, b).results = x
  BY DEF PreparedState
<1> HIDE DEF o, x
<1>2. /\ Delta(s) /\ s.results = <<x>>
      /\ s.chain = o.chain /\ s.deposits = o.deposits /\ s.blockFees = o.blockFees
      /\ s.updates = o.updates /\ s.post = o.post
  <2> DEFINE k == [o EXCEPT !.results = <<x>>]
  <2>1. /\ Delta(k) /\ k.results = <<x>>
        /\ k.chain = o.chain /\ k.deposits = o.deposits /\ k.blockFees = o.blockFees
        /\ k.updates = o.updates /\ k.post = o.post
    BY <1>1, WithResults, Zenon
  <2> HIDE DEF k
  <2> QED BY <1>1, <2>1 DEF k
<1>3. s.results[1] = x
  BY <1>2
<1>4. s.chain.height = b.height /\ s.chain.enableHeight = c.enableHeight
  BY <1>2, OutcomeFacts DEF o
<1>5. Delta(e) /\ e.chain.fee = s.chain.fee
  BY <1>2, <1>4, BlockFacts
<1> DEFINE m(t) == [t.chain.balance EXCEPT ![SudoAddress] = @ + t.blockFees]
           k(t) == EnableAfter(t.chain, b)
           v(t) == <<[updates |-> t.updates, results |-> x, enable |-> k(t), block |-> b,
                      deposits |-> t.deposits]>>
           C(t) == [height |-> t.chain.height, nonce |-> t.chain.nonce, balance |-> m(t),
                    fee |-> t.chain.fee, pairs |-> t.chain.pairs,
                    validators |-> t.chain.validators, enableHeight |-> k(t),
                    upgraded |-> t.chain.upgraded]
<1>6. e = [chain |-> C(s), deposits |-> s.deposits, blockFees |-> s.blockFees, updates |-> {},
           results |-> s.results, post |-> v(s)]
  BY <1>2, PostExecuteForm, Zenon
<1>7. d = [chain |-> C(o), deposits |-> o.deposits, blockFees |-> o.blockFees, updates |-> {},
           results |-> o.results, post |-> v(o)]
  BY <1>1, PostExecuteForm, Zenon
<1>8. C(s) = C(o) /\ v(s) = v(o)
  BY <1>2
<1> HIDE DEF e, d, C, v
<1>9. e.chain = d.chain /\ e.post = d.post
  BY <1>6, <1>7, <1>8
<1>10. ExecutedState(c, b, e)
  BY <1>1, <1>9 DEF ExecutedState, d, o, x
<1> QED BY <1>3, <1>5, <1>10 DEF e

(* A proposal is processed.                                                *)
LEMMA ProcessStep ==
    ASSUME AppInv, comet.phase = "rounds", UNCHANGED <<storage, writeBatch, mempoolFee, comet>>,
           Delta(interBlockState'),
           executionState' = [tag |-> executionState'.tag, block |-> executionState'.block],
           executionState'.tag \in {"Unset", "Prepared", "PreparedValid",
               "CheckedPreparedMismatch", "ExecutedBlock", "CheckedExecutedBlockMismatch"},
           recostMempool' \in BOOLEAN, CacheIsOfBlock',
           recostMempool' \/ interBlockState'.chain.fee = storage.fee,
           Cardinality(Validators) < MaxTxBytes => OwnProposalAccepted'
    PROVE  AppInv'
<1>1. writeBatch = << >>
  BY DEF AppInv, BatchOfDecided
<1>2. AppTypeOK'
  BY DEF AppInv, AppTypeOK
<1>3. BlocksFollow' /\ BatchOfDecided' /\ MempoolCostsCurrent'
  BY DEF AppInv, BlocksFollow, BatchOfDecided, MempoolCostsCurrent
<1>4. RecostFlagged' /\ CachedEqualsReplayed'
  BY <1>1 DEF RecostFlagged, CachedEqualsReplayed
<1> QED BY <1>2, <1>3, <1>4 DEF AppInv

(* process_proposal meets the block that was prepared.                     *)
LEMMA ProcessPreparedInv ==
    ASSUME AppInv, comet.phase = "rounds", UNCHANGED <<storage, writeBatch, mempoolFee, comet>>,
           NEW b \in comet.proposals, ProcessPrepared(b)
    PROVE  AppInv'
<1>1. executionState.tag \in {"Prepared", "PreparedValid"} /\ executionState.block = b
  <2>1. CheckIfPreparedProposal(b).tag = "PreparedValid"
    BY DEF ProcessPrepared
  <2>2. executionState = [tag |-> executionState.tag, block |-> executionState.block]
    BY DEF AppInv, AppTypeOK
  <2>3. executionState.tag \in {"Prepared", "PreparedValid"}
    BY <2>1 DEF CheckIfPreparedProposal
  <2> DEFINE x == IF executionState.block = b THEN "PreparedValid" ELSE "CheckedPreparedMismatch"
  <2>4. CheckIfPreparedProposal(b) = [executionState EXCEPT !.tag = x]
    BY <2>3 DEF CheckIfPreparedProposal
  <2>5. x = "PreparedValid"
    <3> HIDE DEF x
    <3> QED BY <2>1, <2>2, <2>4
  <2> QED BY <2>3, <2>5
<1>2. Chain(storage) /\ Enabling(storage) /\ WellFormed(storage, b)
      /\ PreparedState(storage, b, interBlockState)
  BY <1>1 DEF AppInv, AppTypeOK, CacheIsOfBlock
<1> DEFINE e == PostExecute(interBlockState, b, interBlockState.results[1])
<1>3. Delta(e) /\ ExecutedState(storage, b, e) /\ e.chain.fee = interBlockState.chain.fee
  BY <1>2, PreparedExecuted
<1>4. interBlockState' = e /\ executionState' = [tag |-> "ExecutedBlock", block |-> b]
      /\ recostMempool' = recostMempool
  BY DEF ProcessPrepared, ExecutedBlock
<1> HIDE DEF e
<1>5. executionState'.tag = "ExecutedBlock" /\ executionState'.block = b
  BY <1>4
<1>6. CacheIsOfBlock'
  BY <1>2, <1>3, <1>4, <1>5 DEF CacheIsOfBlock
<1>7. recostMempool' \in BOOLEAN
  BY <1>4 DEF AppInv, AppTypeOK
<1>8. recostMempool' \/ interBlockState'.chain.fee = storage.fee
  BY <1>3, <1>4 DEF AppInv, RecostFlagged
<1>9. OwnProposalAccepted'
  BY <1>5 DEF OwnProposalAccepted
<1> QED BY <1>3, <1>4, <1>5, <1>6, <1>7, <1>8, <1>9, ProcessStep

(* process_proposal executes the block on the committed state.             *)
LEMMA ProcessAfreshInv ==
    ASSUME AppInv, comet.phase = "rounds", UNCHANGED <<storage, writeBatch, mempoolFee, comet>>,
           NEW b \in comet.proposals, ProcessAfresh(b)
    PROVE  AppInv'
<1> DEFINE p == Processed(storage, b)
           a == VotesAccepted(Snapshot(storage), b.votes)
           e == PostExecute(p.s, b, AllOk(b.txs))
<1>1. Chain(storage) /\ Enabling(storage) /\ WellFormed(storage, b) /\ recostMempool \in BOOLEAN
  BY DEF AppInv, AppTypeOK, BlocksFollow
<1>2. /\ Delta(p.s) /\ p.recost \in BOOLEAN
      /\ p.recost \/ p.s.chain.fee = storage.fee
      /\ ~a => p.s.chain.fee = storage.fee
      /\ p.ok => p.s = Outcome(storage, b).s /\ Outcome(storage, b).results = AllOk(b.txs)
  BY <1>1, ProcessedFacts
<1>3. /\ recostMempool' = IF a THEN p.recost ELSE recostMempool
      /\ IF p.ok THEN interBlockState' = e /\ executionState' = ExecutedBlock(b)
                 ELSE interBlockState' = p.s /\ executionState' = Unset
  BY DEF ProcessAfresh
<1> HIDE DEF p, a
<1>4. recostMempool' \in BOOLEAN /\ (recostMempool' \/ p.s.chain.fee = storage.fee)
  <2>1. recostMempool' \in BOOLEAN
    BY <1>1, <1>2, <1>3
  <2>2. CASE a
    <3>1. recostMempool' = p.recost
      BY <1>3, <2>2, Zenon
    <3>2. recostMempool' \/ p.s.chain.fee = storage.fee
      BY <1>2, <3>1, Zenon
    <3> QED BY <2>1, <3>2
  <2>3. CASE ~a
    BY <1>2, <2>1, <2>3
  <2> QED BY <2>1, <2>2, <2>3
<1>5. CASE p.ok
  <2>1. interBlockState' = e /\ executionState' = [tag |-> "ExecutedBlock", block |-> b]
    BY <1>3, <1>5 DEF ExecutedBlock
  <2>2. p.s.chain.height = b.height /\ p.s.chain.enableHeight = storage.enableHeight
    BY <1>1, <1>2, <1>5, OutcomeFacts
  <2>3. Delta(e) /\ e.chain.fee = p.s.chain.fee
    BY <1>1, <1>2, <2>2, BlockFacts
  <2>4. ExecutedState(storage, b, e)
    BY <1>2, <1>5 DEF ExecutedState
  <2> HIDE DEF e
  <2>5. executionState'.tag = "ExecutedBlock" /\ executionState'.block = b
    BY <2>1
  <2>6. CacheIsOfBlock'
    BY <1>1, <2>1, <2>4, <2>5 DEF CacheIsOfBlock
  <2>7. OwnProposalAccepted'
    BY <2>5 DEF OwnProposalAccepted
  <2>8. recostMempool' \/ interBlockState'.chain.fee = storage.fee
    BY <1>4, <2>1, <2>3
  <2> QED BY <1>4, <2>1, <2>3, <2>5, <2>6, <2>7, <2>8, ProcessStep
<1>6. CASE ~p.ok
  <2>1. interBlockState' = p.s /\ executionState' = [tag |-> "Unset", block |-> << >>]
    BY <1>3, <1>6 DEF Unset
  <2>2. executionState'.tag = "Unset" /\ executionState'.block = << >>
    BY <2>1
  <2>3. CacheIsOfBlock' /\ OwnProposalAccepted'
    BY <2>2 DEF CacheIsOfBlock, OwnProposalAccepted
  <2> QED BY <1>2, <1>4, <2>1, <2>2, <2>3, ProcessStep
<1> QED BY <1>5, <1>6

(* process_proposal rejects data items before it resets the state.         *)
LEMMA ProcessUnparsedInv ==
    ASSUME AppInv, comet.phase = "rounds", UNCHANGED <<storage, writeBatch, mempoolFee, comet>>,
           NEW b \in comet.proposals, ProcessUnparsed(b)
    PROVE  AppInv'
<1>1. executionState = [tag |-> executionState.tag, block |-> executionState.block]
      /\ executionState.tag \in {"Unset", "Prepared", "PreparedValid",
             "CheckedPreparedMismatch", "ExecutedBlock", "CheckedExecutedBlockMismatch"}
      /\ recostMempool \in BOOLEAN /\ Delta(interBlockState)
  BY DEF AppInv, AppTypeOK
<1>2. executionState' = CheckIfPreparedProposal(b) /\ interBlockState' = interBlockState
      /\ recostMempool' = recostMempool
  BY DEF ProcessUnparsed
<1>3. recostMempool' \/ interBlockState'.chain.fee = storage.fee
  BY <1>2 DEF AppInv, RecostFlagged
<1>4. CASE executionState.tag \notin {"Prepared", "PreparedValid"}
  <2>1. executionState' = executionState
    BY <1>2, <1>4 DEF CheckIfPreparedProposal
  <2>2. CacheIsOfBlock' /\ OwnProposalAccepted'
    BY <1>2, <1>4, <2>1 DEF AppInv, CacheIsOfBlock, OwnProposalAccepted
  <2> QED BY <1>1, <1>2, <1>3, <2>1, <2>2, ProcessStep
<1>5. CASE executionState.tag \in {"Prepared", "PreparedValid"}
  <2> DEFINE x == IF executionState.block = b THEN "PreparedValid" ELSE "CheckedPreparedMismatch"
  <2>1. executionState' = [executionState EXCEPT !.tag = x]
    BY <1>2, <1>5 DEF CheckIfPreparedProposal
  <2>2. x \in {"PreparedValid", "CheckedPreparedMismatch"}
    OBVIOUS
  <2> HIDE DEF x
  <2>3. executionState' = [tag |-> x, block |-> executionState.block]
    BY <1>1, <2>1
  <2>4. executionState'.tag = x /\ executionState'.block = executionState.block
    BY <2>3
  <2>5. CacheIsOfBlock'
    BY <1>2, <1>5, <2>2, <2>4 DEF AppInv, CacheIsOfBlock
  <2>6. Cardinality(Validators) < MaxTxBytes => OwnProposalAccepted'
    BY <1>5, <2>4 DEF AppInv, OwnProposalAccepted
  <2> QED BY <1>1, <1>2, <1>3, <2>2, <2>3, <2>4, <2>5, <2>6, ProcessStep
<1> QED BY <1>4, <1>5

(* CometBFT decides.                                                       *)
LEMMA DecideInv ==
    ASSUME AppInv, NEW b \in comet.proposals, Decide(b)
    PROVE  AppInv'
<1>1. /\ comet = [round |-> comet.round, phase |-> comet.phase, proposals |-> comet.proposals,
                  block |-> comet.block, crashes |-> comet.crashes]
      /\ comet.round \in Nat /\ comet.crashes \in Nat
  BY DEF AppInv, AppTypeOK
<1>2. /\ comet' = [comet EXCEPT !.phase = "decided", !.block = b, !.proposals = {}]
      /\ UNCHANGED <<storage, interBlockState, executionState, recostMempool, writeBatch,
                     mempoolFee>>
      /\ comet.phase = "rounds"
  BY DEF Decide
<1>3. WellFormed(storage, b) /\ writeBatch = << >>
  BY <1>2 DEF AppInv, BlocksFollow, BatchOfDecided
<1>30. PairsKnown(storage, b)
  <2>1. VotesAccepted(Snapshot(storage), b.votes)
    BY <1>3, ProcessedFacts DEF AppInv, AppTypeOK, Decide, Valid
  <2>2. Snapshot(storage).chain = storage
    BY SnapshotDelta DEF AppInv, AppTypeOK
  <2> QED BY <1>3, <2>1, <2>2 DEF VotesAccepted, IdToCurrencyPair, WellFormed, PricedPairs,
                                 PairsKnown
<1>4. comet' = [round |-> comet.round, phase |-> "decided", proposals |-> {}, block |-> b,
                crashes |-> comet.crashes]
  BY <1>1, <1>2
<1>5. comet'.round = comet.round /\ comet'.phase = "decided" /\ comet'.proposals = {}
      /\ comet'.block = b /\ comet'.crashes = comet.crashes
  BY <1>4
<1>6. BlocksFollow' /\ BatchOfDecided'
  BY <1>2, <1>3, <1>30, <1>5 DEF BlocksFollow, BatchOfDecided
<1>7. comet' = [round |-> comet'.round, phase |-> comet'.phase, proposals |-> comet'.proposals,
                block |-> comet'.block, crashes |-> comet'.crashes]
  BY <1>4, <1>5
<1> QED BY <1>1, <1>2, <1>3, <1>5, <1>6, <1>7, CometStep

(* CometBFT restarts alone.                                                *)
LEMMA CometRestartInv ==
    ASSUME AppInv, CometRestart
    PROVE  AppInv'
<1>1. /\ comet = [round |-> comet.round, phase |-> comet.phase, proposals |-> comet.proposals,
                  block |-> comet.block, crashes |-> comet.crashes]
      /\ comet.round \in Nat /\ comet.crashes \in Nat
  BY DEF AppInv, AppTypeOK
<1> DEFINE n == comet.crashes + 1
<1>2. /\ comet' = [comet EXCEPT !.phase = "decided", !.crashes = n]
      /\ UNCHANGED <<storage, interBlockState, executionState, recostMempool, writeBatch,
                     mempoolFee>>
      /\ comet.phase = "finalized"
  BY DEF CometRestart, Replay
<1>3. n \in Nat
  BY <1>1
<1> HIDE DEF n
<1>4. comet' = [round |-> comet.round, phase |-> "decided", proposals |-> comet.proposals,
                block |-> comet.block, crashes |-> n]
  BY <1>1, <1>2
<1>5. comet'.round = comet.round /\ comet'.phase = "decided" /\ comet'.block = comet.block
      /\ comet'.proposals = comet.proposals /\ comet'.crashes = n
  BY <1>4
<1>6. BlocksFollow' /\ BatchOfDecided'
  BY <1>2, <1>5 DEF AppInv, BlocksFollow, BatchOfDecided
<1>7. comet' = [round |-> comet'.round, phase |-> comet'.phase, proposals |-> comet'.proposals,
                block |-> comet'.block, crashes |-> comet'.crashes]
  BY <1>4, <1>5
<1> QED BY <1>1, <1>2, <1>3, <1>5, <1>6, <1>7, CometStep

(* A process starts: what CometBFT keeps is given.                         *)
LEMMA NewAppInv ==
    ASSUME AppInv, NewApp,
           comet' = [round |-> comet'.round, phase |-> comet'.phase, proposals |-> comet'.proposals,
                     block |-> comet'.block, crashes |-> comet'.crashes],
           comet'.round \in Nat, comet'.crashes \in Nat, comet'.phase \in {"rounds", "decided"},
           comet'.block = comet.block, comet'.proposals = comet.proposals,
           comet'.phase = "rounds" <=> comet.phase = "rounds"
    PROVE  AppInv'
<1>1. /\ interBlockState' = Snapshot(storage) /\ executionState' = Unset
      /\ recostMempool' = FALSE /\ writeBatch' = << >> /\ mempoolFee' = storage.fee
      /\ storage' = storage
  BY DEF NewApp
<1>2. Chain(storage) /\ Enabling(storage) /\ storage.fee \in Nat
  BY DEF AppInv, AppTypeOK, Chain, Chains
<1>3. Delta(interBlockState') /\ interBlockState'.chain = storage
  BY <1>1, <1>2, SnapshotDelta
<1>4. executionState' = [tag |-> "Unset", block |-> << >>]
  BY <1>1 DEF Unset
<1>5. executionState'.tag = "Unset" /\ executionState'.block = << >>
  BY <1>4
<1>6. AppTypeOK'
  BY <1>1, <1>2, <1>3, <1>4, <1>5 DEF AppTypeOK
<1>7. BlocksFollow' /\ BatchOfDecided'
  BY <1>1 DEF AppInv, BlocksFollow, BatchOfDecided
<1>8. CacheIsOfBlock' /\ OwnProposalAccepted'
  BY <1>5 DEF CacheIsOfBlock, OwnProposalAccepted
<1>9. RecostFlagged' /\ MempoolCostsCurrent' /\ CachedEqualsReplayed'
  BY <1>1, <1>3 DEF RecostFlagged, MempoolCostsCurrent, CachedEqualsReplayed
<1> QED BY <1>6, <1>7, <1>8, <1>9 DEF AppInv

(* The process starts again.                                               *)
LEMMA CrashInv ==
    ASSUME AppInv, Crash
    PROVE  AppInv'
<1>1. /\ comet = [round |-> comet.round, phase |-> comet.phase, proposals |-> comet.proposals,
                  block |-> comet.block, crashes |-> comet.crashes]
      /\ comet.round \in Nat /\ comet.crashes \in Nat
  BY DEF AppInv, AppTypeOK
<1> DEFINE n == comet.crashes + 1
           f == Replay
<1>2. comet' = [comet EXCEPT !.phase = f, !.crashes = n] /\ NewApp
  BY DEF Crash
<1>3. n \in Nat /\ f \in {"rounds", "decided"} /\ (f = "rounds" <=> comet.phase = "rounds")
  BY <1>1 DEF Replay
<1> HIDE DEF n, f
<1>4. comet' = [round |-> comet.round, phase |-> f, proposals |-> comet.proposals,
                block |-> comet.block, crashes |-> n]
  BY <1>1, <1>2
<1>5. comet'.round = comet.round /\ comet'.phase = f /\ comet'.block = comet.block
      /\ comet'.proposals = comet.proposals /\ comet'.crashes = n
  BY <1>4
<1>6. comet' = [round |-> comet'.round, phase |-> comet'.phase, proposals |-> comet'.proposals,
                block |-> comet'.block, crashes |-> comet'.crashes]
  BY <1>4, <1>5
<1> QED BY <1>1, <1>2, <1>3, <1>5, <1>6, NewAppInv

(* The consensus task ends.                                                *)
LEMMA PanicInv ==
    ASSUME AppInv, Panic
    PROVE  AppInv'
<1>1. /\ comet = [round |-> comet.round, phase |-> comet.phase, proposals |-> comet.proposals,
                  block |-> comet.block, crashes |-> comet.crashes]
      /\ comet.round \in Nat /\ comet.crashes \in Nat
  BY DEF AppInv, AppTypeOK
<1>2. /\ comet' = [comet EXCEPT !.phase = "panicked"]
      /\ UNCHANGED <<storage, interBlockState, executionState, recostMempool, writeBatch,
                     mempoolFee>>
      /\ comet.phase = "decided"
  BY DEF Panic
<1>4. comet' = [round |-> comet.round, phase |-> "panicked", proposals |-> comet.proposals,
                block |-> comet.block, crashes |-> comet.crashes]
  BY <1>1, <1>2
<1>5. comet'.round = comet.round /\ comet'.phase = "panicked" /\ comet'.block = comet.block
      /\ comet'.proposals = comet.proposals /\ comet'.crashes = comet.crashes
  BY <1>4
<1>6. BlocksFollow' /\ BatchOfDecided'
  BY <1>2, <1>5 DEF AppInv, BlocksFollow, BatchOfDecided
<1>7. comet' = [round |-> comet'.round, phase |-> comet'.phase, proposals |-> comet'.proposals,
                block |-> comet'.block, crashes |-> comet'.crashes]
  BY <1>4, <1>5
<1> QED BY <1>1, <1>2, <1>5, <1>6, <1>7, CometStep

(* commit writes the batch and recosts the mempool if the flag is set.     *)
LEMMA CommitInv ==
    ASSUME AppInv, Commit
    PROVE  AppInv'
<1>1. /\ comet = [round |-> comet.round, phase |-> comet.phase, proposals |-> comet.proposals,
                  block |-> comet.block, crashes |-> comet.crashes]
      /\ comet.crashes \in Nat /\ recostMempool \in BOOLEAN /\ mempoolFee \in Nat
  BY DEF AppInv, AppTypeOK
<1>2. /\ comet.phase = "finalized" /\ storage' = writeBatch[1] /\ writeBatch' = << >>
      /\ interBlockState' = Snapshot(storage') /\ executionState' = Unset
      /\ mempoolFee' = IF recostMempool THEN storage'.fee ELSE mempoolFee
      /\ comet' = [comet EXCEPT !.round = 0, !.phase = "rounds", !.block = << >>]
      /\ recostMempool' = recostMempool
  BY DEF Commit
<1>3. writeBatch # << >> /\ comet.proposals = {}
  BY <1>2 DEF AppInv, BatchOfDecided, BlocksFollow
<1>4. Chain(storage') /\ Enabling(storage') /\ storage'.fee \in Nat
  BY <1>2, <1>3 DEF AppInv, AppTypeOK, Successor, Chain, Chains
<1>5. recostMempool \/ storage'.fee = storage.fee
  BY <1>2, <1>3 DEF AppInv, RecostFlagged
<1>6. mempoolFee = storage.fee
  BY DEF AppInv, MempoolCostsCurrent
<1>7. mempoolFee' = storage'.fee
  BY <1>2, <1>5, <1>6
<1>8. comet' = [round |-> 0, phase |-> "rounds", proposals |-> comet.proposals, block |-> << >>,
                crashes |-> comet.crashes]
  BY <1>1, <1>2
<1>9. comet'.round = 0 /\ comet'.phase = "rounds" /\ comet'.block = << >>
      /\ comet'.proposals = {} /\ comet'.crashes = comet.crashes
  BY <1>3, <1>8
<1>10. comet' = [round |-> comet'.round, phase |-> comet'.phase, proposals |-> comet'.proposals,
                 block |-> comet'.block, crashes |-> comet'.crashes]
  BY <1>3, <1>8, <1>9
<1>11. Delta(interBlockState') /\ interBlockState'.chain = storage'
  BY <1>2, <1>4, SnapshotDelta
<1>12. executionState' = [tag |-> "Unset", block |-> << >>]
  BY <1>2 DEF Unset
<1>13. executionState'.tag = "Unset" /\ executionState'.block = << >>
  BY <1>12
<1>14. AppTypeOK'
  BY <1>1, <1>2, <1>4, <1>7, <1>9, <1>10, <1>11, <1>12, <1>13 DEF AppTypeOK
<1>15. BlocksFollow' /\ BatchOfDecided'
  BY <1>2, <1>9 DEF BlocksFollow, BatchOfDecided
<1>16. CacheIsOfBlock' /\ OwnProposalAccepted'
  BY <1>13 DEF CacheIsOfBlock, OwnProposalAccepted
<1>17. RecostFlagged' /\ MempoolCostsCurrent' /\ CachedEqualsReplayed'
  BY <1>2, <1>7, <1>11 DEF RecostFlagged, MempoolCostsCurrent, CachedEqualsReplayed
<1> QED BY <1>14, <1>15, <1>16, <1>17 DEF AppInv

(* The prices change neither the height nor the fees.                      *)
LEMMA PricedSuccessor ==
    ASSUME NEW c, Chain(c), NEW b, WellFormed(c, b), NEW s, Delta(s), Successor(c, s.chain)
    PROVE  LET a == ApplyPrices(s, b) IN
           Successor(c, a.chain) /\ a.chain.fee = s.chain.fee
<1> DEFINE a == ApplyPrices(s, b)
<1>1. b.height \in Nat
  BY DEF WellFormed, Chain, Chains
<1>2. Delta(a)
  BY <1>1, FrameTypes
<1>3. /\ a.chain.height = s.chain.height /\ a.chain.enableHeight = s.chain.enableHeight
      /\ a.chain.fee = s.chain.fee
  BY ApplyPricesForm
<1> HIDE DEF a
<1>4. Successor(c, a.chain)
  BY <1>2, <1>3 DEF Successor, Enabling, Delta
<1> QED BY <1>3, <1>4 DEF a

(* finalize_block uses the cached execution or makes its own.              *)
LEMMA FinalizeBlockInv ==
    ASSUME AppInv, FinalizeBlock
    PROVE  AppInv'
<1> DEFINE b == comet.block
           f == Finalized(b)
<1>1. /\ comet = [round |-> comet.round, phase |-> comet.phase, proposals |-> comet.proposals,
                  block |-> b, crashes |-> comet.crashes]
      /\ comet.round \in Nat /\ comet.crashes \in Nat /\ recostMempool \in BOOLEAN
      /\ Chain(storage) /\ Enabling(storage) /\ Delta(interBlockState) /\ mempoolFee \in Nat
      /\ executionState = [tag |-> executionState.tag, block |-> executionState.block]
  BY DEF AppInv, AppTypeOK
<1>2. /\ comet.phase = "decided" /\ CanFinalize(b)
      /\ writeBatch' = <<f.s.chain, f.s.post[1]>> /\ recostMempool' = f.recost
      /\ interBlockState' = Snapshot(storage)
      /\ executionState' = [tag |-> "ExecutedBlock", block |-> b]
      /\ comet' = [comet EXCEPT !.phase = "finalized"]
      /\ storage' = storage /\ mempoolFee' = mempoolFee
  BY DEF FinalizeBlock, ExecutedBlock
<1>3. WellFormed(storage, b) /\ PairsKnown(storage, b) /\ comet.proposals = {}
  BY <1>2 DEF AppInv, BlocksFollow
<1>4. /\ Successor(storage, f.s.chain) /\ f.recost \in BOOLEAN
      /\ f.recost \/ f.s.chain.fee = storage.fee
      /\ \/ PricesReadded(b)
         \/ LET r == Replayed(ApplyPrices(Snapshot(storage), b), b).s IN
            <<f.s.chain, f.s.post[1]>> = <<r.chain, r.post[1]>>
  <2>1. CASE SkipExecution(b)
    <3>1. executionState.tag = "ExecutedBlock" /\ executionState.block = b
      <4> DEFINE x == CASE executionState.tag \in {"Prepared", "PreparedValid"} ->
                             "CheckedPreparedMismatch"
                        [] executionState.tag = "ExecutedBlock" /\ executionState.block # b ->
                             "CheckedExecutedBlockMismatch"
                        [] OTHER -> executionState.tag
      <4>1. [executionState EXCEPT !.tag = x].tag = "ExecutedBlock"
        BY <2>1 DEF SkipExecution, CheckIfExecutedBlock
      <4>2. x = "ExecutedBlock"
        <5> HIDE DEF x
        <5> QED BY <1>1, <4>1
      <4> QED BY <4>2
    <3>2. interBlockState.post # << >>
      BY <1>2, <2>1 DEF CanFinalize
    <3>3. ExecutedState(storage, b, interBlockState)
      BY <3>1, <3>2 DEF AppInv, CacheIsOfBlock
    <3> DEFINE a == ApplyPrices(interBlockState, b)
    <3>4. f = [s |-> a, recost |-> recostMempool]
      BY <2>1 DEF Finalized
    <3>5. Successor(storage, interBlockState.chain)
      <4> DEFINE o == Outcome(storage, b).s
      <4>1. Delta(o) /\ o.chain.height = b.height /\ o.chain.enableHeight = storage.enableHeight
        BY <1>1, <1>3, OutcomeFacts
      <4> HIDE DEF o
      <4>2. Successor(storage, PostExecute(o, b, AllOk(b.txs)).chain)
        BY <1>1, <1>3, <4>1, BlockFacts
      <4> QED BY <3>3, <4>2 DEF ExecutedState, o
    <3>6. Successor(storage, a.chain) /\ a.chain.fee = interBlockState.chain.fee
      BY <1>1, <1>3, <3>5, PricedSuccessor
    <3>7. recostMempool \/ a.chain.fee = storage.fee
      BY <3>6 DEF AppInv, RecostFlagged
    <3>8. ASSUME ~PricesReadded(b)
          PROVE  LET r == Replayed(ApplyPrices(Snapshot(storage), b), b).s IN
                 a.chain = r.chain /\ a.post = r.post
      BY <1>1, <1>3, <3>3, <3>8, CachedIsReplayed
    <3> HIDE DEF f, a, b
    <3>9. f.s = a /\ f.recost = recostMempool
      BY <3>4
    <3>10. f.recost \/ f.s.chain.fee = storage.fee
      BY <3>7, <3>9, Zenon
    <3>11. ASSUME ~PricesReadded(b)
           PROVE  LET r == Replayed(ApplyPrices(Snapshot(storage), b), b).s IN
                  <<f.s.chain, f.s.post[1]>> = <<r.chain, r.post[1]>>
      BY <3>8, <3>9, <3>11
    <3> QED BY <1>1, <3>6, <3>9, <3>10, <3>11
  <2>2. CASE ~SkipExecution(b)
    <3>1. f = Replayed(ApplyPrices(Snapshot(storage), b), b)
      BY <2>2 DEF Finalized
    <3>2. /\ Successor(storage, f.s.chain) /\ f.recost \in BOOLEAN
          /\ f.recost \/ f.s.chain.fee = storage.fee
      BY <1>1, <1>3, <3>1, ReplayedFacts
    <3> HIDE DEF f
    <3> QED BY <3>1, <3>2
  <2> QED BY <2>1, <2>2
<1> DEFINE w == <<f.s.chain, f.s.post[1]>>
<1>5. writeBatch' # << >> /\ writeBatch'[1] = f.s.chain
      /\ writeBatch' = <<writeBatch'[1], writeBatch'[2]>>
  <2> DEFINE x == f.s.chain
             y == f.s.post[1]
  <2> HIDE DEF x, y
  <2>1. writeBatch' = <<x, y>>
    BY <1>2 DEF x, y
  <2>2. writeBatch'[1] = x /\ writeBatch'[2] = y /\ writeBatch' # << >>
    BY <2>1
  <2> QED BY <2>1, <2>2 DEF x
<1>6. /\ comet' = [round |-> comet.round, phase |-> "finalized", proposals |-> comet.proposals,
                   block |-> b, crashes |-> comet.crashes]
  BY <1>1, <1>2
<1> HIDE DEF f
<1>7. comet'.round = comet.round /\ comet'.phase = "finalized" /\ comet'.block = b
      /\ comet'.proposals = comet.proposals /\ comet'.crashes = comet.crashes
  BY <1>6
<1>8. comet' = [round |-> comet'.round, phase |-> comet'.phase, proposals |-> comet'.proposals,
                block |-> comet'.block, crashes |-> comet'.crashes]
  BY <1>6, <1>7
<1>9. Delta(interBlockState') /\ interBlockState'.chain = storage /\ interBlockState'.post = << >>
  BY <1>1, <1>2, SnapshotDelta
<1>10. executionState'.tag = "ExecutedBlock" /\ executionState'.block = b
  BY <1>2
<1>11. AppTypeOK'
  BY <1>1, <1>2, <1>4, <1>5, <1>7, <1>8, <1>9, <1>10 DEF AppTypeOK
<1>12. BlocksFollow' /\ BatchOfDecided'
  BY <1>2, <1>3, <1>5, <1>7 DEF BlocksFollow, BatchOfDecided
<1>13. CacheIsOfBlock' /\ OwnProposalAccepted'
  BY <1>9, <1>10 DEF CacheIsOfBlock, OwnProposalAccepted
<1>14. RecostFlagged'
  BY <1>2, <1>4, <1>5, <1>9 DEF RecostFlagged
<1>15. MempoolCostsCurrent'
  BY <1>2 DEF AppInv, MempoolCostsCurrent
<1>16. CachedEqualsReplayed'
  BY <1>2, <1>4, <1>7 DEF CachedEqualsReplayed
<1> QED BY <1>11, <1>12, <1>13, <1>14, <1>15, <1>16 DEF AppInv

(* Every step of the application keeps the invariant.                      *)
LEMMA AppInvStep == AppInv /\ [AppNext]_appVars => AppInv'
<1> SUFFICES ASSUME AppInv, [AppNext]_appVars PROVE AppInv'
  OBVIOUS
<1>1. ASSUME NEW r \in Requests, PrepareProposal(r) \/ ForeignProposal(r) PROVE AppInv'
  BY <1>1, PrepareProposalInv, ForeignProposalInv
<1>2. ASSUME NEW b \in comet.proposals, ProcessProposal(b) PROVE AppInv'
  BY <1>2, ProcessPreparedInv, ProcessAfreshInv, ProcessUnparsedInv DEF ProcessProposal
<1>3. ASSUME NEW b \in comet.proposals, Decide(b) PROVE AppInv'
  BY <1>3, DecideInv
<1>4. CASE FinalizeBlock
  BY <1>4, FinalizeBlockInv
<1>5. CASE Commit
  BY <1>5, CommitInv
<1>6. CASE Panic \/ Crash
  BY <1>6, CrashInv, PanicInv
<1>7. CASE CometRestart
  BY <1>7, CometRestartInv
<1>8. CASE UNCHANGED appVars
  BY <1>8 DEF appVars, AppInv, AppTypeOK, BlocksFollow, CacheIsOfBlock, RecostFlagged,
              BatchOfDecided, MempoolCostsCurrent, OwnProposalAccepted, CachedEqualsReplayed
<1> QED BY <1>1, <1>2, <1>3, <1>4, <1>5, <1>6, <1>7, <1>8 DEF AppNext

(* The application's state always is of the committed chain and of the     *)
(* block that the execution state machine names.                           *)
THEOREM AppInvariance == AppSpec => []AppInv
<1>1. AppInit => AppInv
  BY AppInitInv
<1>2. AppInv /\ [AppNext]_appVars => AppInv'
  BY AppInvStep
<1> QED BY <1>1, <1>2, PTL DEF AppSpec

(* The states of app/mod.rs are well typed: balances stay natural numbers, *)
(* vote extensions are enabled by the upgrade only, and what is written    *)
(* next is the state of the next height.                                   *)
THEOREM AppTypeCorrect == AppSpec => []AppTypeOK
<1>1. AppInv => AppTypeOK
  BY DEF AppInv
<1> QED BY <1>1, AppInvariance, PTL

(* The mempool has costed its transactions with the committed fees.        *)
THEOREM MempoolCostsCurrentHolds == AppSpec => []MempoolCostsCurrent
<1>1. AppInv => MempoolCostsCurrent
  BY DEF AppInv
<1> QED BY <1>1, AppInvariance, PTL

(* What prepare_proposal proposes, process_proposal accepts, if a block    *)
(* has room for the votes of all validators.                               *)
THEOREM OwnProposalAcceptedHolds ==
    ASSUME Cardinality(Validators) < MaxTxBytes
    PROVE  AppSpec => []OwnProposalAccepted
<1>1. AppInv => OwnProposalAccepted
  BY DEF AppInv
<1> QED BY <1>1, AppInvariance, PTL

(* The cached execution of a block gives what its replay gives.            *)
THEOREM CachedEqualsReplayedHolds == AppSpec => []CachedEqualsReplayed
<1>1. AppInv => CachedEqualsReplayed
  BY DEF AppInv
<1> QED BY <1>1, AppInvariance, PTL
=============================================================================
