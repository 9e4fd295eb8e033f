------------------------ MODULE TransportStoreProofs ------------------------
(***************************************************************************)
(* Proofs about TransportStore, for any number of threads, generations,    *)
(* resources, packets and limits.  The invariant ties four structures      *)
(* together: the slots and the stacks of free ones, the handles issued and *)
(* those that are dead, the carriers and who owns them, and what each      *)
(* thread holds between the two locked sections of its call.               *)
(***************************************************************************)
EXTENDS TransportStore, FiniteSetTheorems, SequenceTheorems, TLAPS

\* The provers each step is tried with in turn, and the time they have.
USE SMTT(30), ZenonT(20), Z3T(30)

-----------------------------------------------------------------------------
(* The ids that a shutdown pushes.                                          *)

\* The elements of a finite set of numbers can be listed in ascending order: the
\* number of elements up to an element is its place in the list.
LEMMA AscendingExists ==
    ASSUME NEW S \in SUBSET Nat, IsFiniteSet(S)
    PROVE  /\ Ascending(S) \in [1..Cardinality(S) -> S]
           /\ \A i, j \in 1..Cardinality(S) : i < j => Ascending(S)[i] < Ascending(S)[j]
  <1> DEFINE n == Cardinality(S)
             Below(x) == {y \in S : y <= x}
             rank == [x \in S |-> Cardinality(Below(x))]
  <1>1. n \in Nat
    BY FS_CardinalityType
  <1>2. \A x \in S : IsFiniteSet(Below(x)) /\ Cardinality(Below(x)) \in 1..n
    <2> SUFFICES ASSUME NEW x \in S
                 PROVE  IsFiniteSet(Below(x)) /\ Cardinality(Below(x)) \in 1..n
      OBVIOUS
    <2>1. Below(x) \in SUBSET S /\ x \in Below(x)
      OBVIOUS
    <2>2. IsFiniteSet(Below(x)) /\ Cardinality(Below(x)) <= n
      BY <2>1, FS_Subset
    <2>3. Cardinality(Below(x)) \in Nat /\ Cardinality(Below(x)) # 0
      BY <2>1, <2>2, FS_CardinalityType, FS_EmptySet
    <2> HIDE DEF Below, n
    <2> QED BY <1>1, <2>2, <2>3
  <1>3. \A x, y \in S : x < y => Cardinality(Below(x)) < Cardinality(Below(y))
    <2> SUFFICES ASSUME NEW x \in S, NEW y \in S, x < y
                 PROVE  Cardinality(Below(x)) < Cardinality(Below(y))
      OBVIOUS
    <2>1. Below(x) \in SUBSET Below(y) /\ Below(x) # Below(y)
      <3>1. x \in Nat /\ y \in Nat
        OBVIOUS
      <3>2. \A z \in S : z <= x => z <= y
        BY <3>1
      <3>3. y \in Below(y) /\ y \notin Below(x)
        BY <3>1
      <3>4. Below(x) \in SUBSET Below(y)
        BY <3>2, ZenonT(30)
      <3> HIDE DEF Below
      <3> QED BY <3>3, <3>4
    <2>2. IsFiniteSet(Below(y)) /\ Cardinality(Below(x)) \in Nat /\ Cardinality(Below(y)) \in Nat
      BY <1>1, <1>2
    <2> HIDE DEF Below
    <2>3. Cardinality(Below(x)) <= Cardinality(Below(y)) /\ Cardinality(Below(x)) # Cardinality(Below(y))
      BY <2>1, <2>2, FS_Subset
    <2> QED BY <2>2, <2>3
  <1>4. rank \in Surjection(S, 1..n)
    <2>1. rank \in [S -> 1..n]
      BY <1>2
    <2>2. \A x, y \in S : rank[x] = rank[y] => x = y
      <3> SUFFICES ASSUME NEW x \in S, NEW y \in S, x # y PROVE rank[x] # rank[y]
        OBVIOUS
      <3>1. x < y \/ y < x
        OBVIOUS
      <3>2. Cardinality(Below(x)) \in Nat /\ Cardinality(Below(y)) \in Nat
        BY <1>1, <1>2
      <3> HIDE DEF Below
      <3> QED BY <1>3, <3>1, <3>2
    <2> HIDE DEF rank
    <2>3. rank \in Injection(S, 1..n)
      BY <2>1, <2>2 DEF Injection, IsInjective
    <2>4. IsFiniteSet(1..n) /\ Cardinality(1..n) = n
      BY <1>1, FS_Interval
    <2> QED BY <2>3, <2>4, FS_Injection
  <1>5. \A p \in 1..n : \E x \in S : rank[x] = p
    BY <1>4, ZenonT(30) DEF Surjection
  <1> DEFINE s == [p \in 1..n |-> CHOOSE x \in S : rank[x] = p]
  <1>6. s \in [1..n -> S] /\ \A p \in 1..n : rank[s[p]] = p
    <2> HIDE DEF rank
    <2> QED BY <1>5
  <1>7. \A i, j \in DOMAIN s : i < j => s[i] < s[j]
    <2>1. \A p \in 1..n : s[p] \in S /\ Cardinality(Below(s[p])) = p
      BY <1>6, ZenonT(30)
    <2>2. \A x, y \in S : Cardinality(Below(x)) < Cardinality(Below(y)) => x < y
      <3> SUFFICES ASSUME NEW x \in S, NEW y \in S, ~(x < y)
                   PROVE  ~(Cardinality(Below(x)) < Cardinality(Below(y)))
        OBVIOUS
      <3>1. x = y \/ y < x
        OBVIOUS
      <3>2. Cardinality(Below(x)) \in Nat /\ Cardinality(Below(y)) \in Nat
        BY <1>1, <1>2
      <3> HIDE DEF Below
      <3> QED BY <1>3, <3>1, <3>2
    <2>3. DOMAIN s = 1..n
      OBVIOUS
    <2> HIDE DEF s, Below, rank
    <2> SUFFICES ASSUME NEW i \in 1..n, NEW j \in 1..n, i < j PROVE s[i] < s[j]
      BY <2>3
    <2>4. Cardinality(Below(s[i])) < Cardinality(Below(s[j]))
      BY <2>1
    <2> QED BY <2>1, <2>2, <2>4, ZenonT(30)
  <1> HIDE DEF s
  <1> DEFINE P(f) == \A i, j \in DOMAIN f : i < j => f[i] < f[j]
  <1>8. \E f \in [1..n -> S] : P(f)
    BY <1>6, <1>7, ZenonT(30)
  <1>9. Ascending(S) = CHOOSE f \in [1..n -> S] : P(f)
    BY DEF Ascending
  <1>10. Ascending(S) \in [1..n -> S] /\ P(Ascending(S))
    <2> HIDE DEF P, n
    <2> QED BY <1>8, <1>9
  <1> QED BY <1>10

-----------------------------------------------------------------------------
(* The inductive invariant.                                                 *)
Ids == 1..Cardinality(DOMAIN slots)

Contents ==
  {Empty} \cup [kind : {Connection, Listener}, n : Nat]
          \cup [kind : {SecurityConfig}, n : Nat, side : {c[1] : c \in Configs},
                transport : {c[2] : c \in Configs}]

Slots == [kind : Kinds, gen : 1..MaxGen, res : Contents, invalidated : BOOLEAN]

Carriers ==
  [kind : Kinds, pending : Seq(Nat), inbound : Seq(Nat), arrived : Nat, delivered : Seq(Nat),
   lossy : BOOLEAN, owners : Nat, security : {"plain", "tls"}, asked : BOOLEAN]

\* The ids are 1..n without a gap; every slot holds nothing or a resource of its
\* kind, and no two slots hold the same one.
SlotsOK ==
  /\ made \in Nat
  /\ Cardinality(DOMAIN slots) \in Nat
  /\ slots \in [Ids -> Slots]
  /\ \A i \in Ids : slots[i].res # Empty =>
       slots[i].res.kind = slots[i].kind /\ slots[i].res.n \in 1..made
  /\ \A i, j \in Ids : slots[i].res # Empty /\ slots[j].res # Empty /\ i # j =>
       slots[i].res.n # slots[j].res.n

\* A stack of released ids of a kind: every id once, its slot is of that kind, holds
\* nothing and has a generation left.
Stack(ids, kind, all) ==
  /\ ids \in Seq(Nat)
  /\ \A i, j \in 1..Len(ids) : ids[i] = ids[j] => i = j
  /\ \A i \in 1..Len(ids) :
       /\ ids[i] \in DOMAIN all
       /\ all[ids[i]].kind = kind
       /\ all[ids[i]].res = Empty
       /\ all[ids[i]].gen < MaxGen

FreeOK ==
  /\ reusable \in [Kinds -> Seq(Nat)]
  /\ \A k \in Kinds : Stack(reusable[k], k, slots)

\* A handle is issued for a slot's generation, never for a later one; a slot that
\* holds a resource was issued for it; dead are exactly the handles of earlier
\* generations and of released slots.
HandlesOK ==
  /\ given = [h \in DOMAIN given |-> given[h]]
  /\ \A h \in DOMAIN given :
       /\ h = Handle(h.kind, h.id, h.gen)
       /\ h.id \in Ids /\ slots[h.id].kind = h.kind
       /\ h.gen \in 1..slots[h.id].gen
       /\ h.gen = slots[h.id].gen /\ slots[h.id].res # Empty => given[h] = slots[h.id].res.n
  /\ dead = {h \in DOMAIN given : h.gen # slots[h.id].gen \/ slots[h.id].res = Empty}

StoreInv == SlotsOK /\ FreeOK /\ HandlesOK

\* Packets in the order of their arrival, and complete unless a read dropped some.
Ordered(all, arrived, lossy) ==
  /\ \A i, j \in 1..Len(all) : i < j => all[i] < all[j]
  /\ \A i \in 1..Len(all) : all[i] <= arrived
  /\ ~lossy => Len(all) = arrived

\* So are the packets of a carrier, delivered or not.
InOrder(c) == Ordered(c.delivered \o Queue(c), c.arrived, c.lossy)

\* Every carrier was made, is secure as asked and has its packets in order.
CarriersOK ==
  /\ DOMAIN carrier \subseteq 1..made
  /\ carrier \in [DOMAIN carrier -> Carriers]
  /\ \A n \in DOMAIN carrier : carrier[n].asked <=> carrier[n].security = "tls"
  /\ \A n \in DOMAIN carrier : InOrder(carrier[n])

\* A connection or listener that the store holds has no owner yet; one that it
\* gave away has at most one.
OwnersOK ==
  /\ \A n \in DOMAIN carrier : carrier[n].owners <= 1
  /\ \A i \in Ids : slots[i].res # Empty /\ slots[i].kind # SecurityConfig =>
       slots[i].res.n \in DOMAIN carrier /\ carrier[slots[i].res.n].owners = 0

\* What a call remembers from its first step holds at its second: the listener it
\* accepts from was opened, the handle it consumes was issued for its carrier.
CallOK(c, issued, opened) ==
  \/ c = Idle
  \/ c.op \in {"connect", "listen"}
  \/ c.op = "accept" /\ c.n \in opened
  \/ /\ c.op = "role"
     /\ c.handle \in DOMAIN issued
     /\ c.handle.kind # SecurityConfig
     /\ c.n = issued[c.handle]

CallsOK ==
  /\ calls = [t \in Threads |-> calls[t]]
  /\ \A t \in Threads : CallOK(calls[t], given, DOMAIN carrier)

IInv == StoreInv /\ CarriersOK /\ OwnersOK /\ CallsOK

-----------------------------------------------------------------------------
(* The store: insert, close and invalidate_all.                              *)

\* The slot and the generation that insert takes: a released slot of the kind, one
\* generation on, or a new slot.
Fresh(kind, id, gen) ==
  \/ id \in Ids /\ slots[id].kind = kind /\ slots[id].res = Empty /\ gen = slots[id].gen + 1
  \/ id = Cardinality(DOMAIN slots) + 1 /\ gen = 1

\* The stacks of released ids, but for one id that is no longer offered.
Offered(stacks, id) ==
  /\ stacks \in [Kinds -> Seq(Nat)]
  /\ \A k \in Kinds :
       Stack(stacks[k], k, slots) /\ \A i \in 1..Len(stacks[k]) : stacks[k][i] # id

\* A stack stays one when its slots are only invalidated, or others change.
LEMMA StackKept ==
    ASSUME NEW ids, NEW kind, NEW all, NEW new, Stack(ids, kind, all),
           \A i \in 1..Len(ids) :
             /\ ids[i] \in DOMAIN new
             /\ new[ids[i]].kind = all[ids[i]].kind
             /\ new[ids[i]].gen = all[ids[i]].gen
             /\ new[ids[i]].res = Empty
    PROVE  Stack(ids, kind, new)
  BY DEF Stack

\* An interval determines its end.
LEMMA SameInterval ==
    ASSUME NEW a \in Nat, NEW b \in Nat, 1..a = 1..b
    PROVE  a = b
  <1>1. CASE a < b
    <2>1. b \in 1..b /\ b \notin 1..a
      BY <1>1
    <2> QED BY <2>1
  <1>2. CASE b < a
    <2>1. a \in 1..a /\ a \notin 1..b
      BY <1>2
    <2> QED BY <2>1
  <1> QED BY <1>1, <1>2

\* Two stacks without a common id are one.
LEMMA StackConcat ==
    ASSUME NEW s, NEW t, NEW kind, NEW all, Stack(s, kind, all), Stack(t, kind, all),
           \A i \in 1..Len(s), j \in 1..Len(t) : s[i] # t[j]
    PROVE  Stack(s \o t, kind, all)
  <1> DEFINE u == s \o t
  <1>1. s \in Seq(Nat) /\ t \in Seq(Nat) /\ Len(s) \in Nat /\ Len(t) \in Nat
    BY DEF Stack
  <1>2. /\ u \in Seq(Nat) /\ Len(u) = Len(s) + Len(t)
        /\ \A i \in 1..Len(u) : u[i] = IF i <= Len(s) THEN s[i] ELSE t[i - Len(s)]
    BY <1>1
  <1> HIDE DEF u
  <1>3. ASSUME NEW i \in 1..Len(u)
        PROVE  \/ i \in 1..Len(s) /\ u[i] = s[i]
               \/ i - Len(s) \in 1..Len(t) /\ u[i] = t[i - Len(s)]
    BY <1>1, <1>2
  <1>4. ASSUME NEW i \in 1..Len(u), NEW j \in 1..Len(u), u[i] = u[j]
        PROVE  i = j
    <2>1. CASE i \in 1..Len(s) /\ u[i] = s[i] /\ j \in 1..Len(s) /\ u[j] = s[j]
      BY <1>4, <2>1, ZenonT(30) DEF Stack
    <2>2. CASE /\ i - Len(s) \in 1..Len(t) /\ u[i] = t[i - Len(s)]
               /\ j - Len(s) \in 1..Len(t) /\ u[j] = t[j - Len(s)]
      <3>1. i - Len(s) = j - Len(s)
        BY <1>4, <2>2, ZenonT(30) DEF Stack
      <3> QED BY <1>1, <1>2, <3>1
    <2> QED BY <1>3, <1>4, <2>1, <2>2
  <1>5. ASSUME NEW i \in 1..Len(u)
        PROVE  /\ u[i] \in DOMAIN all
               /\ all[u[i]].kind = kind
               /\ all[u[i]].res = Empty
               /\ all[u[i]].gen < MaxGen
    <2>1. CASE i \in 1..Len(s) /\ u[i] = s[i]
      BY <2>1 DEF Stack
    <2>2. CASE i - Len(s) \in 1..Len(t) /\ u[i] = t[i - Len(s)]
      BY <2>2 DEF Stack
    <2> QED BY <1>3, <2>1, <2>2
  <1>6. Stack(u, kind, all)
    BY <1>2, <1>4, <1>5 DEF Stack
  <1> QED BY <1>6 DEF u

\* What popping the last id leaves of a stack.
LEMMA PopFacts ==
    ASSUME NEW S, NEW s \in Seq(S), s # <<>>
    PROVE  /\ SubSeq(s, 1, Len(s) - 1) \in Seq(S)
           /\ Len(SubSeq(s, 1, Len(s) - 1)) = Len(s) - 1
           /\ \A i \in 1..(Len(s) - 1) : SubSeq(s, 1, Len(s) - 1)[i] = s[i]
  <1> DEFINE n == Len(s) - 1
  <1>1. Len(s) \in Nat /\ Len(s) # 0
    OBVIOUS
  <1>2. n \in Nat /\ \A i \in 1..n : i \in 1..Len(s)
    BY <1>1
  <1>3. \A i \in 1..n : s[i] \in S
    BY <1>2
  <1> HIDE DEF n
  <1>4. /\ SubSeq(s, 1, n) \in Seq(S)
        /\ Len(SubSeq(s, 1, n)) = IF 1 <= n THEN n - 1 + 1 ELSE 0
        /\ \A i \in 1..(n - 1 + 1) : SubSeq(s, 1, n)[i] = s[1 + i - 1]
    BY <1>2, <1>3, SubSeqProperties
  <1>5. /\ Len(SubSeq(s, 1, n)) = n
        /\ \A i \in 1..n : SubSeq(s, 1, n)[i] = s[i]
    BY <1>2, <1>4
  <1> QED BY <1>4, <1>5 DEF n

\* What insert returns when the resource goes to generation gen of slot id.
Inserted(kind, res, id, gen) ==
    /\ Fresh(kind, id, gen)
    /\ Offered(insert(store, kind, res).reusable, id)
    /\ insert(store, kind, res).handle = Handle(kind, id, gen)
    /\ insert(store, kind, res).slots =
         [i \in DOMAIN slots \cup {id} |-> IF i = id THEN NewSlot(gen, kind, res) ELSE slots[i]]

\* TransportStore::insert takes the last id of the kind's stack, or a new one.
LEMMA InsertTakesFresh ==
    ASSUME StoreInv, NEW kind \in Kinds, NEW res
    PROVE  \E id \in Nat \ {0}, gen \in 1..MaxGen : Inserted(kind, res, id, gen)
  <1> DEFINE free == reusable[kind]
             r == insert(store, kind, res)
  <1>1. free \in Seq(Nat) /\ Cardinality(DOMAIN slots) \in Nat
    BY DEF StoreInv, SlotsOK, FreeOK
  <1>2. store.slots = slots /\ store.reusable = reusable
    BY DEF store
  <1>3. CASE free = <<>>
    <2> DEFINE id == Cardinality(DOMAIN slots) + 1
    <2>1. /\ r.handle = Handle(kind, id, 1)
          /\ r.slots = [i \in DOMAIN slots \cup {id} |->
                          IF i = id THEN NewSlot(1, kind, res) ELSE slots[i]]
          /\ r.reusable = reusable
      BY <1>2, <1>3 DEF insert
    <2>2. Fresh(kind, id, 1)
      BY DEF Fresh
    <2>3. Offered(reusable, id)
      <3>1. \A i \in Ids : i # id
        BY <1>1 DEF Ids
      <3> HIDE DEF id
      <3>2. \A k \in Kinds : \A i \in 1..Len(reusable[k]) : reusable[k][i] \in Ids
        BY DEF StoreInv, SlotsOK, FreeOK, Stack
      <3> QED BY <3>1, <3>2 DEF StoreInv, FreeOK, Offered
    <2>4. id \in Nat \ {0} /\ 1 \in 1..MaxGen
      BY <1>1, GenerationAssumption
    <2> HIDE DEF id
    <2>5. Inserted(kind, res, id, 1)
      BY <2>1, <2>2, <2>3, ZenonT(30) DEF Inserted
    <2> QED BY <2>4, <2>5, ZenonT(30)
  <1>4. CASE free # <<>>
    <2> DEFINE id == free[Len(free)]
               gen == slots[id].gen + 1
    <2>1. Len(free) \in Nat /\ Len(free) # 0 /\ Len(free) \in 1..Len(free)
      BY <1>1, <1>4
    <2>2. /\ id \in Ids /\ slots[id].kind = kind /\ slots[id].res = Empty
          /\ slots[id].gen < MaxGen
      BY <2>1 DEF StoreInv, SlotsOK, FreeOK, Stack
    <2>3. gen \in 1..MaxGen
      <3>1. slots[id].gen \in 1..MaxGen
        BY <2>2 DEF StoreInv, SlotsOK, Slots
      <3> HIDE DEF id
      <3> QED BY <2>2, <3>1, GenerationAssumption
    <2>4. /\ r.handle = Handle(kind, id, gen)
          /\ r.slots = [i \in DOMAIN slots \cup {id} |->
                          IF i = id THEN NewSlot(gen, kind, res) ELSE slots[i]]
          /\ r.reusable = [reusable EXCEPT ![kind] = SubSeq(free, 1, Len(free) - 1)]
      BY <1>2, <1>4 DEF insert
    <2>5. /\ SubSeq(free, 1, Len(free) - 1) \in Seq(Nat)
          /\ Len(SubSeq(free, 1, Len(free) - 1)) = Len(free) - 1
          /\ \A i \in 1..(Len(free) - 1) : SubSeq(free, 1, Len(free) - 1)[i] = free[i]
      BY <1>1, <1>4, PopFacts
    <2>6. Offered([reusable EXCEPT ![kind] = SubSeq(free, 1, Len(free) - 1)], id)
      <3> DEFINE stacks == [reusable EXCEPT ![kind] = SubSeq(free, 1, Len(free) - 1)]
      <3>1. /\ reusable \in [Kinds -> Seq(Nat)]
            /\ \A k \in Kinds : k # kind => stacks[k] = reusable[k]
            /\ stacks[kind] = SubSeq(free, 1, Len(free) - 1)
            /\ stacks \in [Kinds -> Seq(Nat)]
        BY <2>5 DEF StoreInv, FreeOK
      <3>2. ASSUME NEW k \in Kinds, k # kind
            PROVE  Stack(stacks[k], k, slots) /\ \A i \in 1..Len(stacks[k]) : stacks[k][i] # id
        <4>1. Stack(reusable[k], k, slots)
          BY DEF StoreInv, FreeOK
        <4>2. \A i \in 1..Len(reusable[k]) : reusable[k][i] # id
          BY <2>2, <3>2, <4>1 DEF Stack
        <4> QED BY <3>1, <3>2, <4>1, <4>2
      <3>3. Stack(SubSeq(free, 1, Len(free) - 1), kind, slots) /\ \A i \in 1..Len(SubSeq(free, 1, Len(free) - 1)) : SubSeq(free, 1, Len(free) - 1)[i] # id
        <4>1. Stack(free, kind, slots)
          BY DEF StoreInv, FreeOK
        <4>2. \A i \in 1..Len(SubSeq(free, 1, Len(free) - 1)) :
                i \in 1..Len(free) /\ i # Len(free) /\ SubSeq(free, 1, Len(free) - 1)[i] = free[i]
          BY <2>1, <2>5
        <4>3. id = free[Len(free)] /\ Len(free) \in 1..Len(free)
          BY <2>1
        <4> HIDE DEF free, id, gen, r, stacks
        <4>4. \A i, j \in 1..Len(SubSeq(free, 1, Len(free) - 1)) : SubSeq(free, 1, Len(free) - 1)[i] = SubSeq(free, 1, Len(free) - 1)[j] => i = j
          BY <4>1, <4>2 DEF Stack
        <4>5. \A i \in 1..Len(SubSeq(free, 1, Len(free) - 1)) :
                /\ SubSeq(free, 1, Len(free) - 1)[i] \in DOMAIN slots
                /\ slots[SubSeq(free, 1, Len(free) - 1)[i]].kind = kind
                /\ slots[SubSeq(free, 1, Len(free) - 1)[i]].res = Empty
                /\ slots[SubSeq(free, 1, Len(free) - 1)[i]].gen < MaxGen
          BY <4>1, <4>2 DEF Stack
        <4>6. \A i \in 1..Len(SubSeq(free, 1, Len(free) - 1)) : SubSeq(free, 1, Len(free) - 1)[i] # id
          BY <4>1, <4>2, <4>3 DEF Stack
        <4> QED BY <2>5, <4>4, <4>5, <4>6 DEF Stack
      <3> HIDE DEF stacks, id
      <3>4. Offered(stacks, id)
        BY <3>1, <3>2, <3>3, ZenonT(30) DEF Offered
      <3> QED BY <3>4 DEF stacks
    <2>7. Fresh(kind, id, gen)
      BY <2>2 DEF Fresh
    <2>8. id \in Nat \ {0}
      BY <1>1, <2>2 DEF Ids
    <2> HIDE DEF id, gen
    <2>9. Inserted(kind, res, id, gen)
      BY <2>4, <2>6, <2>7, ZenonT(30) DEF Inserted
    <2> QED BY <2>3, <2>8, <2>9, ZenonT(30)
  <1> QED BY <1>3, <1>4, ZenonT(30)

\* Storing a new resource keeps the store's invariant: its handle was never issued,
\* and the earlier handles of its slot were dead already.
LEMMA IssueKeepsStore ==
    ASSUME StoreInv, NEW kind \in Kinds, NEW res \in Contents,
           res # Empty, res.kind = kind, res.n = made + 1,
           Issue(kind, res), dead' = dead
    PROVE  /\ StoreInv'
           /\ made' = made + 1
           /\ \A h \in DOMAIN given : h \in DOMAIN given' /\ given'[h] = given[h]
           /\ \A i \in Ids' : slots'[i].res = res \/ (i \in Ids /\ slots'[i] = slots[i])
  <1>1. PICK id \in Nat \ {0}, gen \in 1..MaxGen : Inserted(kind, res, id, gen)
    BY InsertTakesFresh, ZenonT(30)
  <1> DEFINE new == NewSlot(gen, kind, res)
             hn == Handle(kind, id, gen)
             N == Cardinality(DOMAIN slots)
  <1>2. /\ slots' = [i \in DOMAIN slots \cup {id} |-> IF i = id THEN new ELSE slots[i]]
        /\ Offered(reusable', id)
        /\ made' = made + 1
        /\ given' = IF hn \in DOMAIN given THEN given
                    ELSE [h \in DOMAIN given \cup {hn} |-> IF h = hn THEN res.n ELSE given[h]]
    BY <1>1 DEF Issue, Inserted
  <1>3. N \in Nat /\ DOMAIN slots = 1..N /\ Ids = 1..N /\ made \in Nat
    BY DEF StoreInv, SlotsOK, Ids
  <1>4. /\ Cardinality(DOMAIN slots') \in Nat
        /\ DOMAIN slots' = Ids'
        /\ Ids' = Ids \cup {id}
    <2>0. DOMAIN slots' = 1..N \cup {id}
      BY <1>2, <1>3
    <2>1. CASE id \in Ids
      <3>1. DOMAIN slots' = 1..N
        BY <1>3, <2>0, <2>1
      <3>2. Cardinality(DOMAIN slots') = N
        BY <1>3, <3>1
      <3> QED BY <1>3, <2>0, <3>1, <3>2, ZenonT(30) DEF Ids
    <2>2. CASE id = N + 1
      <3>1. DOMAIN slots' = 1..(N + 1)
        BY <1>3, <2>0, <2>2
      <3>2. Cardinality(1..(N + 1)) = N + 1
        <4>1. N + 1 \in Int /\ 1 \in Int /\ 1 <= N + 1 /\ (N + 1) - 1 + 1 = N + 1
          BY <1>3
        <4> HIDE DEF N
        <4>2. Cardinality(1..(N + 1)) = IF 1 > N + 1 THEN 0 ELSE (N + 1) - 1 + 1
          BY <4>1, FS_Interval
        <4> QED BY <1>3, <4>2
      <3>3. Ids' = 1..(N + 1)
        BY <3>1, <3>2 DEF Ids
      <3> HIDE DEF N
      <3>4. 1..(N + 1) = 1..N \cup {N + 1} /\ N + 1 \in Nat
        BY <1>3
      <3> QED BY <1>3, <2>2, <3>1, <3>2, <3>3, <3>4
    <2> QED BY <1>1, <2>1, <2>2 DEF Inserted, Fresh
  <1>5. /\ \A i \in Ids' : i # id => i \in Ids /\ slots'[i] = slots[i]
        /\ id \in Ids' /\ slots'[id] = new
    BY <1>2, <1>3, <1>4
  <1>6. new \in Slots /\ new.kind = kind /\ new.gen = gen /\ new.res = res
    BY DEF NewSlot, Slots
  <1>8. id \in Ids => slots[id].kind = kind /\ slots[id].res = Empty /\ gen = slots[id].gen + 1
    BY <1>1, <1>3 DEF Inserted, Fresh
  <1> HIDE DEF new, N
  <1>9. SlotsOK'
    <2>1. slots' \in [Ids' -> Slots]
      BY <1>2, <1>4, <1>5, <1>6 DEF StoreInv, SlotsOK
    <2>2. ASSUME NEW i \in Ids', slots'[i].res # Empty
          PROVE  slots'[i].res.kind = slots'[i].kind /\ slots'[i].res.n \in 1..made'
      <3>1. CASE i = id
        BY <1>2, <1>3, <1>5, <1>6, <3>1
      <3>2. CASE i # id
        <4>1. i \in Ids /\ slots'[i] = slots[i] /\ slots[i].res # Empty
          BY <1>5, <2>2, <3>2
        <4>2. slots[i].res.kind = slots[i].kind /\ slots[i].res.n \in 1..made
          BY <4>1 DEF StoreInv, SlotsOK
        <4> QED BY <1>2, <1>3, <4>1, <4>2
      <3> QED BY <3>1, <3>2
    <2>3. ASSUME NEW i \in Ids', NEW j \in Ids', slots'[i].res # Empty, slots'[j].res # Empty, i # j
          PROVE  slots'[i].res.n # slots'[j].res.n
      <3>1. \A m \in Ids : slots[m].res # Empty => slots[m].res.n # made + 1
        BY <1>3 DEF StoreInv, SlotsOK
      <3> QED BY <1>5, <1>6, <2>3, <3>1 DEF StoreInv, SlotsOK
    <2>4. made' \in Nat
      BY <1>2, <1>3
    <2> QED BY <1>4, <2>1, <2>2, <2>3, <2>4 DEF SlotsOK
  <1>10. FreeOK'
    <2>1. ASSUME NEW k \in Kinds PROVE Stack(reusable'[k], k, slots')
      <3>1. Stack(reusable'[k], k, slots) /\ \A i \in 1..Len(reusable'[k]) : reusable'[k][i] # id
        BY <1>2 DEF Offered
      <3>2. \A i \in DOMAIN slots : i # id => i \in DOMAIN slots' /\ slots'[i] = slots[i]
        BY <1>2
      <3> QED BY <3>1, <3>2 DEF Stack
    <2> QED BY <1>2, <2>1, ZenonT(30) DEF FreeOK, Offered
  <1>11. hn.kind = kind /\ hn.id = id /\ hn.gen = gen /\ hn = Handle(hn.kind, hn.id, hn.gen)
    BY DEF Handle
  <1>12. \A h \in DOMAIN given : h.id = id => id \in Ids /\ h.gen # gen /\ h.gen \in 1..gen
    <2> SUFFICES ASSUME NEW h \in DOMAIN given, h.id = id
                 PROVE  id \in Ids /\ h.gen # gen /\ h.gen \in 1..gen
      OBVIOUS
    <2>1. id \in Ids /\ h.gen \in 1..slots[id].gen
      BY DEF StoreInv, HandlesOK
    <2>2. slots[id].gen \in Nat
      BY <2>1 DEF StoreInv, SlotsOK, Slots
    <2> QED BY <1>8, <2>1, <2>2
  <1>13. hn \notin DOMAIN given
    BY <1>11, <1>12
  <1>14. /\ DOMAIN given' = DOMAIN given \cup {hn}
         /\ given' = [h \in DOMAIN given' |-> given'[h]]
         /\ given'[hn] = res.n
         /\ \A h \in DOMAIN given : h \in DOMAIN given' /\ given'[h] = given[h]
    <2> HIDE DEF hn
    <2> QED BY <1>2, <1>13
  <1> HIDE DEF hn
  <1>15. HandlesOK'
    <2>1. ASSUME NEW h \in DOMAIN given
          PROVE  /\ h = Handle(h.kind, h.id, h.gen)
                 /\ h.id \in Ids' /\ slots'[h.id].kind = h.kind
                 /\ h.gen \in 1..slots'[h.id].gen
                 /\ h.gen = slots'[h.id].gen /\ slots'[h.id].res # Empty =>
                      given'[h] = slots'[h.id].res.n
                 /\ h \in dead <=> (h.gen # slots'[h.id].gen \/ slots'[h.id].res = Empty)
      <3>1. /\ h = Handle(h.kind, h.id, h.gen)
            /\ h.id \in Ids /\ slots[h.id].kind = h.kind
            /\ h.gen \in 1..slots[h.id].gen
            /\ h.gen = slots[h.id].gen /\ slots[h.id].res # Empty => given[h] = slots[h.id].res.n
            /\ h \in dead <=> (h.gen # slots[h.id].gen \/ slots[h.id].res = Empty)
        BY DEF StoreInv, HandlesOK
      <3>2. CASE h.id = id
        BY <1>5, <1>6, <1>8, <1>12, <3>1, <3>2
      <3>3. CASE h.id # id
        BY <1>4, <1>5, <1>14, <3>1, <3>3
      <3> QED BY <3>2, <3>3
    <2>2. /\ hn = Handle(hn.kind, hn.id, hn.gen)
          /\ hn.id \in Ids' /\ slots'[hn.id].kind = hn.kind
          /\ hn.gen \in 1..slots'[hn.id].gen
          /\ given'[hn] = slots'[hn.id].res.n
          /\ ~(hn.gen # slots'[hn.id].gen \/ slots'[hn.id].res = Empty)
      BY <1>5, <1>6, <1>11, <1>14
    <2>3. dead \subseteq DOMAIN given
      BY DEF StoreInv, HandlesOK
    <2>4. dead' = {h \in DOMAIN given' : h.gen # slots'[h.id].gen \/ slots'[h.id].res = Empty}
      BY <1>13, <1>14, <2>1, <2>2, <2>3
    <2> QED BY <1>14, <2>1, <2>2, <2>4 DEF HandlesOK
  <1> QED BY <1>2, <1>5, <1>6, <1>9, <1>10, <1>14, <1>15, ZenonT(30) DEF StoreInv

\* TransportStore::close releases the slot of a current handle and offers it once:
\* a slot that was released before is not offered again.
LEMMA CloseKeepsStore ==
    ASSUME StoreInv, NEW h \in DOMAIN given, CanClose(store, h),
           slots' = close(store, h).slots, reusable' = close(store, h).reusable,
           dead' = dead \cup {h}, UNCHANGED <<made, given>>
    PROVE  /\ StoreInv'
           /\ Ids' = Ids
           /\ slots'[h.id].res = Empty
           /\ \A i \in Ids : i # h.id => slots'[i] = slots[i]
  <1> DEFINE id == h.id
             held == slots[id].res # Empty /\ slots[id].gen < MaxGen
  <1>1. store.slots = slots /\ store.reusable = reusable
    BY DEF store
  <1>2. /\ id \in Ids /\ slots[id].kind = h.kind /\ slots[id].gen = h.gen
        /\ h = Handle(h.kind, h.id, h.gen) /\ h.kind \in Kinds
    <2>1. id \in Ids /\ slots[id].kind = h.kind /\ h = Handle(h.kind, h.id, h.gen)
      BY DEF StoreInv, HandlesOK
    <2>2. slots[id].gen = h.gen
      BY <1>1 DEF CanClose
    <2>3. slots[id].kind \in Kinds
      BY <2>1 DEF StoreInv, SlotsOK, Slots
    <2> QED BY <2>1, <2>2, <2>3
  <1>3. slots \in [Ids -> Slots] /\ DOMAIN slots = Ids
    BY DEF StoreInv, SlotsOK
  <1>4. slots' = [slots EXCEPT ![id] = [slots[id] EXCEPT !.res = Empty]]
    BY <1>1 DEF close
  <1>5. /\ slots' \in [Ids -> Slots]
        /\ slots'[id].kind = h.kind /\ slots'[id].gen = h.gen /\ slots'[id].res = Empty
        /\ \A i \in Ids : i # id => slots'[i] = slots[i]
    <2>1. slots[id] \in Slots
      BY <1>2, <1>3
    <2>2. /\ [slots[id] EXCEPT !.res = Empty] \in Slots
          /\ [slots[id] EXCEPT !.res = Empty].kind = slots[id].kind
          /\ [slots[id] EXCEPT !.res = Empty].gen = slots[id].gen
          /\ [slots[id] EXCEPT !.res = Empty].res = Empty
      BY <2>1 DEF Slots, Contents
    <2> QED BY <1>2, <1>3, <1>4, <2>2
  <1>6. DOMAIN slots' = DOMAIN slots /\ Ids' = Ids
    BY <1>3, <1>5 DEF Ids
  <1>7. SlotsOK'
    BY <1>3, <1>5, <1>6 DEF StoreInv, SlotsOK
  <1>8. FreeOK'
    <2> DEFINE k0 == h.kind
    <2>1. reusable' = IF held THEN [reusable EXCEPT ![k0] = Append(reusable[k0], id)] ELSE reusable
      BY <1>1 DEF close
    <2>2. reusable \in [Kinds -> Seq(Nat)] /\ \A k \in Kinds : Stack(reusable[k], k, slots)
      BY DEF StoreInv, FreeOK
    <2>3. ASSUME NEW k \in Kinds PROVE Stack(reusable[k], k, slots')
      <3>1. \A i \in DOMAIN slots :
              /\ i \in DOMAIN slots' /\ slots'[i].kind = slots[i].kind /\ slots'[i].gen = slots[i].gen
              /\ slots[i].res = Empty => slots'[i].res = Empty
        BY <1>2, <1>3, <1>5
      <3> QED BY <2>2, <3>1 DEF Stack
    <2>4. id \in Nat
      BY <1>2 DEF StoreInv, SlotsOK, Ids
    <2>5. CASE ~held
      BY <2>1, <2>2, <2>3, <2>5 DEF FreeOK
    <2>6. CASE held
      <3>1. reusable' = [reusable EXCEPT ![k0] = Append(reusable[k0], id)]
        BY <2>1, <2>6
      <3>2. Append(reusable[k0], id) = reusable[k0] \o <<id>>
        BY <1>2, <2>2, <2>4, AppendIsConcat
      <3>3. Stack(<<id>>, k0, slots')
        <4>1. id \in DOMAIN slots'
          BY <1>2, <1>5
        <4>2. <<id>> \in Seq(Nat) /\ Len(<<id>>) = 1 /\ <<id>>[1] = id
          BY <2>4
        <4>3. \A i \in 1..1 : i = 1
          OBVIOUS
        <4> HIDE DEF k0
        <4> QED BY <1>2, <1>5, <2>6, <4>1, <4>2, <4>3 DEF Stack, k0
      <3>4. \A i \in 1..Len(reusable[k0]), j \in 1..Len(<<id>>) : reusable[k0][i] # <<id>>[j]
        <4>1. \A i \in 1..Len(reusable[k0]) : slots[reusable[k0][i]].res = Empty
          BY <1>2, <2>2 DEF Stack
        <4> QED BY <2>6, <4>1
      <3>5. Stack(reusable[k0] \o <<id>>, k0, slots')
        <4> HIDE DEF k0, id
        <4>1. k0 \in Kinds
          BY <1>2 DEF k0
        <4>2. Stack(reusable[k0], k0, slots')
          BY <2>3, <4>1
        <4> QED BY <3>3, <3>4, <4>2, StackConcat
      <3>6. reusable[k0] \o <<id>> \in Seq(Nat)
        BY <3>5, ZenonT(30) DEF Stack
      <3> HIDE DEF id, held, k0
      <3>7. /\ reusable' \in [Kinds -> Seq(Nat)]
            /\ \A k \in Kinds : reusable'[k] = IF k = k0 THEN reusable[k0] \o <<id>> ELSE reusable[k]
        BY <2>2, <3>1, <3>2, <3>6, ZenonT(30)
      <3> QED BY <2>3, <3>5, <3>7 DEF FreeOK
    <2> QED BY <2>5, <2>6
  <1>9. HandlesOK'
    <2>1. ASSUME NEW g \in DOMAIN given
          PROVE  /\ g = Handle(g.kind, g.id, g.gen)
                 /\ g.id \in Ids' /\ slots'[g.id].kind = g.kind
                 /\ g.gen \in 1..slots'[g.id].gen
                 /\ g.gen = slots'[g.id].gen /\ slots'[g.id].res # Empty =>
                      given[g] = slots'[g.id].res.n
                 /\ g \in dead' <=> (g.gen # slots'[g.id].gen \/ slots'[g.id].res = Empty)
      <3>1. /\ g = Handle(g.kind, g.id, g.gen)
            /\ g.id \in Ids /\ slots[g.id].kind = g.kind
            /\ g.gen \in 1..slots[g.id].gen
            /\ g.gen = slots[g.id].gen /\ slots[g.id].res # Empty => given[g] = slots[g.id].res.n
            /\ g \in dead <=> (g.gen # slots[g.id].gen \/ slots[g.id].res = Empty)
        BY DEF StoreInv, HandlesOK
      <3>2. CASE g.id = id
        <4>1. slots'[g.id].kind = slots[g.id].kind /\ slots'[g.id].gen = slots[g.id].gen
              /\ slots'[g.id].res = Empty
          BY <1>2, <1>5, <3>2
        <4>2. g.gen = slots[g.id].gen => g = h
          BY <1>2, <3>1, <3>2
        <4> QED BY <1>6, <3>1, <4>1, <4>2
      <3>3. CASE g.id # id
        BY <1>5, <1>6, <3>1, <3>3
      <3> QED BY <3>2, <3>3
    <2>2. dead' \subseteq DOMAIN given
      BY DEF StoreInv, HandlesOK
    <2>3. dead' = {g \in DOMAIN given : g.gen # slots'[g.id].gen \/ slots'[g.id].res = Empty}
      BY <2>1, <2>2
    <2>4. given' = given /\ given = [g \in DOMAIN given |-> given[g]]
      BY DEF StoreInv, HandlesOK
    <2> QED BY <2>1, <2>3, <2>4 DEF HandlesOK
  <1> QED BY <1>5, <1>6, <1>7, <1>8, <1>9 DEF StoreInv

\* TransportStore::invalidate_all releases every slot and offers those that held a
\* resource, which were not offered yet.
LEMMA InvalidateKeepsStore ==
    ASSUME StoreInv,
           slots' = invalidate_all(store).slots, reusable' = invalidate_all(store).reusable,
           dead' = dead \cup DOMAIN given, UNCHANGED <<made, given>>
    PROVE  /\ StoreInv'
           /\ Ids' = Ids
           /\ \A i \in Ids : slots'[i].res = Empty /\ slots'[i].invalidated
  <1> DEFINE Released(k) ==
               {i \in DOMAIN slots : slots[i].kind = k /\ slots[i].res # Empty /\ slots[i].gen < MaxGen}
             void(i) == [slots[i] EXCEPT !.res = Empty, !.invalidated = TRUE]
             N == Cardinality(DOMAIN slots)
  <1>1. store.slots = slots /\ store.reusable = reusable
    BY DEF store
  <1>2. slots \in [Ids -> Slots] /\ DOMAIN slots = Ids /\ Ids = 1..N /\ N \in Nat
    BY DEF StoreInv, SlotsOK, Ids
  <1>3. /\ slots' = [i \in DOMAIN slots |-> void(i)]
        /\ reusable' = [k \in Kinds |-> reusable[k] \o Ascending(Released(k))]
    BY <1>1, ZenonT(30) DEF invalidate_all
  <1>4. \A i \in Ids : /\ void(i) \in Slots
                       /\ void(i).kind = slots[i].kind /\ void(i).gen = slots[i].gen
                       /\ void(i).res = Empty /\ void(i).invalidated
    <2> SUFFICES ASSUME NEW i \in Ids
                 PROVE  /\ void(i) \in Slots
                        /\ void(i).kind = slots[i].kind /\ void(i).gen = slots[i].gen
                        /\ void(i).res = Empty /\ void(i).invalidated
      BY ZenonT(30)
    <2>1. slots[i] \in Slots
      BY <1>2
    <2> QED BY <2>1, ZenonT(30) DEF Slots, Contents
  <1> HIDE DEF void
  <1>5. /\ slots' \in [Ids -> Slots] /\ DOMAIN slots' = DOMAIN slots
        /\ \A i \in Ids : /\ slots'[i].kind = slots[i].kind /\ slots'[i].gen = slots[i].gen
                          /\ slots'[i].res = Empty /\ slots'[i].invalidated
    BY <1>2, <1>3, <1>4, ZenonT(30)
  <1>6. Ids' = Ids
    BY <1>5 DEF Ids
  <1>7. SlotsOK'
    BY <1>5, <1>6 DEF StoreInv, SlotsOK
  <1>8. FreeOK'
    <2>1. ASSUME NEW k \in Kinds
          PROVE  Stack(reusable[k] \o Ascending(Released(k)), k, slots')
      <3> DEFINE S == Released(k)
                 asc == Ascending(S)
                 m == Cardinality(S)
      <3>1. S \in SUBSET (1..N) /\ S \in SUBSET Nat
        <4>1. \A i \in S : i \in 1..N
          BY <1>2, ZenonT(30)
        <4> HIDE DEF S, N
        <4>2. \A i \in 1..N : i \in Nat
          BY <1>2
        <4> QED BY <4>1, <4>2
      <3>2. IsFiniteSet(S)
        <4>1. IsFiniteSet(1..N)
          BY <1>2, FS_Interval
        <4> HIDE DEF S, N
        <4> QED BY <3>1, <4>1, FS_Subset, ZenonT(30)
      <3>3. m \in Nat
        BY <3>2, FS_CardinalityType
      <3>4. asc \in [1..m -> S] /\ \A i, j \in 1..m : i < j => asc[i] < asc[j]
        <4> HIDE DEF S
        <4> QED BY <3>1, <3>2, AscendingExists
      <3>5. asc \in Seq(Nat) /\ Len(asc) = m
        <4> HIDE DEF asc, S, m, Released, N
        <4>1. asc \in [1..m -> Nat]
          BY <3>1, <3>4, ZenonT(30)
        <4>2. asc \in Seq(Nat)
          BY <3>3, <4>1
        <4>3. DOMAIN asc = 1..Len(asc) /\ DOMAIN asc = 1..m /\ Len(asc) \in Nat
          BY <4>1, <4>2, LenProperties
        <4>4. Len(asc) = m
          BY <3>3, <4>3, SameInterval, ZenonT(30)
        <4> QED BY <4>2, <4>4
      <3>6. \A i, j \in 1..m : asc[i] = asc[j] => i = j
        <4> SUFFICES ASSUME NEW i \in 1..m, NEW j \in 1..m, i # j PROVE asc[i] # asc[j]
          OBVIOUS
        <4> HIDE DEF asc, S, m
        <4>1. asc[i] \in Nat /\ asc[j] \in Nat
          BY <3>1, <3>4, ZenonT(30)
        <4>2. i < j \/ j < i
          BY <3>3
        <4> QED BY <3>4, <4>1, <4>2
      <3>7. Stack(asc, k, slots')
        <4>1. \A i \in 1..m : asc[i] \in S
          BY <3>4
        <4>2. \A i \in S : i \in DOMAIN slots' /\ slots'[i].kind = k /\ slots'[i].res = Empty
                           /\ slots'[i].gen < MaxGen
          BY <1>2, <1>5, ZenonT(30)
        <4> HIDE DEF asc, S, m
        <4> QED BY <3>5, <3>6, <4>1, <4>2 DEF Stack
      <3>8. Stack(reusable[k], k, slots)
        BY DEF StoreInv, FreeOK
      <3>9. Stack(reusable[k], k, slots')
        BY <1>2, <1>5, <3>8, ZenonT(30) DEF Stack
      <3>10. \A i \in 1..Len(reusable[k]), j \in 1..Len(asc) : reusable[k][i] # asc[j]
        <4>1. \A i \in 1..Len(reusable[k]) : slots[reusable[k][i]].res = Empty
          BY <3>8 DEF Stack
        <4>2. \A j \in 1..m : slots[asc[j]].res # Empty
          BY <3>4
        <4> HIDE DEF asc, S, m
        <4> QED BY <3>5, <4>1, <4>2
      <3> HIDE DEF asc
      <3>11. Stack(reusable[k] \o asc, k, slots')
        BY <3>7, <3>9, <3>10, StackConcat
      <3> QED BY <3>11 DEF asc
    <2> HIDE DEF Released
    <2>2. \A k \in Kinds : reusable'[k] = reusable[k] \o Ascending(Released(k))
      BY <1>3
    <2>3. \A k \in Kinds : Stack(reusable'[k], k, slots')
      BY <2>1, <2>2, ZenonT(30)
    <2>4. reusable' \in [Kinds -> Seq(Nat)]
      BY <1>3, <2>2, <2>3 DEF Stack
    <2> QED BY <2>3, <2>4 DEF FreeOK
  <1>9. HandlesOK'
    <2>1. ASSUME NEW g \in DOMAIN given
          PROVE  /\ g = Handle(g.kind, g.id, g.gen)
                 /\ g.id \in Ids' /\ slots'[g.id].kind = g.kind
                 /\ g.gen \in 1..slots'[g.id].gen
                 /\ slots'[g.id].res = Empty
      <3>1. /\ g = Handle(g.kind, g.id, g.gen)
            /\ g.id \in Ids /\ slots[g.id].kind = g.kind
            /\ g.gen \in 1..slots[g.id].gen
        BY DEF StoreInv, HandlesOK
      <3> QED BY <1>5, <1>6, <3>1
    <2>2. dead' = DOMAIN given
      BY ZenonT(30) DEF StoreInv, HandlesOK
    <2>3. dead' = {g \in DOMAIN given : g.gen # slots'[g.id].gen \/ slots'[g.id].res = Empty}
      BY <2>1, <2>2
    <2>4. given' = given /\ given = [g \in DOMAIN given |-> given[g]]
      BY DEF StoreInv, HandlesOK
    <2> QED BY <2>1, <2>3, <2>4 DEF HandlesOK
  <1> QED BY <1>5, <1>6, <1>7, <1>8, <1>9 DEF StoreInv

-----------------------------------------------------------------------------
(* The packets of a carrier.                                                *)

\* The next packet to arrive is the last.
LEMMA OrderedAppend ==
    ASSUME NEW all \in Seq(Nat), NEW arrived \in Nat, NEW lossy, Ordered(all, arrived, lossy)
    PROVE  Ordered(Append(all, arrived + 1), arrived + 1, lossy)
  <1> DEFINE n == Len(all)
             more == Append(all, arrived + 1)
  <1>1. n \in Nat /\ Len(more) = n + 1 /\ more[n + 1] = arrived + 1
    BY LenProperties
  <1>2. \A i \in 1..n : more[i] = all[i] /\ all[i] \in Nat /\ all[i] <= arrived
    BY ElementOfSeq DEF Ordered
  <1>3. \A i, j \in 1..n : i < j => all[i] < all[j]
    BY DEF Ordered
  <1>4. ~lossy => n = arrived
    BY DEF Ordered
  <1> HIDE DEF n, more
  <1>5. \A i \in 1..(n + 1) : i \in 1..n \/ i = n + 1
    BY <1>1
  <1>6. \A i, j \in 1..(n + 1) : i < j => i \in 1..n
    BY <1>1
  <1>7. \A i, j \in 1..(n + 1) : i < j => more[i] < more[j]
    <2> SUFFICES ASSUME NEW i \in 1..(n + 1), NEW j \in 1..(n + 1), i < j PROVE more[i] < more[j]
      OBVIOUS
    <2>1. i \in 1..n /\ more[i] = all[i] /\ all[i] \in Nat /\ all[i] <= arrived
      BY <1>2, <1>6
    <2>2. CASE j \in 1..n
      BY <1>2, <1>3, <2>1, <2>2
    <2>3. CASE j = n + 1
      BY <1>1, <2>1, <2>3
    <2> QED BY <1>5, <2>2, <2>3
  <1>8. \A i \in 1..(n + 1) : more[i] <= arrived + 1
    BY <1>1, <1>2, <1>5
  <1> QED BY <1>1, <1>4, <1>7, <1>8 DEF Ordered, more

\* Packets dropped in the middle leave the others in order.
LEMMA OrderedDrop ==
    ASSUME NEW s \in Seq(Nat), NEW q \in Seq(Nat), NEW k \in 0..Len(q), NEW arrived, NEW lossy,
           Ordered(s \o q, arrived, lossy)
    PROVE  Ordered(s \o SubSeq(q, k + 1, Len(q)), arrived, TRUE)
  <1> DEFINE n == Len(s)
             m == Len(q)
             all == s \o q
             rest == SubSeq(q, k + 1, m)
             left == s \o rest
             at(i) == IF i <= n THEN i ELSE i + k
  <1>1. n \in Nat /\ m \in Nat /\ k \in Nat /\ k <= m
    BY LenProperties
  <1>2. rest \in Seq(Nat) /\ Len(rest) = m - k /\ \A i \in 1..(m - k) : rest[i] = q[i + k]
    <2>1. CASE k = m
      <3>1. Len(rest) = 0 /\ rest \in Seq(Nat)
        BY <1>1, <2>1, SubSeqProperties
      <3> HIDE DEF rest
      <3> QED BY <1>1, <2>1, <3>1
    <2>2. CASE k < m
      <3>1. \A i \in (k + 1)..m : i \in 1..Len(q)
        BY <1>1
      <3>2. /\ rest \in Seq(Nat) /\ Len(rest) = m - (k + 1) + 1
            /\ \A i \in 1..(m - (k + 1) + 1) : rest[i] = q[(k + 1) + i - 1]
        BY <1>1, <2>2, <3>1, SubSeqProperties
      <3> HIDE DEF rest, m
      <3>3. m - (k + 1) + 1 = m - k
        BY <1>1
      <3>4. \A i \in 1..(m - k) : (k + 1) + i - 1 = i + k
        BY <1>1
      <3> QED BY <3>2, <3>3, <3>4
    <2> QED BY <1>1, <2>1, <2>2
  <1>3. Len(all) = n + m /\ \A i \in 1..(n + m) : all[i] = IF i <= n THEN s[i] ELSE q[i - n]
    BY ConcatProperties
  <1>4. Len(left) = n + (m - k) /\ \A i \in 1..Len(left) : left[i] = IF i <= n THEN s[i] ELSE rest[i - n]
    <2> HIDE DEF rest
    <2> QED BY <1>2, ConcatProperties
  <1> HIDE DEF n, m, all, rest, left
  <1>5. \A i \in 1..Len(left) : at(i) \in 1..(n + m) /\ left[i] = all[at(i)]
    <2> SUFFICES ASSUME NEW i \in 1..Len(left) PROVE at(i) \in 1..(n + m) /\ left[i] = all[at(i)]
      OBVIOUS
    <2>1. i \in Nat /\ i >= 1 /\ i <= n + (m - k)
      BY <1>1, <1>4
    <2>2. CASE i <= n
      BY <1>1, <1>3, <1>4, <2>1, <2>2
    <2>3. CASE ~(i <= n)
      <3>1. at(i) = i + k /\ i + k \in 1..(n + m) /\ ~(i + k <= n)
            /\ i - n \in 1..(m - k) /\ (i + k) - n = (i - n) + k
        BY <1>1, <2>1, <2>3
      <3>2. all[i + k] = q[(i + k) - n]
        <4>1. i + k \in 1..(n + m) /\ ~(i + k <= n)
          BY <3>1
        <4>2. \A p \in 1..(n + m) : ~(p <= n) => all[p] = q[p - n]
          BY <1>3
        <4> QED BY <4>1, <4>2
      <3>3. left[i] = rest[i - n]
        BY <1>4, <2>3
      <3>4. rest[i - n] = q[(i - n) + k]
        BY <1>2, <3>1
      <3> QED BY <3>1, <3>2, <3>3, <3>4, ZenonT(30)
    <2> QED BY <2>2, <2>3
  <1>6. \A i, j \in 1..Len(left) : i < j => at(i) < at(j)
    BY <1>1, <1>4
  <1> HIDE DEF at
  <1>7. /\ \A i, j \in 1..(n + m) : i < j => all[i] < all[j]
        /\ \A i \in 1..(n + m) : all[i] <= arrived
    BY <1>3, ZenonT(30) DEF Ordered, all
  <1>8. \A i, j \in 1..Len(left) : i < j => left[i] < left[j]
    BY <1>5, <1>6, <1>7, ZenonT(30)
  <1>9. \A i \in 1..Len(left) : left[i] <= arrived
    BY <1>5, <1>7
  <1> QED BY <1>8, <1>9, ZenonT(30) DEF Ordered, left, rest, m

\* A sequence in three parts.
LEMMA ThreeParts ==
    ASSUME NEW q \in Seq(Nat), NEW k \in 0..Len(q), NEW m \in 0..(Len(q) - k)
    PROVE  /\ SubSeq(q, 1, k) \in Seq(Nat)
           /\ SubSeq(q, k + 1, k + m) \in Seq(Nat)
           /\ SubSeq(q, k + m + 1, Len(q)) \in Seq(Nat)
           /\ SubSeq(q, 1, k) \o (SubSeq(q, k + 1, k + m) \o SubSeq(q, k + m + 1, Len(q))) = q
  <1>1. Len(q) \in Nat /\ k \in Nat /\ m \in Nat /\ k <= Len(q) /\ k + m <= Len(q)
    BY LenProperties
  <1>2. /\ SubSeq(q, 1, k) \in Seq(Nat)
        /\ SubSeq(q, k + 1, k + m) \in Seq(Nat)
        /\ SubSeq(q, k + m + 1, Len(q)) \in Seq(Nat)
    <2>1. /\ \A i \in 1..k : i \in 1..Len(q)
          /\ \A i \in (k + 1)..(k + m) : i \in 1..Len(q)
          /\ \A i \in (k + m + 1)..Len(q) : i \in 1..Len(q)
      BY <1>1
    <2> QED BY <1>1, <2>1, SubSeqProperties
  <1>3. SubSeq(q, k + 1, k + m) \o SubSeq(q, k + m + 1, Len(q)) = SubSeq(q, k + 1, Len(q))
    <2>1. /\ k + 1 \in 1..(Len(q) + 1)
          /\ k + m \in ((k + 1) - 1)..Len(q)
          /\ Len(q) \in (k + m)..Len(q)
      BY <1>1
    <2> QED BY <2>1, ConcatAdjacentSubSeq, ZenonT(30)
  <1>4. SubSeq(q, 1, k) \o SubSeq(q, k + 1, Len(q)) = SubSeq(q, 1, Len(q))
    <2>1. 1 \in 1..(Len(q) + 1) /\ k \in (1 - 1)..Len(q) /\ Len(q) \in k..Len(q)
      BY <1>1
    <2> QED BY <2>1, ConcatAdjacentSubSeq, ZenonT(30)
  <1>5. SubSeq(q, 1, Len(q)) = q
    BY SubSeqFull
  <1> QED BY <1>2, <1>3, <1>4, <1>5, ZenonT(30)

\* What a read holds back is what comes next.
LEMMA HeldBackIsNext ==
    ASSUME NEW c \in Carriers, NEW k \in 0..Len(Queue(c)), NEW frames, NEW bytes, NEW held,
           held = HeldBack(c, k, frames, bytes)
    PROVE  /\ held \in Seq(Nat)
           /\ Len(held) \in 0..(Len(Queue(c)) - k)
           /\ held = SubSeq(Queue(c), k + 1, k + Len(held))
  <1> DEFINE q == Queue(c)
             n == Len(c.pending)
             m == Len(c.inbound)
             kept == SubSeq(c.pending, k + 1, n)
  <1>1. c.pending \in Seq(Nat) /\ c.inbound \in Seq(Nat)
    BY DEF Carriers
  <1>2. /\ q \in Seq(Nat) /\ Len(q) = n + m
        /\ n \in Nat /\ m \in Nat /\ k \in Nat /\ k <= n + m
        /\ \A i \in 1..n : q[i] = c.pending[i] /\ c.pending[i] \in Nat
    <2>1. n \in Nat /\ m \in Nat
      BY <1>1, LenProperties
    <2>2. \A i \in 1..n : c.pending[i] \in Nat
      BY <1>1, ElementOfSeq
    <2>3. /\ q \in Seq(Nat) /\ Len(q) = n + m
          /\ \A i \in 1..(n + m) : q[i] = IF i <= n THEN c.pending[i] ELSE c.inbound[i - n]
      BY <1>1, ConcatProperties, ZenonT(30) DEF Queue
    <2> HIDE DEF q, n, m
    <2>4. \A i \in 1..n : i \in 1..(n + m) /\ i <= n
      BY <2>1
    <2>5. k \in 0..(n + m)
      BY <2>3 DEF q
    <2> QED BY <2>1, <2>2, <2>3, <2>4, <2>5
  <1> HIDE DEF q
  <1>3. CASE k < n
    <2>1. /\ \A i \in (k + 1)..n : c.pending[i] \in Nat /\ q[i] = c.pending[i]
          /\ k + 1 \in Int /\ n \in Int /\ k + 1 <= n
      <3>1. \A i \in (k + 1)..n : i \in 1..n
        BY <1>2
      <3>2. k + 1 \in Int /\ n \in Int /\ k + 1 <= n
        BY <1>2, <1>3
      <3> HIDE DEF n
      <3> QED BY <1>2, <3>1, <3>2
    <2>2. /\ kept \in Seq(Nat) /\ Len(kept) = n - (k + 1) + 1
          /\ \A i \in 1..(n - (k + 1) + 1) : kept[i] = c.pending[(k + 1) + i - 1]
      <3> HIDE DEF n
      <3> QED BY <2>1, SubSeqProperties
    <2> DEFINE next == SubSeq(q, k + 1, n)
    <2>3. /\ next \in Seq(Nat) /\ Len(next) = n - (k + 1) + 1
          /\ \A i \in 1..(n - (k + 1) + 1) : next[i] = q[(k + 1) + i - 1]
      <3> HIDE DEF n
      <3>1. \A i \in (k + 1)..n : q[i] \in Nat
        BY <2>1
      <3> QED BY <2>1, <3>1, SubSeqProperties
    <2>4. \A i \in 1..(n - (k + 1) + 1) : (k + 1) + i - 1 \in 1..n
      BY <1>2, <1>3
    <2> HIDE DEF kept, next, n, m
    <2>5. kept = next
      <3>1. \A i \in 1..Len(kept) : kept[i] = next[i]
        BY <1>2, <2>2, <2>3, <2>4
      <3>2. Len(kept) = Len(next)
        BY <2>2, <2>3
      <3> QED BY <2>2, <2>3, <3>1, <3>2, SeqEqual, ZenonT(30)
    <2>6. Len(kept) = n - k /\ Len(kept) # 0 /\ k + Len(kept) = n
      BY <1>2, <1>3, <2>2
    <2>7. kept # <<>>
      BY <2>6, EmptySeq
    <2>8. held = kept
      BY <2>7 DEF HeldBack, kept, n
    <2>9. Len(held) \in 0..(Len(q) - k)
      BY <1>2, <1>3, <2>6, <2>8
    <2> QED BY <2>2, <2>5, <2>6, <2>8, <2>9 DEF next, q
  <1>4. CASE ~(k < n)
    <2>1. kept = <<>>
      <3>1. n < k + 1 /\ k + 1 \in Int /\ n \in Int
        BY <1>2, <1>4
      <3> QED BY <3>1, SubSeqEmpty
    <2>2. held = <<>> \/ (k < Len(q) /\ held = <<q[k + 1]>>)
      <3> HIDE DEF kept
      <3> QED BY <2>1 DEF HeldBack, kept, n, q
    <2> HIDE DEF kept, n, m
    <2>3. CASE held = <<>>
      <3>1. Len(held) = 0 /\ held \in Seq(Nat)
        BY <2>3, EmptySeq
      <3>2. SubSeq(q, k + 1, k + Len(held)) = <<>>
        <4>1. k + Len(held) = k
          BY <1>2, <3>1
        <4>2. k + 1 \in Int /\ k \in Int /\ k < k + 1
          BY <1>2
        <4> QED BY <4>1, <4>2, SubSeqEmpty
      <3>3. 0 \in 0..(Len(q) - k)
        BY <1>2
      <3> QED BY <2>3, <3>1, <3>2, <3>3 DEF q
    <2>4. CASE k < Len(q) /\ held = <<q[k + 1]>>
      <3>1. k + 1 \in 1..Len(q) /\ 1 \in 0..(Len(q) - k)
        BY <1>2, <2>4
      <3>2. q[k + 1] \in Nat
        BY <1>2, <3>1, ElementOfSeq
      <3>3. held \in Seq(Nat) /\ Len(held) = 1 /\ held[1] = q[k + 1]
        BY <2>4, <3>2
      <3> DEFINE next == SubSeq(q, k + 1, k + 1)
      <3>4. next \in Seq(Nat) /\ Len(next) = 1 /\ next[1] = q[k + 1]
        <4>1. \A i \in (k + 1)..(k + 1) : q[i] \in Nat
          BY <1>2, <3>2
        <4>2. /\ next \in Seq(Nat)
              /\ Len(next) = (k + 1) - (k + 1) + 1
              /\ \A i \in 1..((k + 1) - (k + 1) + 1) : next[i] = q[(k + 1) + i - 1]
          BY <1>2, <4>1, SubSeqProperties
        <4> HIDE DEF next
        <4>3. (k + 1) - (k + 1) + 1 = 1 /\ (k + 1) + 1 - 1 = k + 1
          BY <1>2
        <4> QED BY <4>2, <4>3
      <3> HIDE DEF next
      <3>5. held = next
        <4>1. \A i \in 1..Len(held) : held[i] = next[i]
          BY <3>3, <3>4
        <4> QED BY <3>3, <3>4, <4>1, SeqEqual
      <3> QED BY <3>1, <3>3, <3>5 DEF next, q
    <2> QED BY <2>2, <2>3, <2>4
  <1> QED BY <1>3, <1>4

LEMMA ConcatOfThree ==
    \A a, b, c \in Seq(Nat) : (a \o b) \o c = a \o (b \o c)
  BY ConcatAssociative

\* A read that gives the first packets of the queue and holds back the next ones
\* loses none and keeps the order.
LEMMA ReadKeepsOrder ==
    ASSUME NEW c \in Carriers, InOrder(c), NEW k \in 0..Len(Queue(c)),
           NEW held \in Seq(Nat), Len(held) \in 0..(Len(Queue(c)) - k),
           held = SubSeq(Queue(c), k + 1, k + Len(held)),
           NEW d,
           d = [c EXCEPT !.pending = held,
                         !.inbound = SubSeq(Queue(c), k + Len(held) + 1, Len(Queue(c))),
                         !.delivered = @ \o SubSeq(Queue(c), 1, k)]
    PROVE  d \in Carriers /\ InOrder(d)
  <1> DEFINE q == Queue(c)
             m == Len(held)
             first == SubSeq(q, 1, k)
             rest == SubSeq(q, k + m + 1, Len(q))
  <1>1. c.pending \in Seq(Nat) /\ c.inbound \in Seq(Nat) /\ c.delivered \in Seq(Nat)
    BY DEF Carriers
  <1>2. q \in Seq(Nat)
    BY <1>1, ConcatProperties DEF Queue
  <1>3. first \in Seq(Nat) /\ rest \in Seq(Nat) /\ first \o (held \o rest) = q
    <2>1. k \in 0..Len(q) /\ m \in 0..(Len(q) - k) /\ held = SubSeq(q, k + 1, k + m)
      OBVIOUS
    <2> HIDE DEF q, m
    <2>2. /\ SubSeq(q, 1, k) \in Seq(Nat)
          /\ SubSeq(q, k + m + 1, Len(q)) \in Seq(Nat)
          /\ SubSeq(q, 1, k) \o (SubSeq(q, k + 1, k + m) \o SubSeq(q, k + m + 1, Len(q))) = q
      BY <1>2, <2>1, ThreeParts, ZenonT(30)
    <2> QED BY <2>1, <2>2, ZenonT(30)
  <1> HIDE DEF q, m, first, rest
  <1>4. /\ d.pending = held /\ d.inbound = rest /\ d.delivered = c.delivered \o first
        /\ d.arrived = c.arrived /\ d.lossy = c.lossy
    BY ZenonT(30) DEF Carriers, q, m, first, rest
  <1>5. held \o rest \in Seq(Nat) /\ c.delivered \o first \in Seq(Nat)
    BY <1>1, <1>3, ConcatProperties
  <1>6. d \in Carriers
    BY <1>3, <1>5, ZenonT(30) DEF Carriers, q, m, first, rest
  <1>7. d.delivered \o Queue(d) = c.delivered \o Queue(c)
    <2>1. Queue(d) = held \o rest
      BY <1>4, ZenonT(30) DEF Queue
    <2>2. (c.delivered \o first) \o (held \o rest) = c.delivered \o (first \o (held \o rest))
      <3>1. first \in Seq(Nat) /\ c.delivered \in Seq(Nat) /\ held \o rest \in Seq(Nat)
        BY <1>1, <1>3, <1>5
      <3> QED BY <3>1, ConcatOfThree, ZenonT(30)
    <2> QED BY <1>3, <1>4, <2>1, <2>2, ZenonT(30) DEF q
  <1> QED BY <1>4, <1>6, <1>7, ZenonT(30) DEF InOrder

\* A read that drops the packets it took keeps the order of the others.
LEMMA FailedReadKeepsOrder ==
    ASSUME NEW c \in Carriers, InOrder(c), NEW k \in 0..Len(Queue(c)),
           NEW d,
           d = [c EXCEPT !.pending = <<>>,
                         !.inbound = SubSeq(Queue(c), k + 1, Len(Queue(c))),
                         !.lossy = TRUE]
    PROVE  d \in Carriers /\ InOrder(d)
  <1> DEFINE q == Queue(c)
             rest == SubSeq(q, k + 1, Len(q))
  <1>1. c.pending \in Seq(Nat) /\ c.inbound \in Seq(Nat) /\ c.delivered \in Seq(Nat)
    BY DEF Carriers
  <1>2. q \in Seq(Nat)
    BY <1>1, ConcatProperties DEF Queue
  <1>3. rest \in Seq(Nat)
    <2>1. Len(q) \in Nat /\ k \in Nat
      BY <1>2, LenProperties
    <2>2. \A i \in (k + 1)..Len(q) : q[i] \in Nat
      <3>1. \A i \in (k + 1)..Len(q) : i \in 1..Len(q)
        BY <2>1
      <3> HIDE DEF q
      <3> QED BY <1>2, <3>1, ElementOfSeq
    <2> HIDE DEF q
    <2> QED BY <2>1, <2>2, SubSeqProperties
  <1>4. <<>> \o rest = rest
    BY <1>3, ConcatEmptySeq
  <1> HIDE DEF rest
  <1>5. /\ d.pending = <<>> /\ d.inbound = rest /\ d.delivered = c.delivered
        /\ d.arrived = c.arrived /\ d.lossy = TRUE
    BY ZenonT(30) DEF Carriers, rest
  <1>6. d \in Carriers
    <2>1. <<>> \in Seq(Nat)
      BY EmptySeq
    <2> QED BY <1>3, <2>1, ZenonT(30) DEF Carriers, rest
  <1>7. Ordered(c.delivered \o q, c.arrived, c.lossy)
    BY DEF InOrder
  <1>8. Ordered(c.delivered \o rest, c.arrived, TRUE)
    <2> HIDE DEF q
    <2> QED BY <1>1, <1>2, <1>7, OrderedDrop, ZenonT(30) DEF rest, q
  <1> QED BY <1>4, <1>5, <1>6, <1>8, ZenonT(30) DEF InOrder, Queue

LEMMA ConcatAppend ==
    \A a, b \in Seq(Nat), x \in Nat : a \o Append(b, x) = Append(a \o b, x)
  <1> SUFFICES ASSUME NEW a \in Seq(Nat), NEW b \in Seq(Nat), NEW x \in Nat
               PROVE  a \o Append(b, x) = Append(a \o b, x)
    OBVIOUS
  <1>1. <<x>> \in Seq(Nat) /\ a \o b \in Seq(Nat)
    BY ConcatProperties
  <1>2. Append(b, x) = b \o <<x>> /\ Append(a \o b, x) = (a \o b) \o <<x>>
    BY <1>1, AppendIsConcat, ZenonT(30)
  <1> DEFINE o == <<x>>
  <1>3. o \in Seq(Nat) /\ Append(b, x) = b \o o /\ Append(a \o b, x) = (a \o b) \o o
    BY <1>1, <1>2
  <1> HIDE DEF o
  <1>4. (a \o b) \o o = a \o (b \o o)
    BY <1>3, ConcatOfThree, ZenonT(30)
  <1> QED BY <1>3, <1>4, ZenonT(30)

LEMMA ConcatHead ==
    ASSUME NEW a \in Seq(Nat), NEW b \in Seq(Nat), b # <<>>
    PROVE  Head(b) \in Nat /\ Tail(b) \in Seq(Nat) /\ Append(a, Head(b)) \o Tail(b) = a \o b
  <1>1. Head(b) \in Nat /\ Tail(b) \in Seq(Nat) /\ <<Head(b)>> \in Seq(Nat)
    BY HeadTailProperties
  <1>2. Append(a, Head(b)) = a \o <<Head(b)>>
    BY <1>1, AppendIsConcat
  <1>3. <<Head(b)>> \o Tail(b) = b
    <2> DEFINE h == Head(b)
               t == Tail(b)
               s == <<h>> \o t
    <2>1. /\ h = b[1] /\ Len(t) = Len(b) - 1 /\ \A i \in 1..(Len(b) - 1) : t[i] = b[i + 1]
          /\ Len(b) \in Nat \ {0}
      BY HeadTailProperties, EmptySeq
    <2>2. <<h>> \in Seq(Nat) /\ t \in Seq(Nat)
      BY <1>1
    <2> HIDE DEF h, t
    <2>3. /\ s \in Seq(Nat) /\ Len(s) = Len(<<h>>) + Len(t)
          /\ \A i \in 1..(Len(<<h>>) + Len(t)) : s[i] = IF i <= Len(<<h>>) THEN <<h>>[i] ELSE t[i - Len(<<h>>)]
      BY <2>2, ConcatProperties
    <2> HIDE DEF s
    <2>4. Len(<<h>>) = 1 /\ <<h>>[1] = h
      OBVIOUS
    <2>5. Len(s) = Len(b)
      BY <2>1, <2>3, <2>4
    <2>6. \A i \in 1..Len(s) : s[i] = b[i]
      <3> SUFFICES ASSUME NEW i \in 1..Len(s) PROVE s[i] = b[i]
        OBVIOUS
      <3>1. CASE i = 1
        BY <2>1, <2>3, <2>4, <3>1
      <3>2. CASE i # 1
        <4>1. i - 1 \in 1..(Len(b) - 1) /\ (i - 1) + 1 = i /\ ~(i <= 1)
          BY <2>1, <2>5, <3>2
        <4>2. s[i] = t[i - 1]
          BY <2>3, <2>4, <4>1
        <4>3. t[i - 1] = b[(i - 1) + 1]
          BY <2>1, <4>1
        <4> QED BY <4>1, <4>2, <4>3
      <3> QED BY <3>1, <3>2
    <2> QED BY <2>3, <2>5, <2>6, SeqEqual DEF s, h, t
  <1> DEFINE o == <<Head(b)>>
             t == Tail(b)
  <1>4. o \in Seq(Nat) /\ t \in Seq(Nat) /\ Append(a, Head(b)) = a \o o /\ o \o t = b
    BY <1>1, <1>2, <1>3
  <1> HIDE DEF o, t
  <1>5. (a \o o) \o t = a \o (o \o t)
    BY <1>4, ConcatOfThree, ZenonT(30)
  <1>6. Append(a, Head(b)) \o t = a \o b
    BY <1>4, <1>5, ZenonT(30)
  <1> QED BY <1>1, <1>6 DEF t

\* A packet that arrives is the last of its carrier.
LEMMA ArrivalKeepsOrder ==
    ASSUME NEW c \in Carriers, InOrder(c), NEW d,
           d = [c EXCEPT !.arrived = @ + 1, !.inbound = Append(@, c.arrived + 1)]
    PROVE  d \in Carriers /\ InOrder(d)
  <1> DEFINE x == c.arrived + 1
             all == c.delivered \o Queue(c)
  <1>1. c.pending \in Seq(Nat) /\ c.inbound \in Seq(Nat) /\ c.delivered \in Seq(Nat) /\ c.arrived \in Nat
    BY DEF Carriers
  <1>2. x \in Nat /\ Append(c.inbound, x) \in Seq(Nat)
    BY <1>1, AppendProperties
  <1>3. Queue(c) \in Seq(Nat) /\ all \in Seq(Nat)
    BY <1>1, ConcatProperties DEF Queue
  <1> HIDE DEF x
  <1>4. /\ d.pending = c.pending /\ d.inbound = Append(c.inbound, x) /\ d.delivered = c.delivered
        /\ d.arrived = x /\ d.lossy = c.lossy
    BY DEF Carriers, x
  <1>5. d \in Carriers
    BY <1>2, ZenonT(30) DEF Carriers, x
  <1>6. d.delivered \o Queue(d) = Append(all, x)
    <2>1. Queue(d) = Append(Queue(c), x)
      <3>1. c.pending \o Append(c.inbound, x) = Append(c.pending \o c.inbound, x)
        BY <1>1, <1>2, ConcatAppend, ZenonT(30)
      <3>2. Queue(d) = c.pending \o Append(c.inbound, x)
        BY <1>4, ZenonT(30) DEF Queue
      <3> QED BY <3>1, <3>2, ZenonT(30) DEF Queue
    <2>2. c.delivered \o Append(Queue(c), x) = Append(c.delivered \o Queue(c), x)
      BY <1>1, <1>2, <1>3, ConcatAppend, ZenonT(30)
    <2> QED BY <1>4, <2>1, <2>2
  <1>7. Ordered(all, c.arrived, c.lossy)
    BY DEF InOrder
  <1>8. Ordered(Append(all, x), x, c.lossy)
    <2> HIDE DEF all
    <2> QED BY <1>1, <1>3, <1>7, OrderedAppend DEF x
  <1> QED BY <1>4, <1>5, <1>6, <1>8, ZenonT(30) DEF InOrder

\* RoleTransport::read_packet takes the next packet of the queue.
LEMMA RoleReadKeepsOrder ==
    ASSUME NEW c \in Carriers, InOrder(c), Queue(c) # <<>>, NEW d,
           d = [c EXCEPT !.delivered = Append(@, Head(Queue(c))),
                         !.pending = IF @ = <<>> THEN @ ELSE Tail(@),
                         !.inbound = IF c.pending = <<>> THEN Tail(@) ELSE @]
    PROVE  d \in Carriers /\ InOrder(d)
  <1> DEFINE p == c.pending
             w == c.inbound
             g == c.delivered
  <1>1. p \in Seq(Nat) /\ w \in Seq(Nat) /\ g \in Seq(Nat) /\ Queue(c) = p \o w
    BY DEF Carriers, Queue
  <1>2. /\ d.arrived = c.arrived /\ d.lossy = c.lossy
        /\ d.delivered = Append(g, Head(p \o w))
        /\ d.pending = IF p = <<>> THEN p ELSE Tail(p)
        /\ d.inbound = IF p = <<>> THEN Tail(w) ELSE w
    BY DEF Carriers, Queue
  <1>3. \A a, b, e \in Seq(Nat) :
          a = d.delivered /\ b = d.pending /\ e = d.inbound => d \in Carriers
    BY ZenonT(30) DEF Carriers
  <1>4. p \o w # <<>>
    BY <1>1
  <1> HIDE DEF p, w, g
  <1>5. \A e \in Seq(Nat) : <<>> \o e = e
    BY ConcatEmptySeq
  <1>6. CASE p = <<>>
    <2>1. p \o w = w /\ w # <<>>
      BY <1>1, <1>4, <1>5, <1>6
    <2>2. Head(w) \in Nat /\ Tail(w) \in Seq(Nat) /\ Append(g, Head(w)) \o Tail(w) = g \o w
      BY <1>1, <2>1, ConcatHead, ZenonT(30)
    <2>3. d.delivered = Append(g, Head(w)) /\ d.pending = <<>> /\ d.inbound = Tail(w)
      BY <1>2, <1>6, <2>1
    <2>4. Append(g, Head(w)) \in Seq(Nat) /\ <<>> \in Seq(Nat)
      BY <1>1, <2>2, AppendProperties, EmptySeq
    <2>5. d.delivered \o Queue(d) = g \o Queue(c)
      BY <1>1, <1>5, <2>1, <2>2, <2>3, ZenonT(30) DEF Queue
    <2>6. d \in Carriers
      BY <1>3, <2>2, <2>3, <2>4, ZenonT(30)
    <2> QED BY <1>2, <2>5, <2>6, ZenonT(30) DEF InOrder, g
  <1>7. CASE p # <<>>
    <2>1. Head(p) \in Nat /\ Tail(p) \in Seq(Nat) /\ Append(g, Head(p)) \o Tail(p) = g \o p
      BY <1>1, <1>7, ConcatHead, ZenonT(30)
    <2>2. Head(p \o w) = Head(p)
      <3>1. Len(p) \in Nat \ {0} /\ Len(w) \in Nat
        BY <1>1, <1>7, EmptySeq, LenProperties
      <3>2. (p \o w)[1] = p[1]
        <4>1. 1 \in 1..(Len(p) + Len(w)) /\ 1 <= Len(p)
          BY <3>1
        <4> QED BY <1>1, <4>1, ConcatProperties
      <3> QED BY <1>1, <1>4, <1>7, <3>2
    <2>3. d.delivered = Append(g, Head(p)) /\ d.pending = Tail(p) /\ d.inbound = w
      BY <1>2, <1>7, <2>2
    <2>4. Append(g, Head(p)) \in Seq(Nat)
      BY <1>1, <2>1, AppendProperties
    <2>5. d.delivered \o Queue(d) = g \o Queue(c)
      <3>1. d.delivered \o Queue(d) = Append(g, Head(p)) \o (Tail(p) \o w)
        BY <2>3, ZenonT(30) DEF Queue
      <3>2. Append(g, Head(p)) \o (Tail(p) \o w) = (Append(g, Head(p)) \o Tail(p)) \o w
        BY <1>1, <2>1, <2>4, ConcatOfThree, ZenonT(30)
      <3>3. (g \o p) \o w = g \o (p \o w)
        BY <1>1, ConcatOfThree, ZenonT(30)
      <3> QED BY <1>1, <2>1, <3>1, <3>2, <3>3, ZenonT(30)
    <2>6. d \in Carriers
      BY <1>1, <1>3, <2>1, <2>3, <2>4, ZenonT(30)
    <2> QED BY <1>2, <2>5, <2>6, ZenonT(30) DEF InOrder, g
  <1> QED BY <1>6, <1>7

-----------------------------------------------------------------------------
(* What a step does to the carriers and to the calls in progress.            *)

\* A step that changes one carrier, not its security, keeps the carriers in order.
LEMMA CarrierStep ==
    ASSUME CarriersOK, NEW n \in DOMAIN carrier, NEW d \in Carriers, InOrder(d),
           d.asked = carrier[n].asked, d.security = carrier[n].security,
           carrier' = [carrier EXCEPT ![n] = d], made' = made
    PROVE  /\ CarriersOK'
           /\ DOMAIN carrier' = DOMAIN carrier
           /\ carrier'[n] = d
           /\ \A m \in DOMAIN carrier : m # n => carrier'[m] = carrier[m]
  <1>1. /\ DOMAIN carrier' = DOMAIN carrier /\ carrier'[n] = d
        /\ \A m \in DOMAIN carrier : m # n => carrier'[m] = carrier[m]
    BY DEF CarriersOK
  <1>2. /\ DOMAIN carrier \subseteq 1..made
        /\ \A m \in DOMAIN carrier : carrier[m] \in Carriers
        /\ \A m \in DOMAIN carrier : carrier[m].asked <=> carrier[m].security = "tls"
        /\ \A m \in DOMAIN carrier : InOrder(carrier[m])
    BY DEF CarriersOK
  <1>3. carrier' \in [DOMAIN carrier' -> Carriers]
    BY <1>2, ZenonT(30)
  <1>4. \A m \in DOMAIN carrier' : carrier'[m].asked <=> carrier'[m].security = "tls"
    BY <1>1, <1>2
  <1>5. \A m \in DOMAIN carrier' : InOrder(carrier'[m])
    BY <1>1, <1>2, ZenonT(30)
  <1>6. (\A m \in DOMAIN carrier : InOrder(carrier[m]))'
    BY <1>5 DEF InOrder, Queue
  <1> QED BY <1>1, <1>2, <1>3, <1>4, <1>6 DEF CarriersOK

\* A step of one carrier's packets keeps the invariant.
LEMMA PacketStep ==
    ASSUME IInv, NEW n \in DOMAIN carrier, NEW d \in Carriers, InOrder(d),
           d.asked = carrier[n].asked, d.security = carrier[n].security, d.owners = carrier[n].owners,
           carrier' = [carrier EXCEPT ![n] = d],
           UNCHANGED <<slots, reusable, made, given, dead, calls, shutdowns>>
    PROVE  IInv'
  <1>1. /\ CarriersOK'
        /\ DOMAIN carrier' = DOMAIN carrier
        /\ carrier'[n] = d
        /\ \A m \in DOMAIN carrier : m # n => carrier'[m] = carrier[m]
    BY CarrierStep, ZenonT(30) DEF IInv
  <1>2. StoreInv'
    BY DEF IInv, StoreInv, SlotsOK, FreeOK, HandlesOK, Ids
  <1>3. OwnersOK'
    BY <1>1 DEF IInv, OwnersOK, Ids
  <1>4. CallsOK'
    BY <1>1 DEF IInv, CallsOK
  <1> QED BY <1>1, <1>2, <1>3, <1>4 DEF IInv

\* A new carrier has no packets and no owner.
LEMMA NewCarrierStep ==
    ASSUME CarriersOK, made \in Nat, NEW kind \in Kinds, NEW security \in {"plain", "tls"},
           NEW asked \in BOOLEAN, asked <=> security = "tls",
           AddCarrier(kind, security, asked), made' = made + 1
    PROVE  /\ CarriersOK'
           /\ DOMAIN carrier' = DOMAIN carrier \cup {made + 1}
           /\ carrier'[made + 1].owners = 0
           /\ \A m \in DOMAIN carrier : m # made + 1 /\ carrier'[m] = carrier[m]
  <1> DEFINE new == NewCarrier(kind, security, asked)
             k == made + 1
  <1>1. /\ DOMAIN carrier \subseteq 1..made
        /\ \A m \in DOMAIN carrier : carrier[m] \in Carriers
        /\ \A m \in DOMAIN carrier : carrier[m].asked <=> carrier[m].security = "tls"
        /\ \A m \in DOMAIN carrier : InOrder(carrier[m])
    BY DEF CarriersOK
  <1>2. new \in Carriers /\ new.owners = 0 /\ new.asked = asked /\ new.security = security
    BY EmptySeq DEF NewCarrier, Carriers
  <1>3. InOrder(new)
    <2>1. /\ new.delivered = <<>> /\ new.pending = <<>> /\ new.inbound = <<>> /\ new.arrived = 0
          /\ new.lossy = FALSE
      BY DEF NewCarrier
    <2>2. <<>> \o <<>> = <<>>
      OBVIOUS
    <2>3. Ordered(<<>>, 0, FALSE)
      BY DEF Ordered
    <2> QED BY <2>1, <2>2, <2>3, ZenonT(30) DEF InOrder, Queue
  <1> HIDE DEF new
  <1>4. k \notin DOMAIN carrier /\ DOMAIN carrier \cup {k} \subseteq 1..made'
    BY <1>1
  <1>5. carrier' = [m \in DOMAIN carrier \cup {k} |-> IF m = k THEN new ELSE carrier[m]]
    BY DEF AddCarrier, new
  <1> HIDE DEF k
  <1>6. /\ DOMAIN carrier' = DOMAIN carrier \cup {k} /\ carrier'[k] = new
        /\ \A m \in DOMAIN carrier : m # k /\ carrier'[m] = carrier[m]
    BY <1>4, <1>5
  <1>7. carrier' \in [DOMAIN carrier' -> Carriers]
    BY <1>1, <1>2, <1>5
  <1>8. \A m \in DOMAIN carrier' : carrier'[m].asked <=> carrier'[m].security = "tls"
    BY <1>1, <1>2, <1>6
  <1>9. \A m \in DOMAIN carrier' : InOrder(carrier'[m])
    BY <1>1, <1>3, <1>6, ZenonT(30)
  <1>10. (\A m \in DOMAIN carrier : InOrder(carrier[m]))'
    BY <1>9 DEF InOrder, Queue
  <1>11. CarriersOK'
    BY <1>4, <1>6, <1>7, <1>8, <1>10 DEF CarriersOK
  <1> QED BY <1>2, <1>6, <1>11 DEF k

\* A call's memory outlives steps that keep the handles and the carriers.
LEMMA CallsStep ==
    ASSUME CallsOK, NEW t \in Threads, NEW c, Call(t, c),
           CallOK(c, given', DOMAIN carrier'),
           \A h \in DOMAIN given : h \in DOMAIN given' /\ given'[h] = given[h],
           DOMAIN carrier \subseteq DOMAIN carrier'
    PROVE  CallsOK'
  <1>1. calls' = [u \in Threads |-> IF u = t THEN c ELSE calls[u]]
    BY DEF CallsOK, Call
  <1>2. \A u \in Threads : CallOK(calls[u], given', DOMAIN carrier')
    BY DEF CallsOK, CallOK
  <1>3. \A u \in Threads : CallOK(calls'[u], given', DOMAIN carrier')
    BY <1>1, <1>2, ZenonT(30)
  <1>4. calls' = [u \in Threads |-> calls'[u]]
    BY <1>1
  <1> QED BY <1>3, <1>4 DEF CallsOK

LEMMA CallsUnchanged ==
    ASSUME CallsOK, calls' = calls,
           \A h \in DOMAIN given : h \in DOMAIN given' /\ given'[h] = given[h],
           DOMAIN carrier \subseteq DOMAIN carrier'
    PROVE  CallsOK'
  <1>1. \A u \in Threads : CallOK(calls[u], given', DOMAIN carrier')
    BY DEF CallsOK, CallOK
  <1> QED BY <1>1 DEF CallsOK

-----------------------------------------------------------------------------
(* Every action keeps the invariant.                                         *)

\* An opened carrier is secured exactly when the call asked for it, whatever became
\* of the configuration's handle.
LEMMA ConnectedAsAsked ==
    ASSUME NEW st, NEW transport, NEW scheme, NEW config,
           connect_transport(st, transport, scheme, config) # "refused"
    PROVE  /\ connect_transport(st, transport, scheme, config) \in {"plain", "tls"}
           /\ (config # NoConfig \/ scheme \in {"wss", "quic"}) <=>
                connect_transport(st, transport, scheme, config) = "tls"
  <1> DEFINE r == connect_transport(st, transport, scheme, config)
  <1>1. CASE transport = "Tcp"
    <2>1. r = connect_tcp(st, scheme, config)
      BY <1>1, ZenonT(30) DEF connect_transport
    <2>2. CASE scheme # "tcp"
      <3>1. r = "refused"
        BY <2>1, <2>2, ZenonT(30) DEF connect_tcp
      <3> QED BY <3>1
    <2>3. CASE scheme = "tcp" /\ config = NoConfig
      <3>1. r = "plain"
        BY <2>1, <2>3, ZenonT(30) DEF connect_tcp
      <3> HIDE DEF r
      <3> QED BY <2>3, <3>1 DEF r
    <2>4. CASE scheme = "tcp" /\ config # NoConfig
      <3>1. r = TlsIf(Secured(st, config, "client", "Tcp"))
        BY <2>1, <2>4, ZenonT(30) DEF connect_tcp
      <3>2. r = "tls"
        BY <3>1 DEF TlsIf
      <3> HIDE DEF r
      <3> QED BY <2>4, <3>2 DEF r
    <2> QED BY <2>2, <2>3, <2>4
  <1>2. CASE transport = "Ipc"
    <2>1. r = PlainIf(config = NoConfig /\ scheme = "ipc")
      <3>1. "Ipc" # "Tcp" /\ "Ipc" # "WebSocket"
        OBVIOUS
      <3> QED BY <1>2, <3>1, ZenonT(30) DEF connect_transport
    <2>2. r = "plain" /\ config = NoConfig /\ scheme = "ipc"
      BY <2>1 DEF PlainIf
    <2> HIDE DEF r
    <2> QED BY <2>2 DEF r
  <1>3. CASE transport = "WebSocket" /\ scheme = "wss"
    <2>1. r = TlsIf(Secured(st, config, "client", "WebSocket"))
      <3>1. "WebSocket" # "Tcp" /\ "WebSocket" # "Ipc"
        OBVIOUS
      <3> QED BY <1>3, <3>1, ZenonT(30) DEF connect_transport, connect_secure_websocket
    <2>2. r = "tls"
      BY <2>1 DEF TlsIf
    <2> HIDE DEF r
    <2> QED BY <1>3, <2>2 DEF r
  <1>4. CASE transport = "WebSocket" /\ scheme # "wss"
    <2>1. r = PlainIf(config = NoConfig /\ scheme = "ws")
      <3>1. "WebSocket" # "Tcp" /\ "WebSocket" # "Ipc"
        OBVIOUS
      <3> QED BY <1>4, <3>1, ZenonT(30) DEF connect_transport
    <2>2. r = "plain" /\ config = NoConfig /\ scheme = "ws"
      BY <2>1 DEF PlainIf
    <2> HIDE DEF r
    <2> QED BY <2>2 DEF r
  <1>5. CASE transport \notin {"Tcp", "Ipc", "WebSocket"}
    <2>1. r = TlsIf(scheme = "quic" /\ Secured(st, config, "client", "Quic"))
      <3>1. transport # "Tcp" /\ transport # "Ipc" /\ transport # "WebSocket"
        BY <1>5
      <3> QED BY <3>1, ZenonT(30) DEF connect_transport, connect_quic
    <2>2. r = "tls" /\ scheme = "quic"
      BY <2>1 DEF TlsIf
    <2> HIDE DEF r
    <2> QED BY <2>2 DEF r
  <1> QED BY <1>1, <1>2, <1>3, <1>4, <1>5

LEMMA ListensAsAsked ==
    ASSUME NEW st, NEW transport, NEW scheme, NEW config,
           listen_transport(st, transport, scheme, config) # "refused"
    PROVE  /\ listen_transport(st, transport, scheme, config) \in {"plain", "tls"}
           /\ (config # NoConfig \/ scheme \in {"wss", "quic"}) <=>
                listen_transport(st, transport, scheme, config) = "tls"
  <1> DEFINE r == listen_transport(st, transport, scheme, config)
  <1>1. CASE transport = "Tcp"
    <2>1. r = listen_tcp(st, scheme, config)
      BY <1>1, ZenonT(30) DEF listen_transport
    <2>2. CASE scheme # "tcp"
      <3>1. r = "refused"
        BY <2>1, <2>2, ZenonT(30) DEF listen_tcp
      <3> QED BY <3>1
    <2>3. CASE scheme = "tcp" /\ config = NoConfig
      <3>1. r = "plain"
        BY <2>1, <2>3, ZenonT(30) DEF listen_tcp
      <3> HIDE DEF r
      <3> QED BY <2>3, <3>1 DEF r
    <2>4. CASE scheme = "tcp" /\ config # NoConfig
      <3>1. r = TlsIf(Secured(st, config, "server", "Tcp"))
        BY <2>1, <2>4, ZenonT(30) DEF listen_tcp
      <3>2. r = "tls"
        BY <3>1 DEF TlsIf
      <3> HIDE DEF r
      <3> QED BY <2>4, <3>2 DEF r
    <2> QED BY <2>2, <2>3, <2>4
  <1>2. CASE transport = "Ipc"
    <2>1. r = PlainIf(config = NoConfig /\ scheme = "ipc")
      <3>1. "Ipc" # "Tcp" /\ "Ipc" # "WebSocket"
        OBVIOUS
      <3> QED BY <1>2, <3>1, ZenonT(30) DEF listen_transport
    <2>2. r = "plain" /\ config = NoConfig /\ scheme = "ipc"
      BY <2>1 DEF PlainIf
    <2> HIDE DEF r
    <2> QED BY <2>2 DEF r
  <1>3. CASE transport = "WebSocket" /\ scheme = "wss"
    <2>1. r = TlsIf(Secured(st, config, "server", "WebSocket"))
      <3>1. "WebSocket" # "Tcp" /\ "WebSocket" # "Ipc"
        OBVIOUS
      <3> QED BY <1>3, <3>1, ZenonT(30) DEF listen_transport, listen_secure_websocket
    <2>2. r = "tls"
      BY <2>1 DEF TlsIf
    <2> HIDE DEF r
    <2> QED BY <1>3, <2>2 DEF r
  <1>4. CASE transport = "WebSocket" /\ scheme # "wss"
    <2>1. r = PlainIf(config = NoConfig /\ scheme = "ws")
      <3>1. "WebSocket" # "Tcp" /\ "WebSocket" # "Ipc"
        OBVIOUS
      <3> QED BY <1>4, <3>1, ZenonT(30) DEF listen_transport
    <2>2. r = "plain" /\ config = NoConfig /\ scheme = "ws"
      BY <2>1 DEF PlainIf
    <2> HIDE DEF r
    <2> QED BY <2>2 DEF r
  <1>5. CASE transport \notin {"Tcp", "Ipc", "WebSocket"}
    <2>1. r = TlsIf(scheme = "quic" /\ Secured(st, config, "server", "Quic"))
      <3>1. transport # "Tcp" /\ transport # "Ipc" /\ transport # "WebSocket"
        BY <1>5
      <3> QED BY <3>1, ZenonT(30) DEF listen_transport, listen_quic
    <2>2. r = "tls" /\ scheme = "quic"
      BY <2>1 DEF TlsIf
    <2> HIDE DEF r
    <2> QED BY <2>2 DEF r
  <1> QED BY <1>1, <1>2, <1>3, <1>4, <1>5

\* Storing a connection or a listener with its new carrier.
LEMMA OpenStep ==
    ASSUME IInv, NEW t \in Threads, NEW kind \in {Connection, Listener},
           NEW security \in {"plain", "tls"}, NEW asked \in BOOLEAN, asked <=> security = "tls",
           Issue(kind, [kind |-> kind, n |-> made + 1]), AddCarrier(kind, security, asked),
           Return(t), UNCHANGED <<dead, shutdowns>>
    PROVE  IInv'
  <1> DEFINE res == [kind |-> kind, n |-> made + 1]
  <1>1. made \in Nat
    BY DEF IInv, StoreInv, SlotsOK
  <1>2. kind \in Kinds /\ kind # SecurityConfig /\ res \in Contents /\ res # Empty /\ res.kind = kind /\ res.n = made + 1
    <2>1. kind \in Kinds /\ kind # SecurityConfig /\ kind # "none"
      BY DEF Kinds, Connection, Listener, SecurityConfig
    <2>2. res \in [kind : {Connection, Listener}, n : Nat] /\ res.kind = kind /\ res.n = made + 1
      BY <1>1
    <2>3. Empty.kind = "none"
      BY DEF Empty
    <2> HIDE DEF res
    <2> QED BY <2>1, <2>2, <2>3 DEF Contents
  <1> HIDE DEF res
  <1>3. /\ StoreInv'
        /\ made' = made + 1
        /\ \A h \in DOMAIN given : h \in DOMAIN given' /\ given'[h] = given[h]
        /\ \A i \in Ids' : slots'[i].res = res \/ (i \in Ids /\ slots'[i] = slots[i])
    <2>1. StoreInv /\ Issue(kind, res) /\ dead' = dead
      BY DEF IInv, res
    <2> QED BY <1>2, <2>1, IssueKeepsStore
  <1>4. /\ CarriersOK'
        /\ DOMAIN carrier' = DOMAIN carrier \cup {made + 1}
        /\ carrier'[made + 1].owners = 0
        /\ \A m \in DOMAIN carrier : m # made + 1 /\ carrier'[m] = carrier[m]
    BY <1>1, <1>2, <1>3, NewCarrierStep, ZenonT(30) DEF IInv
  <1>5. OwnersOK'
    <2>1. \A n \in DOMAIN carrier' : carrier'[n].owners <= 1
      BY <1>4 DEF IInv, OwnersOK
    <2>2. \A i \in Ids' : slots'[i].res # Empty /\ slots'[i].kind # SecurityConfig =>
            slots'[i].res.n \in DOMAIN carrier' /\ carrier'[slots'[i].res.n].owners = 0
      <3> SUFFICES ASSUME NEW i \in Ids', slots'[i].res # Empty, slots'[i].kind # SecurityConfig
                   PROVE  slots'[i].res.n \in DOMAIN carrier' /\ carrier'[slots'[i].res.n].owners = 0
        OBVIOUS
      <3>1. CASE slots'[i].res = res
        BY <1>2, <1>4, <3>1
      <3>2. CASE i \in Ids /\ slots'[i] = slots[i]
        <4>1. slots[i].res.n \in DOMAIN carrier /\ carrier[slots[i].res.n].owners = 0
          BY <3>2 DEF IInv, OwnersOK
        <4> QED BY <1>4, <3>2, <4>1
      <3> QED BY <1>3, <3>1, <3>2
    <2> QED BY <2>1, <2>2 DEF OwnersOK
  <1>6. CallsOK'
    <2>1. CallOK(Idle, given', DOMAIN carrier')
      BY ZenonT(30) DEF CallOK
    <2> QED BY <1>3, <1>4, <2>1, CallsStep, ZenonT(30) DEF IInv, Return
  <1> QED BY <1>3, <1>4, <1>5, <1>6 DEF IInv

\* A step that only begins or ends a call.
LEMMA CallStep ==
    ASSUME IInv, NEW t \in Threads, NEW c, Call(t, c), CallOK(c, given, DOMAIN carrier),
           UNCHANGED <<slots, reusable, made, given, dead, carrier, shutdowns>>
    PROVE  IInv'
  <1>1. StoreInv'
    BY DEF IInv, StoreInv, SlotsOK, FreeOK, HandlesOK, Ids
  <1>2. CarriersOK'
    BY DEF IInv, CarriersOK, InOrder, Queue
  <1>3. OwnersOK'
    BY DEF IInv, OwnersOK, Ids
  <1>4. CallsOK'
    BY CallsStep DEF IInv
  <1> QED BY <1>1, <1>2, <1>3, <1>4 DEF IInv

\* A handle that names a resource is of the slot's kind and generation.
LEMMA Named ==
    ASSUME StoreInv, NEW h, get(store, h) # Empty
    PROVE  /\ h.flags = Cookie /\ h.id \in Ids
           /\ slots[h.id].kind = h.kind /\ slots[h.id].gen = h.gen
           /\ get(store, h) = slots[h.id].res
  <1>1. store.slots = slots
    BY DEF store
  <1>2. Slot(store, h) /\ slots[h.id].gen = h.gen /\ get(store, h) = slots[h.id].res
    BY <1>1 DEF get
  <1>3. DOMAIN slots = Ids
    BY DEF StoreInv, SlotsOK
  <1> QED BY <1>1, <1>2, <1>3 DEF Slot

\* A handle with the cookie is one that was issued.
LEMMA Issued ==
    ASSUME StoreInv, NEW h \in Handles, h.flags = Cookie
    PROVE  h \in DOMAIN given
  <1>1. CASE h \in DOMAIN given
    BY <1>1
  <1>2. CASE h \notin DOMAIN given
    <2>1. PICK g \in DOMAIN given : h = [g EXCEPT !.flags = 0]
      BY <1>2, ZenonT(30) DEF Handles
    <2>2. g = [kind |-> g.kind, id |-> g.id, gen |-> g.gen, flags |-> Cookie]
      BY DEF StoreInv, HandlesOK, Handle
    <2>3. h.flags = 0
      BY <2>1, <2>2
    <2> QED BY <2>3 DEF Cookie
  <1> QED BY <1>1, <1>2

\* The carrier of a connection or listener that a handle names exists and is free.
LEMMA NamedCarrier ==
    ASSUME IInv, NEW h, h.kind # SecurityConfig, get(store, h) # Empty
    PROVE  get(store, h).n \in DOMAIN carrier /\ carrier[get(store, h).n].owners = 0
  BY Named DEF IInv, OwnersOK

LEMMA CreateSecurityConfigStep ==
    ASSUME IInv, NEW c \in Configs, CreateSecurityConfig(c[1], c[2])
    PROVE  IInv'
  <1> DEFINE res == [kind |-> SecurityConfig, n |-> made + 1, side |-> c[1], transport |-> c[2]]
  <1>1. made \in Nat
    BY DEF IInv, StoreInv, SlotsOK
  <1>2. SecurityConfig \in Kinds /\ res \in Contents /\ res # Empty /\ res.kind = SecurityConfig /\ res.n = made + 1
    <2>1. SecurityConfig \in Kinds /\ SecurityConfig # "none"
      BY DEF Kinds, SecurityConfig
    <2>2. res \in [kind : {SecurityConfig}, n : Nat, side : {x[1] : x \in Configs}, transport : {x[2] : x \in Configs}]
      BY <1>1
    <2>3. Empty.kind = "none"
      BY DEF Empty
    <2>4. res.kind = SecurityConfig /\ res.n = made + 1
      OBVIOUS
    <2> HIDE DEF res
    <2> QED BY <2>1, <2>2, <2>3, <2>4 DEF Contents
  <1> HIDE DEF res
  <1>3. /\ StoreInv'
        /\ made' = made + 1
        /\ \A h \in DOMAIN given : h \in DOMAIN given' /\ given'[h] = given[h]
        /\ \A i \in Ids' : slots'[i].res = res \/ (i \in Ids /\ slots'[i] = slots[i])
    <2>1. StoreInv /\ Issue(SecurityConfig, res) /\ dead' = dead
      BY DEF IInv, CreateSecurityConfig, res
    <2> QED BY <1>2, <2>1, IssueKeepsStore
  <1>4. calls' = calls /\ carrier' = carrier
    BY DEF CreateSecurityConfig
  <1>5. CarriersOK'
    <2>1. \A n \in DOMAIN carrier : n \in 1..(made + 1)
      BY <1>1 DEF IInv, CarriersOK
    <2> QED BY <1>3, <1>4, <2>1 DEF IInv, CarriersOK, InOrder, Queue
  <1>6. OwnersOK'
    <2>1. \A i \in Ids' : slots'[i].res # Empty => slots'[i].res.kind = slots'[i].kind
      BY <1>3 DEF StoreInv, SlotsOK
    <2>2. \A i \in Ids' : slots'[i].res # Empty /\ slots'[i].kind # SecurityConfig =>
            slots'[i].res.n \in DOMAIN carrier' /\ carrier'[slots'[i].res.n].owners = 0
      <3> SUFFICES ASSUME NEW i \in Ids', slots'[i].res # Empty, slots'[i].kind # SecurityConfig
                   PROVE  slots'[i].res.n \in DOMAIN carrier' /\ carrier'[slots'[i].res.n].owners = 0
        OBVIOUS
      <3>1. i \in Ids /\ slots'[i] = slots[i]
        BY <1>2, <1>3, <2>1
      <3> QED BY <1>4, <3>1 DEF IInv, OwnersOK
    <2> QED BY <1>4, <2>2 DEF IInv, OwnersOK
  <1>7. CallsOK'
    BY <1>3, <1>4, CallsUnchanged DEF IInv
  <1> QED BY <1>3, <1>5, <1>6, <1>7 DEF IInv

LEMMA BeginOpenStep ==
    ASSUME IInv, NEW t \in Threads, NEW o \in Opens, NEW config, BeginOpen(t, o[1], o[2], o[3], config)
    PROVE  IInv'
  <1> DEFINE c == [op |-> o[1], transport |-> o[2], scheme |-> o[3], config |-> config]
  <1>1. c.op \in {"connect", "listen"}
    BY OpensAssumption
  <1>2. /\ Call(t, c)
        /\ UNCHANGED <<slots, reusable, made, given, dead, carrier, shutdowns>>
    BY DEF BeginOpen
  <1> HIDE DEF c
  <1>3. CallOK(c, given, DOMAIN carrier)
    BY <1>1 DEF CallOK
  <1> QED BY <1>2, <1>3, CallStep

LEMMA EndConnectStep ==
    ASSUME IInv, NEW t \in Threads, EndConnect(t)
    PROVE  IInv'
  <1> DEFINE c == calls[t]
             security == connect_transport(store, c.transport, c.scheme, c.config)
  <1>1. security \in {"plain", "tls"} /\ (Asked(c) <=> security = "tls")
    <2>1. connect_transport(store, c.transport, c.scheme, c.config) # "refused"
      BY DEF EndConnect
    <2> HIDE DEF c
    <2>2. /\ connect_transport(store, c.transport, c.scheme, c.config) \in {"plain", "tls"}
          /\ (c.config # NoConfig \/ c.scheme \in {"wss", "quic"}) <=>
               connect_transport(store, c.transport, c.scheme, c.config) = "tls"
      BY <2>1, ConnectedAsAsked
    <2> QED BY <2>2, ZenonT(30) DEF Asked
  <1>2. Asked(c) \in BOOLEAN
    BY DEF Asked
  <1>3. /\ Issue(Connection, [kind |-> Connection, n |-> made + 1])
        /\ AddCarrier(Connection, security, Asked(c))
        /\ Return(t) /\ UNCHANGED <<dead, shutdowns>>
    BY ZenonT(30) DEF EndConnect
  <1> HIDE DEF c, security
  <1> QED BY <1>1, <1>2, <1>3, OpenStep

LEMMA EndListenStep ==
    ASSUME IInv, NEW t \in Threads, EndListen(t)
    PROVE  IInv'
  <1> DEFINE c == calls[t]
             security == listen_transport(store, c.transport, c.scheme, c.config)
  <1>1. security \in {"plain", "tls"} /\ (Asked(c) <=> security = "tls")
    <2>1. listen_transport(store, c.transport, c.scheme, c.config) # "refused"
      BY DEF EndListen
    <2> HIDE DEF c
    <2>2. /\ listen_transport(store, c.transport, c.scheme, c.config) \in {"plain", "tls"}
          /\ (c.config # NoConfig \/ c.scheme \in {"wss", "quic"}) <=>
               listen_transport(store, c.transport, c.scheme, c.config) = "tls"
      BY <2>1, ListensAsAsked
    <2> QED BY <2>2, ZenonT(30) DEF Asked
  <1>2. Asked(c) \in BOOLEAN
    BY DEF Asked
  <1>3. /\ Issue(Listener, [kind |-> Listener, n |-> made + 1])
        /\ AddCarrier(Listener, security, Asked(c))
        /\ Return(t) /\ UNCHANGED <<dead, shutdowns>>
    BY DEF EndListen
  <1> HIDE DEF c, security
  <1> QED BY <1>1, <1>2, <1>3, OpenStep

LEMMA EndFailedStep ==
    ASSUME IInv, NEW t \in Threads, EndFailed(t)
    PROVE  IInv'
  <1>1. CallOK(Idle, given, DOMAIN carrier)
    BY DEF CallOK
  <1> QED BY <1>1, CallStep DEF EndFailed, Return

LEMMA BeginAcceptStep ==
    ASSUME IInv, NEW t \in Threads, NEW h \in Handles, BeginAccept(t, h)
    PROVE  IInv'
  <1> DEFINE c == [op |-> "accept", n |-> get(store, h).n]
  <1>1. c.n \in DOMAIN carrier /\ c.op = "accept"
    <2>1. h.kind # SecurityConfig /\ get(store, h) # Empty
      BY DEF BeginAccept, Listener, SecurityConfig
    <2> QED BY <2>1, NamedCarrier
  <1>2. /\ Call(t, c)
        /\ UNCHANGED <<slots, reusable, made, given, dead, carrier, shutdowns>>
    BY DEF BeginAccept
  <1> HIDE DEF c
  <1>3. CallOK(c, given, DOMAIN carrier)
    BY <1>1 DEF CallOK
  <1> QED BY <1>2, <1>3, CallStep

LEMMA EndAcceptStep ==
    ASSUME IInv, NEW t \in Threads, EndAccept(t)
    PROVE  IInv'
  <1> DEFINE l == carrier[calls[t].n]
  <1>1. calls[t].n \in DOMAIN carrier
    <2>1. CallOK(calls[t], given, DOMAIN carrier) /\ calls[t].op = "accept"
      BY DEF IInv, CallsOK, EndAccept
    <2> QED BY <2>1 DEF CallOK, Idle
  <1>2. l \in Carriers /\ (l.asked <=> l.security = "tls")
    BY <1>1 DEF IInv, CarriersOK
  <1>3. l.security \in {"plain", "tls"} /\ l.asked \in BOOLEAN
    BY <1>2 DEF Carriers
  <1>4. /\ Issue(Connection, [kind |-> Connection, n |-> made + 1])
        /\ AddCarrier(Connection, l.security, l.asked)
        /\ Return(t) /\ UNCHANGED <<dead, shutdowns>>
    BY DEF EndAccept
  <1> HIDE DEF l
  <1> QED BY <1>2, <1>3, <1>4, OpenStep

LEMMA BeginRoleStep ==
    ASSUME IInv, NEW t \in Threads, NEW h \in Handles, BeginRole(t, h)
    PROVE  IInv'
  <1> DEFINE c == [op |-> "role", handle |-> h, n |-> get(store, h).n]
  <1>1. h.kind # SecurityConfig /\ get(store, h) # Empty
    BY DEF BeginRole
  <1>2. /\ h.flags = Cookie /\ h.id \in Ids
        /\ slots[h.id].kind = h.kind /\ slots[h.id].gen = h.gen
        /\ get(store, h) = slots[h.id].res
    BY <1>1, Named DEF IInv
  <1>3. h \in DOMAIN given
    BY <1>2, Issued DEF IInv
  <1>4. given[h] = get(store, h).n
    BY <1>1, <1>2, <1>3 DEF IInv, StoreInv, HandlesOK
  <1>5. c.op = "role" /\ c.handle = h /\ c.n = given[h]
    BY <1>4
  <1>6. /\ Call(t, c)
        /\ UNCHANGED <<slots, reusable, made, given, dead, carrier, shutdowns>>
    BY DEF BeginRole
  <1> HIDE DEF c
  <1>7. CallOK(c, given, DOMAIN carrier)
    BY <1>1, <1>3, <1>5 DEF CallOK
  <1> QED BY <1>6, <1>7, CallStep

LEMMA TransportCloseStep ==
    ASSUME IInv, NEW h \in Handles, TransportClose(h)
    PROVE  IInv'
  <1>1. h \in DOMAIN given
    <2>1. h.flags = Cookie
      BY DEF TransportClose, CanClose, Slot
    <2> QED BY <2>1, Issued DEF IInv
  <1>2. /\ StoreInv'
        /\ Ids' = Ids
        /\ slots'[h.id].res = Empty
        /\ \A i \in Ids : i # h.id => slots'[i] = slots[i]
    BY <1>1, CloseKeepsStore DEF IInv, TransportClose
  <1>3. made' = made /\ given' = given /\ calls' = calls /\ carrier' = carrier
    BY DEF TransportClose
  <1>4. CarriersOK'
    BY <1>3 DEF IInv, CarriersOK, InOrder, Queue
  <1>5. OwnersOK'
    BY <1>2, <1>3 DEF IInv, OwnersOK
  <1>6. CallsOK'
    BY <1>3, CallsUnchanged DEF IInv
  <1> QED BY <1>2, <1>4, <1>5, <1>6 DEF IInv

LEMMA ShutdownStep ==
    ASSUME IInv, Shutdown
    PROVE  IInv'
  <1>1. /\ StoreInv'
        /\ Ids' = Ids
        /\ \A i \in Ids : slots'[i].res = Empty /\ slots'[i].invalidated
    BY InvalidateKeepsStore DEF IInv, Shutdown
  <1>2. made' = made /\ given' = given /\ calls' = calls /\ carrier' = carrier
    BY DEF Shutdown
  <1>3. CarriersOK'
    BY <1>2 DEF IInv, CarriersOK, InOrder, Queue
  <1>4. OwnersOK'
    BY <1>1, <1>2 DEF IInv, OwnersOK
  <1>5. CallsOK'
    BY <1>2, CallsUnchanged DEF IInv
  <1> QED BY <1>1, <1>3, <1>4, <1>5 DEF IInv

LEMMA PeerSendsStep ==
    ASSUME IInv, NEW n \in DOMAIN carrier, PeerSends(n)
    PROVE  IInv'
  <1> DEFINE c == carrier[n]
             d == [c EXCEPT !.arrived = @ + 1, !.inbound = Append(@, c.arrived + 1)]
  <1>1. c \in Carriers /\ InOrder(c)
    BY DEF IInv, CarriersOK
  <1>2. carrier' = [carrier EXCEPT ![n] = d]
    BY <1>1, ZenonT(30) DEF PeerSends, Carriers
  <1>3. d.asked = c.asked /\ d.security = c.security /\ d.owners = c.owners
    BY <1>1 DEF Carriers
  <1>4. d \in Carriers /\ InOrder(d)
    <2> HIDE DEF c
    <2> QED BY <1>1, ArrivalKeepsOrder, ZenonT(30)
  <1>5. UNCHANGED <<slots, reusable, made, given, dead, calls, shutdowns>>
    BY DEF PeerSends
  <1> HIDE DEF d
  <1> QED BY <1>2, <1>3, <1>4, <1>5, PacketStep, ZenonT(30)

LEMMA RoleReadStep ==
    ASSUME IInv, NEW n \in DOMAIN carrier, RoleRead(n)
    PROVE  IInv'
  <1> DEFINE c == carrier[n]
             d == [c EXCEPT !.delivered = Append(@, Head(Queue(c))),
                            !.pending = IF @ = <<>> THEN @ ELSE Tail(@),
                            !.inbound = IF c.pending = <<>> THEN Tail(@) ELSE @]
  <1>1. c \in Carriers /\ InOrder(c) /\ Queue(c) # <<>>
    BY DEF IInv, CarriersOK, RoleRead
  <1>2. carrier' = [carrier EXCEPT ![n] = d]
    BY <1>1, ZenonT(30) DEF RoleRead, Carriers
  <1>3. d.asked = c.asked /\ d.security = c.security /\ d.owners = c.owners
    BY <1>1 DEF Carriers
  <1>4. d \in Carriers /\ InOrder(d)
    <2> HIDE DEF c
    <2> QED BY <1>1, RoleReadKeepsOrder, ZenonT(30)
  <1>5. UNCHANGED <<slots, reusable, made, given, dead, calls, shutdowns>>
    BY DEF RoleRead
  <1> HIDE DEF d
  <1> QED BY <1>2, <1>3, <1>4, <1>5, PacketStep, ZenonT(30)

LEMMA TransportReadBatchStep ==
    ASSUME IInv, NEW h \in Handles, NEW frames \in BatchFrames, NEW bytes \in BatchBytes,
           TransportReadBatch(h, frames, bytes)
    PROVE  IInv'
  <1> DEFINE n == get(store, h).n
             c == carrier[n]
             q == Queue(c)
             Held(k) == HeldBack(c, k, frames, bytes)
             After(k) == [c EXCEPT !.pending = Held(k),
                                   !.inbound = SubSeq(q, k + Len(Held(k)) + 1, Len(q)),
                                   !.delivered = @ \o SubSeq(q, 1, k)]
  <1>1. n \in DOMAIN carrier
    <2>1. h.kind # SecurityConfig /\ get(store, h) # Empty
      BY ZenonT(30) DEF TransportReadBatch, Usable, Connection, SecurityConfig
    <2> QED BY <2>1, NamedCarrier
  <1>2. c \in Carriers /\ InOrder(c)
    BY <1>1 DEF IInv, CarriersOK
  <1>3. UNCHANGED <<slots, reusable, made, given, dead, calls, shutdowns>>
    BY ZenonT(30) DEF TransportReadBatch
  <1>4. c.delivered \in Seq(Nat) /\ q \in Seq(Nat) /\ Len(q) \in Nat
    <2>1. c.delivered \in Seq(Nat) /\ c.pending \in Seq(Nat) /\ c.inbound \in Seq(Nat)
      BY <1>2 DEF Carriers
    <2> QED BY <2>1, ConcatProperties, LenProperties, ZenonT(30) DEF Queue
  <1>5. PICK k \in 0..Len(q) : carrier' = [carrier EXCEPT ![n] = After(k)]
    <2>1. CASE \E k \in Batches(c, frames, bytes) :
                 carrier' = [carrier EXCEPT ![n] =
                   [AfterRead(c, k, Held(k)) EXCEPT !.delivered = @ \o SubSeq(q, 1, k)]]
      <3>1. PICK k \in Batches(c, frames, bytes) :
                 carrier' = [carrier EXCEPT ![n] =
                   [AfterRead(c, k, Held(k)) EXCEPT !.delivered = @ \o SubSeq(q, 1, k)]]
        BY <2>1, ZenonT(30)
      <3>2. k \in 1..Len(q)
        BY DEF Batches
      <3>3. k \in 0..Len(q)
        BY <1>4, <3>2
      <3>4. [AfterRead(c, k, Held(k)) EXCEPT !.delivered = @ \o SubSeq(q, 1, k)] = After(k)
        <4> HIDE DEF c, q, Held
        <4> QED BY <1>2 DEF AfterRead, Carriers, q
      <3> HIDE DEF n, c, q, Held, After
      <3> QED BY <3>1, <3>3, <3>4, ZenonT(30)
    <2>2. CASE carrier' = [carrier EXCEPT ![n] = AfterRead(c, 0, Held(0))]
      <3>1. SubSeq(q, 1, 0) = <<>>
        BY SubSeqEmpty
      <3>2. c.delivered \o SubSeq(q, 1, 0) = c.delivered
        BY <1>4, <3>1, ConcatEmptySeq
      <3>3. AfterRead(c, 0, Held(0)) = After(0)
        <4> HIDE DEF c, q, Held
        <4> QED BY <1>2, <3>2, ZenonT(30) DEF AfterRead, Carriers, q
      <3>4. 0 \in 0..Len(q)
        BY <1>4
      <3> HIDE DEF n, c, q, Held, After
      <3> QED BY <2>2, <3>3, <3>4, ZenonT(30)
    <2>3. \/ \E k \in Batches(c, frames, bytes) :
               carrier' = [carrier EXCEPT ![n] =
                 [AfterRead(c, k, Held(k)) EXCEPT !.delivered = @ \o SubSeq(q, 1, k)]]
          \/ carrier' = [carrier EXCEPT ![n] = AfterRead(c, 0, Held(0))]
      BY ZenonT(30) DEF TransportReadBatch
    <2> QED BY <2>1, <2>2, <2>3, ZenonT(30)
  <1>6. /\ Held(k) \in Seq(Nat)
        /\ Len(Held(k)) \in 0..(Len(q) - k)
        /\ Held(k) = SubSeq(q, k + 1, k + Len(Held(k)))
    <2>1. \A held : held = Held(k) =>
            /\ held \in Seq(Nat)
            /\ Len(held) \in 0..(Len(q) - k)
            /\ held = SubSeq(q, k + 1, k + Len(held))
      <3> HIDE DEF c
      <3> QED BY <1>2, HeldBackIsNext
    <2> HIDE DEF Held, q
    <2> QED BY <2>1
  <1>7. After(k) \in Carriers /\ InOrder(After(k))
    <2> HIDE DEF c, Held
    <2> QED BY <1>2, <1>6, ReadKeepsOrder, ZenonT(30)
  <1>8. After(k).asked = c.asked /\ After(k).security = c.security /\ After(k).owners = c.owners
    BY <1>2 DEF Carriers
  <1> HIDE DEF n, q, Held, After
  <1> QED BY <1>1, <1>3, <1>5, <1>7, <1>8, PacketStep, ZenonT(30)

LEMMA TransportReadFailsStep ==
    ASSUME IInv, NEW h \in Handles, NEW frames \in BatchFrames, NEW bytes \in BatchBytes,
           TransportReadFails(h, frames, bytes)
    PROVE  IInv'
  <1> DEFINE n == get(store, h).n
             c == carrier[n]
             q == Queue(c)
             After(k) == [c EXCEPT !.pending = <<>>, !.inbound = SubSeq(q, k + 1, Len(q)), !.lossy = TRUE]
  <1>1. n \in DOMAIN carrier
    <2>1. h.kind # SecurityConfig /\ get(store, h) # Empty
      BY DEF TransportReadFails, Usable, Connection, SecurityConfig
    <2> QED BY <2>1, NamedCarrier
  <1>2. c \in Carriers /\ InOrder(c)
    BY <1>1 DEF IInv, CarriersOK
  <1>3. UNCHANGED <<slots, reusable, made, given, dead, calls, shutdowns>>
    BY DEF TransportReadFails
  <1>4. Len(q) \in Nat
    <2>1. c.pending \in Seq(Nat) /\ c.inbound \in Seq(Nat)
      BY <1>2 DEF Carriers
    <2> QED BY <2>1, ConcatProperties, LenProperties, ZenonT(30) DEF Queue
  <1>5. PICK k \in Batches(c, frames, bytes) :
          carrier' = [carrier EXCEPT ![n] = [AfterRead(c, k, <<>>) EXCEPT !.lossy = TRUE]]
    BY ZenonT(30) DEF TransportReadFails
  <1>6. k \in 1..Len(q)
    BY DEF Batches
  <1>7. k \in 0..Len(q) /\ k + Len(<<>>) + 1 = k + 1
    BY <1>4, <1>6
  <1>8. [AfterRead(c, k, <<>>) EXCEPT !.lossy = TRUE] = After(k)
    <2> HIDE DEF c
    <2> QED BY <1>2, <1>7, ZenonT(30) DEF AfterRead, Carriers
  <1>9. After(k) \in Carriers /\ InOrder(After(k))
    <2> HIDE DEF c
    <2> QED BY <1>2, <1>7, FailedReadKeepsOrder, ZenonT(30)
  <1>10. After(k).asked = c.asked /\ After(k).security = c.security /\ After(k).owners = c.owners
    BY <1>2 DEF Carriers
  <1>11. carrier' = [carrier EXCEPT ![n] = After(k)]
    <2> HIDE DEF n, c, After
    <2> QED BY <1>5, <1>8, ZenonT(30)
  <1> HIDE DEF n, q, After
  <1> QED BY <1>1, <1>3, <1>9, <1>10, <1>11, PacketStep, ZenonT(30)

\* consume_role_transport: of the calls that hand a carrier over, one consumes its
\* handle, and the store no longer holds the carrier.
LEMMA EndRoleStep ==
    ASSUME IInv, NEW t \in Threads, EndRole(t)
    PROVE  IInv'
  <1> DEFINE h == calls[t].handle
             n == calls[t].n
             d == [carrier[n] EXCEPT !.owners = @ + 1]
  <1>1. h \in DOMAIN given /\ h.kind # SecurityConfig /\ n = given[h]
    <2>1. CallOK(calls[t], given, DOMAIN carrier) /\ calls[t].op = "role"
      BY DEF IInv, CallsOK, EndRole
    <2> QED BY <2>1 DEF CallOK, Idle
  <1>2. CanClose(store, h) /\ get(store, h).kind = h.kind
    BY DEF EndRole, Consumed
  <1>3. /\ h.id \in Ids /\ slots[h.id].kind = h.kind /\ slots[h.id].gen = h.gen
        /\ h.kind \in Kinds /\ get(store, h) = slots[h.id].res
    <2>1. store.slots = slots
      BY DEF store
    <2>2. Slot(store, h) /\ slots[h.id].gen = h.gen
      BY <1>2, <2>1 DEF CanClose
    <2>3. h.id \in Ids /\ slots[h.id].kind = h.kind
      BY <1>1 DEF IInv, StoreInv, HandlesOK
    <2>4. slots[h.id].kind \in Kinds
      BY <2>3 DEF IInv, StoreInv, SlotsOK, Slots
    <2>5. get(store, h) = slots[h.id].res
      BY <2>1, <2>2 DEF get
    <2> QED BY <2>2, <2>3, <2>4, <2>5
  <1>4. slots[h.id].res # Empty
    <2>1. Empty.kind = "none" /\ h.kind # "none"
      BY <1>3 DEF Empty, Kinds, Connection, Listener, SecurityConfig
    <2> QED BY <1>2, <1>3, <2>1
  <1>5. slots[h.id].res.n = n
    BY <1>1, <1>3, <1>4 DEF IInv, StoreInv, HandlesOK
  <1>6. n \in DOMAIN carrier /\ carrier[n].owners = 0
    BY <1>1, <1>3, <1>4, <1>5, ZenonT(30) DEF IInv, OwnersOK
  <1>7. \A i \in Ids : i # h.id /\ slots[i].res # Empty => slots[i].res.n # n
    BY <1>3, <1>4, <1>5, ZenonT(30) DEF IInv, StoreInv, SlotsOK
  <1>8. /\ slots' = close(store, h).slots /\ reusable' = close(store, h).reusable
        /\ dead' = dead \cup {h} /\ UNCHANGED <<made, given>>
        /\ carrier' = [carrier EXCEPT ![n].owners = @ + 1]
        /\ Return(t)
    BY DEF EndRole
  <1>9. carrier[n] \in Carriers /\ InOrder(carrier[n])
    BY <1>6 DEF IInv, CarriersOK
  <1>10. /\ d \in Carriers /\ d.owners = 1 /\ d.asked = carrier[n].asked
         /\ d.security = carrier[n].security
    <2> DEFINE c == carrier[n]
    <2>1. c \in Carriers /\ c.owners = 0
      BY <1>6, <1>9
    <2> HIDE DEF c, n
    <2>2. d = [c EXCEPT !.owners = 1]
      BY <2>1 DEF c
    <2> HIDE DEF d
    <2> QED BY <2>1, <2>2, ZenonT(30) DEF Carriers, c
  <1>11. InOrder(d)
    <2>1. /\ d.delivered = carrier[n].delivered /\ d.pending = carrier[n].pending
          /\ d.inbound = carrier[n].inbound /\ d.arrived = carrier[n].arrived
          /\ d.lossy = carrier[n].lossy
      BY <1>9 DEF Carriers
    <2> HIDE DEF d, n
    <2> QED BY <1>9, <2>1 DEF InOrder, Queue
  <1>12. carrier' = [carrier EXCEPT ![n] = d]
    BY <1>8
  <1> HIDE DEF h, n, d
  <1>13. /\ StoreInv'
         /\ Ids' = Ids
         /\ slots'[h.id].res = Empty
         /\ \A i \in Ids : i # h.id => slots'[i] = slots[i]
    BY <1>1, <1>2, <1>8, CloseKeepsStore DEF IInv
  <1>14. /\ CarriersOK'
         /\ DOMAIN carrier' = DOMAIN carrier
         /\ carrier'[n] = d
         /\ \A m \in DOMAIN carrier : m # n => carrier'[m] = carrier[m]
    BY <1>6, <1>8, <1>10, <1>11, <1>12, CarrierStep, ZenonT(30) DEF IInv
  <1>15. OwnersOK'
    <2>1. \A m \in DOMAIN carrier' : carrier'[m].owners <= 1
      BY <1>10, <1>14 DEF IInv, OwnersOK
    <2>2. \A i \in Ids' : slots'[i].res # Empty /\ slots'[i].kind # SecurityConfig =>
            slots'[i].res.n \in DOMAIN carrier' /\ carrier'[slots'[i].res.n].owners = 0
      <3> SUFFICES ASSUME NEW i \in Ids', slots'[i].res # Empty, slots'[i].kind # SecurityConfig
                   PROVE  slots'[i].res.n \in DOMAIN carrier' /\ carrier'[slots'[i].res.n].owners = 0
        OBVIOUS
      <3>1. i \in Ids /\ i # h.id /\ slots'[i] = slots[i]
        BY <1>13
      <3>2. slots[i].res.n \in DOMAIN carrier /\ carrier[slots[i].res.n].owners = 0
        BY <3>1 DEF IInv, OwnersOK
      <3>3. slots[i].res.n # n
        BY <1>7, <3>1
      <3> QED BY <1>14, <3>1, <3>2, <3>3
    <2> QED BY <2>1, <2>2 DEF OwnersOK
  <1>16. CallsOK'
    <2>1. CallOK(Idle, given', DOMAIN carrier')
      BY DEF CallOK
    <2> QED BY <1>8, <1>14, <2>1, CallsStep DEF IInv, Return
  <1> QED BY <1>13, <1>14, <1>15, <1>16 DEF IInv

-----------------------------------------------------------------------------
(* The invariant and what follows from it.                                   *)

LEMMA InitIInv == Init => IInv
  <1> SUFFICES ASSUME Init PROVE IInv
    OBVIOUS
  <1>1. slots = <<>> /\ given = <<>> /\ carrier = <<>> /\ made = 0 /\ dead = {}
    BY DEF Init
  <1>2. DOMAIN slots = {} /\ DOMAIN given = {} /\ DOMAIN carrier = {}
    BY <1>1
  <1>3. Cardinality(DOMAIN slots) = 0 /\ Ids = {}
    BY <1>2, FS_EmptySet DEF Ids
  <1>4. SlotsOK
    BY <1>1, <1>2, <1>3 DEF SlotsOK
  <1>5. FreeOK
    <2>1. \A k \in Kinds : Stack(<<>>, k, slots)
      BY EmptySeq DEF Stack
    <2> QED BY <2>1, EmptySeq DEF FreeOK, Init
  <1>6. HandlesOK
    BY <1>1, <1>2 DEF HandlesOK
  <1>7. CarriersOK /\ OwnersOK
    BY <1>1, <1>2, <1>3 DEF CarriersOK, OwnersOK
  <1>8. CallsOK
    BY DEF CallsOK, CallOK, Init
  <1> QED BY <1>4, <1>5, <1>6, <1>7, <1>8 DEF IInv, StoreInv

LEMMA NextIInv == IInv /\ [Next]_vars => IInv'
  <1> SUFFICES ASSUME IInv, [Next]_vars PROVE IInv'
    OBVIOUS
  <1>1. ASSUME NEW c \in Configs, CreateSecurityConfig(c[1], c[2])
        PROVE  IInv'
    BY <1>1, CreateSecurityConfigStep
  <1>2. ASSUME NEW t \in Threads, NEW o \in Opens, NEW config \in Handles \cup {NoConfig},
               BeginOpen(t, o[1], o[2], o[3], config)
        PROVE  IInv'
    BY <1>2, BeginOpenStep
  <1>3. ASSUME NEW t \in Threads,
               EndConnect(t) \/ EndListen(t) \/ EndFailed(t) \/ EndAccept(t) \/ EndRole(t)
        PROVE  IInv'
    BY <1>3, EndConnectStep, EndListenStep, EndFailedStep, EndAcceptStep, EndRoleStep
  <1>4. ASSUME NEW t \in Threads, NEW h \in Handles, BeginAccept(t, h) \/ BeginRole(t, h)
        PROVE  IInv'
    BY <1>4, BeginAcceptStep, BeginRoleStep
  <1>5. ASSUME NEW h \in Handles, TransportClose(h)
        PROVE  IInv'
    BY <1>5, TransportCloseStep
  <1>6. ASSUME NEW h \in Handles, NEW frames \in BatchFrames, NEW bytes \in BatchBytes,
               TransportReadBatch(h, frames, bytes) \/ TransportReadFails(h, frames, bytes)
        PROVE  IInv'
    BY <1>6, TransportReadBatchStep, TransportReadFailsStep
  <1>7. ASSUME NEW n \in DOMAIN carrier, PeerSends(n) \/ RoleRead(n)
        PROVE  IInv'
    BY <1>7, PeerSendsStep, RoleReadStep
  <1>8. CASE Shutdown
    BY <1>8, ShutdownStep
  <1>9. CASE UNCHANGED vars
    <2>1. UNCHANGED <<slots, reusable, made, given, dead, calls, carrier, shutdowns>>
      BY <1>9 DEF vars
    <2>2. StoreInv'
      BY <2>1 DEF IInv, StoreInv, SlotsOK, FreeOK, HandlesOK, Ids
    <2>3. CarriersOK'
      BY <2>1 DEF IInv, CarriersOK, InOrder, Queue
    <2>4. OwnersOK' /\ CallsOK'
      BY <2>1 DEF IInv, OwnersOK, CallsOK, Ids
    <2> QED BY <2>2, <2>3, <2>4 DEF IInv
  <1>10. CASE Next
    BY <1>1, <1>2, <1>3, <1>4, <1>5, <1>6, <1>7, <1>8, <1>10, ZenonT(30) DEF Next
  <1> QED BY <1>9, <1>10

\* The invariant of the transport store is inductive.
THEOREM StoreIsInductive == Spec => []IInv
  BY InitIInv, NextIInv, PTL DEF Spec

\* Until its own close, hand-over or a shutdown a handle names the resource that it
\* was issued for, and never a resource again after that, although its slot is used
\* for others (TransportStore::insert, ::get, ::close, ::invalidate_all): for every
\* number of threads, generations and resources.
THEOREM HandlesAreStable == Spec => []HandlesNameTheirResource
  <1>1. IInv => HandlesNameTheirResource
    <2> SUFFICES ASSUME IInv PROVE HandlesNameTheirResource
      OBVIOUS
    <2>1. store.slots = slots
      BY DEF store
    <2>2. DOMAIN slots = Ids
      BY DEF IInv, StoreInv, SlotsOK
    <2>3. dead = {h \in DOMAIN given : h.gen # slots[h.id].gen \/ slots[h.id].res = Empty}
      BY DEF IInv, StoreInv, HandlesOK
    <2>4. \A h \in DOMAIN given : h.flags = Cookie /\ h.id \in Ids /\ slots[h.id].kind = h.kind
      BY DEF IInv, StoreInv, HandlesOK, Handle
    <2>5. \A h \in DOMAIN given :
            get(store, h) = IF h.gen = slots[h.id].gen THEN slots[h.id].res ELSE Empty
      BY <2>1, <2>2, <2>4 DEF get, Slot
    <2>6. \A h \in dead : get(store, h) = Empty
      BY <2>3, <2>5
    <2>7. \A h \in DOMAIN given \ dead : get(store, h) # Empty /\ get(store, h).n = given[h]
      <3>1. \A h \in DOMAIN given : h.gen = slots[h.id].gen /\ slots[h.id].res # Empty =>
              given[h] = slots[h.id].res.n
        BY DEF IInv, StoreInv, HandlesOK
      <3> QED BY <2>3, <2>5, <3>1
    <2> QED BY <2>6, <2>7 DEF HandlesNameTheirResource
  <1> QED BY <1>1, StoreIsInductive, PTL

\* A carrier has one owner at a time, is secured exactly when the call that opened it
\* asked for it, and gives its packets in the order the peer sent them, whole unless
\* a read failed after it had taken some (consume_role_transport, connect_transport,
\* listen_transport, transport_read_batch, RoleTransport::read_packet).
THEOREM CarriersAreKept == Spec => []CarriersKeepTheirWord
  <1>1. IInv => CarriersKeepTheirWord
    <2> SUFFICES ASSUME IInv PROVE CarriersKeepTheirWord
      OBVIOUS
    <2>1. CarrierHasOneOwner
      BY DEF IInv, OwnersOK, CarrierHasOneOwner
    <2>2. SecuredWhenAsked
      BY DEF IInv, CarriersOK, SecuredWhenAsked
    <2>3. PacketsKeepOrder
      <3> SUFFICES ASSUME NEW n \in DOMAIN carrier
                   PROVE  LET all == carrier[n].delivered \o Queue(carrier[n])
                          IN /\ \A i, j \in DOMAIN all : i < j => all[i] < all[j]
                             /\ ~carrier[n].lossy => Len(all) = carrier[n].arrived
        BY DEF PacketsKeepOrder
      <3> DEFINE c == carrier[n]
                 all == c.delivered \o Queue(c)
      <3>1. c \in Carriers /\ Ordered(all, c.arrived, c.lossy)
        BY DEF IInv, CarriersOK, InOrder
      <3>2. all \in Seq(Nat)
        <4>1. c.delivered \in Seq(Nat) /\ c.pending \in Seq(Nat) /\ c.inbound \in Seq(Nat)
          BY <3>1 DEF Carriers
        <4> QED BY <4>1, ConcatProperties DEF Queue
      <3>3. DOMAIN all = 1..Len(all)
        BY <3>2, LenProperties
      <3> HIDE DEF all
      <3>4. /\ \A i, j \in DOMAIN all : i < j => all[i] < all[j]
            /\ ~c.lossy => Len(all) = c.arrived
        BY <3>1, <3>3 DEF Ordered
      <3> QED BY <3>4 DEF all
    <2> QED BY <2>1, <2>2, <2>3 DEF CarriersKeepTheirWord
  <1> QED BY <1>1, StoreIsInductive, PTL

\* A slot offered for reuse is offered once, holds nothing and has a generation left,
\* after whatever repeated closes and shutdowns (TransportStore::close,
\* ::invalidate_all).
THEOREM ReuseIsSafe == Spec => []FreeSlotsAreFree
  <1>1. IInv => FreeSlotsAreFree
    <2> SUFFICES ASSUME IInv, NEW k \in Kinds
                 PROVE  /\ IsInjective(reusable[k])
                        /\ \A i \in DOMAIN reusable[k] :
                             slots[reusable[k][i]].res = Empty /\ slots[reusable[k][i]].gen < MaxGen
      BY DEF FreeSlotsAreFree
    <2> DEFINE s == reusable[k]
    <2>1. Stack(s, k, slots)
      BY DEF IInv, StoreInv, FreeOK
    <2>2. s \in Seq(Nat)
      BY <2>1 DEF Stack
    <2> HIDE DEF s
    <2>3. DOMAIN s = 1..Len(s)
      BY <2>2, LenProperties
    <2>4. IsInjective(s)
      BY <2>1, <2>3 DEF Stack, IsInjective
    <2> QED BY <2>1, <2>3, <2>4 DEF Stack, s
  <1> QED BY <1>1, StoreIsInductive, PTL

\* A shutdown invalidates every handle issued before it: none can be closed after it
\* (TransportStore::invalidate_all).
THEOREM ShutdownsInvalidate == Spec => ShutdownInvalidates
  <1>1. IInv /\ shutdowns \in Nat /\ [Next]_vars => [Invalidates]_vars
    <2> SUFFICES ASSUME IInv, shutdowns \in Nat, Next, shutdowns' > shutdowns
                 PROVE  \A h \in DOMAIN given : ~CanClose(store', h)
      BY DEF Invalidates
    <2>1. Shutdown
      <3>1. shutdowns' # shutdowns
        OBVIOUS
      <3> QED BY <3>1, ZenonT(30) DEF Next, CreateSecurityConfig, BeginOpen, EndConnect, EndListen, EndFailed,
                 EndAccept, EndRole, BeginAccept, BeginRole, TransportClose, TransportReadBatch,
                 TransportReadFails, PeerSends, RoleRead
    <2>2. \A i \in Ids : slots'[i].invalidated
      BY <2>1, InvalidateKeepsStore DEF IInv, Shutdown
    <2>3. store'.slots = slots'
      BY DEF store
    <2>4. \A h \in DOMAIN given : h.id \in Ids
      BY DEF IInv, StoreInv, HandlesOK
    <2> QED BY <2>2, <2>3, <2>4 DEF CanClose
  <1>2. Init => shutdowns \in Nat
    BY DEF Init
  <1>3. shutdowns \in Nat /\ [Next]_vars => (shutdowns \in Nat)'
    <2>1. [Next]_vars => shutdowns' = shutdowns \/ shutdowns' = shutdowns + 1
      BY ZenonT(30) DEF vars, Next, CreateSecurityConfig, BeginOpen, EndConnect, EndListen, EndFailed,
             EndAccept, EndRole, BeginAccept, BeginRole, TransportClose, TransportReadBatch,
             TransportReadFails, PeerSends, RoleRead, Shutdown
    <2> QED BY <2>1
  <1> QED BY <1>1, <1>2, <1>3, StoreIsInductive, PTL DEF Spec, ShutdownInvalidates
=============================================================================
