------------------------------ MODULE HeapProofs ------------------------------
(***************************************************************************)
(* Proofs about Heap for every set of variables, every number of tables    *)
(* and members: reference counters are exact, nothing refers to a table    *)
(* that was freed, and what is never freed is kept by a cycle.             *)
(*                                                                         *)
(* References are held by slots, by members of tables and, in a cascade of *)
(* destructors, by the cells still to be cleared.  Exact says that the     *)
(* counters count all of them; each step of a cascade keeps it (Clears).   *)
(* A slot or member that is being assigned is held back from the count.    *)
(***************************************************************************)
EXTENDS Heap, NaturalSets, SequenceTheorems, FiniteSetTheorems, TLAPS

HeapCells  == {c \in Memcell : IsTable(c) => c.value \in Addresses}
MemberMaps == UNION {[keys -> HeapCells] : keys \in {K \in SUBSET HeapCells : IsFiniteSet(K)}}
TableSet   == [ref_counter : Nat \ {0}, members : MemberMaps]
TablesSet  == UNION {[live -> TableSet] : live \in SUBSET Addresses}
Clearings  == [tables : TablesSet, todo : Seq(HeapCells)]

(* The cells that hold a table: of a sequence, of a map of members, of all *)
(* tables, where the cell x is held back.                                  *)
InSeq(seq, t)  == {i \in DOMAIN seq : seq[i] = TableRef(t)}
InMap(map, t)  == {k \in DOMAIN map : map[k] = TableRef(t)}
InTables(ts, t, x) == {m \in MemberCells(ts) \ {x} : ts[m[1]].members[m[2]] = TableRef(t)}

Counter(ts, t) == IF t \in Live(ts) THEN ts[t].ref_counter ELSE 0

(* held[t] counts the references from slots. *)
Exact(ts, todo, held, x) ==
  \A t \in Addresses :
    Counter(ts, t) = held[t] + Cardinality(InTables(ts, t, x)) + Cardinality(InSeq(todo, t))

(* A member is held back only of a table that a slot keeps. *)
Exempt(x, held) == \A t \in Addresses, k \in HeapCells : x = <<t, k>> => held[t] > 0

NoCell == <<-1, Undef>>

-----------------------------------------------------------------------------
(* Types.                                                                  *)
LEMMA TablesFields ==
  ASSUME NEW ts \in TablesSet
  PROVE  /\ Live(ts) \subseteq Addresses /\ IsFiniteSet(Live(ts))
         /\ ts \in [Live(ts) -> TableSet]
         /\ \A t \in Live(ts) :
              /\ ts[t] = [ref_counter |-> ts[t].ref_counter, members |-> ts[t].members]
              /\ ts[t].ref_counter \in Nat \ {0}
              /\ DOMAIN ts[t].members \subseteq HeapCells
              /\ IsFiniteSet(DOMAIN ts[t].members)
              /\ ts[t].members \in [DOMAIN ts[t].members -> HeapCells]
<1>1. PICK live \in SUBSET Addresses : ts \in [live -> TableSet]
  BY DEF TablesSet
<1>2. Live(ts) = live
  BY <1>1 DEF Live
<1>3. IsFiniteSet(live)
  BY FS_Subset, HeapAssumption
<1>4. ASSUME NEW t \in live
      PROVE  /\ ts[t] = [ref_counter |-> ts[t].ref_counter, members |-> ts[t].members]
             /\ ts[t].ref_counter \in Nat \ {0} /\ ts[t].members \in MemberMaps
  BY <1>1 DEF TableSet
<1>5. ASSUME NEW map \in MemberMaps
      PROVE  /\ DOMAIN map \subseteq HeapCells /\ IsFiniteSet(DOMAIN map)
             /\ map \in [DOMAIN map -> HeapCells]
  BY DEF MemberMaps
<1> QED
  BY <1>1, <1>2, <1>3, <1>4, <1>5

LEMMA MapsAre ==
  ASSUME NEW map, DOMAIN map \subseteq HeapCells, IsFiniteSet(DOMAIN map),
         map \in [DOMAIN map -> HeapCells]
  PROVE  map \in MemberMaps
BY DEF MemberMaps

LEMMA TablesAre ==
  ASSUME NEW ts, DOMAIN ts \subseteq Addresses, ts \in [DOMAIN ts -> TableSet]
  PROVE  ts \in TablesSet
BY DEF TablesSet

LEMMA CellTypes ==
  /\ \A t \in Addresses : TableRef(t) \in HeapCells /\ IsTable(TableRef(t))
  /\ \A c \in HeapCells : IsTable(c) => c.value \in Addresses /\ c = TableRef(c.value)
  /\ \A c \in HeapCells, t \in Addresses : c = TableRef(t) <=> IsTable(c) /\ c.value = t
  /\ \A c \in Memcell : ~IsTable(c) => c \in HeapCells
  /\ Undef \in HeapCells /\ Nil \in HeapCells /\ \A n \in Int : Number(n) \in HeapCells
  /\ ~IsTable(Undef) /\ ~IsTable(Nil) /\ \A n \in Int : ~IsTable(Number(n))
  /\ \A t \in Addresses, u \in Addresses : TableRef(t) = TableRef(u) => t = u
BY HeapAssumption
   DEF HeapCells, Memcell, MemcellType, IsTable, TableRef, Undef, Nil, Number

(* The members of a table as the destructor goes through them.             *)
LEMMA Shifted ==
  ASSUME NEW A, A \subseteq Nat, IsFiniteSet(A), NEW d \in Nat
  PROVE  /\ IsFiniteSet({a + d : a \in A})
         /\ Cardinality({a + d : a \in A}) = Cardinality(A)
<1> DEFINE B == {a + d : a \in A}
           f == [a \in A |-> a + d]
<1>1. f \in Bijection(A, B)
  <2>1. f \in [A -> B]
    OBVIOUS
  <2>2. \A a, b \in A : f[a] = f[b] => a = b
    OBVIOUS
  <2>3. \A b \in B : \E a \in A : f[a] = b
    OBVIOUS
  <2> QED
    BY <2>1, <2>2, <2>3 DEF Bijection, Injection, Surjection, IsInjective
<1> HIDE DEF B, f
<1>2. ExistsBijection(A, B)
  BY <1>1 DEF ExistsBijection
<1>3. IsFiniteSet(B) /\ Cardinality(B) = Cardinality(A)
  BY <1>2, FS_Bijection
<1> QED
  BY <1>3 DEF B

LEMMA InSeqFinite ==
  ASSUME NEW seq \in Seq(HeapCells), NEW t
  PROVE  /\ IsFiniteSet(InSeq(seq, t)) /\ Cardinality(InSeq(seq, t)) \in Nat
         /\ InSeq(seq, t) \subseteq 1 .. Len(seq)
         /\ (Cardinality(InSeq(seq, t)) = 0 <=> InSeq(seq, t) = {})
<1>1. DOMAIN seq = 1 .. Len(seq) /\ Len(seq) \in Nat
  BY LenProperties
<1>2. InSeq(seq, t) \subseteq 1 .. Len(seq)
  BY <1>1 DEF InSeq
<1>3. IsFiniteSet(1 .. Len(seq))
  BY <1>1, FS_Interval
<1>4. IsFiniteSet(InSeq(seq, t))
  BY <1>2, <1>3, FS_Subset
<1> QED
  BY <1>2, <1>4, FS_CardinalityType, FS_EmptySet

LEMMA InConcat ==
  ASSUME NEW s \in Seq(HeapCells), NEW r \in Seq(HeapCells), NEW t
  PROVE  Cardinality(InSeq(s \o r, t)) = Cardinality(InSeq(s, t)) + Cardinality(InSeq(r, t))
<1>1. /\ Len(s) \in Nat /\ DOMAIN s = 1 .. Len(s)
      /\ Len(r) \in Nat /\ DOMAIN r = 1 .. Len(r)
  BY LenProperties
<1>2. /\ s \o r \in Seq(HeapCells) /\ Len(s \o r) = Len(s) + Len(r)
      /\ \A i \in 1 .. Len(s) + Len(r) : (s \o r)[i] = IF i <= Len(s) THEN s[i] ELSE r[i - Len(s)]
  BY ConcatProperties
<1>3. DOMAIN (s \o r) = 1 .. Len(s) + Len(r)
  BY <1>2, LenProperties
<1> DEFINE A == InSeq(s, t)
           B == InSeq(r, t)
           C == {b + Len(s) : b \in B}
<1>4. A \subseteq 1 .. Len(s) /\ IsFiniteSet(A) /\ B \subseteq 1 .. Len(r) /\ IsFiniteSet(B)
  BY InSeqFinite
<1>5. IsFiniteSet(C) /\ Cardinality(C) = Cardinality(B)
  <2>1. B \subseteq Nat
    BY <1>1, <1>4
  <2> HIDE DEF B
  <2> QED
    BY <1>1, <1>4, <2>1, Shifted
<1>6. InSeq(s \o r, t) = A \cup C
  <2>1. ASSUME NEW i \in 1 .. Len(s) + Len(r)
        PROVE  (s \o r)[i] = TableRef(t) <=> i \in A \cup C
    <3>1. CASE i <= Len(s)
      <4>1. i \notin C
        BY <1>1, <1>4, <3>1
      <4> QED
        BY <1>1, <1>2, <3>1, <4>1 DEF InSeq
    <3>2. CASE i > Len(s)
      <4>1. i \notin A /\ i - Len(s) \in 1 .. Len(r)
        BY <1>1, <1>4, <3>2
      <4>2. i \in C <=> i - Len(s) \in B
        BY <1>1, <1>4, <3>2
      <4>3. (s \o r)[i] = r[i - Len(s)]
        BY <1>1, <1>2, <3>2
      <4>4. i - Len(s) \in B <=> r[i - Len(s)] = TableRef(t)
        BY <1>1, <4>1 DEF InSeq
      <4> QED
        BY <4>1, <4>2, <4>3, <4>4
    <3> QED
      BY <1>1, <3>1, <3>2
  <2>2. A \cup C \subseteq 1 .. Len(s) + Len(r)
    BY <1>1, <1>4
  <2>3. InSeq(s \o r, t) = {i \in 1 .. Len(s) + Len(r) : (s \o r)[i] = TableRef(t)}
    BY <1>3 DEF InSeq
  <2> HIDE DEF A, C
  <2> QED
    BY <2>1, <2>2, <2>3
<1>7. A \cap C = {}
  BY <1>1, <1>4
<1>8. Cardinality(A \cup C) = Cardinality(A) + Cardinality(C) - Cardinality(A \cap C)
  BY <1>4, <1>5, FS_Union
<1>9. Cardinality(A) \in Nat /\ Cardinality(C) \in Nat /\ Cardinality({}) = 0
  BY <1>4, <1>5, FS_CardinalityType, FS_EmptySet
<1>10. A = InSeq(s, t) /\ B = InSeq(r, t)
  OBVIOUS
<1> HIDE DEF A, B, C
<1>11. Cardinality(A \cap C) = 0
  BY <1>7, <1>9
<1>12. Cardinality(A \cup C) = Cardinality(A) + Cardinality(B)
  BY <1>5, <1>8, <1>9, <1>11
<1> QED
  BY <1>6, <1>10, <1>12

(* What one cell refers to. *)
One(c, t) == IF c = TableRef(t) THEN 1 ELSE 0

LEMMA InOne ==
  ASSUME NEW c \in HeapCells, NEW t
  PROVE  <<c>> \in Seq(HeapCells) /\ Cardinality(InSeq(<<c>>, t)) = One(c, t)
<1>1. DOMAIN <<c>> = {1} /\ <<c>>[1] = c
  OBVIOUS
<1>2. InSeq(<<c>>, t) = IF c = TableRef(t) THEN {1} ELSE {}
  BY <1>1 DEF InSeq
<1>3. Cardinality({1}) = 1 /\ Cardinality({}) = 0
  BY FS_Singleton, FS_EmptySet
<1> QED
  BY <1>2, <1>3 DEF One

LEMMA InHeadTail ==
  ASSUME NEW todo \in Seq(HeapCells), todo # << >>, NEW t
  PROVE  /\ Head(todo) \in HeapCells /\ Tail(todo) \in Seq(HeapCells)
         /\ Len(Tail(todo)) = Len(todo) - 1
         /\ Cardinality(InSeq(todo, t)) = One(Head(todo), t) + Cardinality(InSeq(Tail(todo), t))
<1>1. /\ Head(todo) \in HeapCells /\ Tail(todo) \in Seq(HeapCells)
      /\ Len(Tail(todo)) = Len(todo) - 1
  BY HeadTailProperties
<1>2. todo = <<Head(todo)>> \o Tail(todo)
  BY <1>1
<1>3. <<Head(todo)>> \in Seq(HeapCells)
  BY <1>1, InOne
<1>4. Cardinality(InSeq(<<Head(todo)>> \o Tail(todo), t))
        = Cardinality(InSeq(<<Head(todo)>>, t)) + Cardinality(InSeq(Tail(todo), t))
  BY <1>1, <1>3, InConcat
<1>5. Cardinality(InSeq(<<Head(todo)>>, t)) = One(Head(todo), t)
  BY <1>1, InOne
<1> QED
  BY <1>1, <1>2, <1>4, <1>5

LEMMA MembersAre ==
  ASSUME NEW table \in TableSet
  PROVE  /\ Members(table) \in Seq(HeapCells)
         /\ Len(Members(table)) = Cardinality(DOMAIN table.members)
         /\ \A t : Cardinality(InSeq(Members(table), t)) = Cardinality(InMap(table.members, t))
<1> DEFINE map  == table.members
           keys == SetToSeq(DOMAIN map)
           n    == Cardinality(DOMAIN map)
<1>1. /\ IsFiniteSet(DOMAIN map) /\ map \in [DOMAIN map -> HeapCells]
      /\ n \in Nat /\ ExistsBijection(1 .. n, DOMAIN map)
  <2>1. map \in MemberMaps
    BY DEF TableSet
  <2> HIDE DEF map
  <2>2. IsFiniteSet(DOMAIN map) /\ map \in [DOMAIN map -> HeapCells]
    BY <2>1 DEF MemberMaps
  <2> QED
    BY <2>2, FS_CardinalityType
<1>2. keys \in [1 .. n -> DOMAIN map] /\ IsInjective(keys)
  <2>1. \E f \in [1 .. n -> DOMAIN map] : IsInjective(f)
    BY <1>1 DEF ExistsBijection, Bijection, Injection
  <2> QED
    BY <2>1 DEF SetToSeq
<1>3. keys \in Surjection(1 .. n, DOMAIN map)
  <2>1. keys \in Injection(1 .. n, DOMAIN map)
    BY <1>2 DEF Injection
  <2>2. IsFiniteSet(1 .. n) /\ Cardinality(1 .. n) = Cardinality(DOMAIN map)
    BY <1>1, FS_Interval
  <2> HIDE DEF keys, n
  <2> QED
    BY <1>1, <2>1, <2>2, FS_Injection
<1>4. Members(table) = [i \in 1 .. n |-> map[keys[i]]]
  BY <1>2 DEF Members
<1> HIDE DEF keys, n, map
<1>5. [i \in 1 .. n |-> map[keys[i]]] \in [1 .. n -> HeapCells]
  BY <1>1, <1>2
<1>6. Members(table) \in Seq(HeapCells) /\ Len(Members(table)) = n
  BY <1>1, <1>4, <1>5
<1>7. ASSUME NEW t
      PROVE  Cardinality(InSeq(Members(table), t)) = Cardinality(InMap(map, t))
  <2> DEFINE A == InSeq(Members(table), t)
             B == InMap(map, t)
             f == [i \in A |-> keys[i]]
  <2>1. A = {i \in 1 .. n : map[keys[i]] = TableRef(t)}
    BY <1>4 DEF InSeq
  <2>2. f \in [A -> B]
    BY <1>2, <2>1 DEF InMap
  <2>3. \A i, j \in A : f[i] = f[j] => i = j
    BY <1>2, <2>1 DEF IsInjective
  <2>4. \A k \in B : \E i \in A : f[i] = k
    BY <1>3, <2>1 DEF InMap, Surjection
  <2>5. IsFiniteSet(A)
    BY <1>6, InSeqFinite
  <2> HIDE DEF A, B
  <2>6. f \in Bijection(A, B)
    BY <2>2, <2>3, <2>4 DEF Bijection, Injection, Surjection, IsInjective
  <2>7. ExistsBijection(A, B)
    BY <2>6 DEF ExistsBijection
  <2>8. Cardinality(A) = Cardinality(B)
    BY <2>5, <2>7, FS_Bijection
  <2> QED
    BY <2>8 DEF A, B
<1> QED
  BY <1>6, <1>7 DEF map, n

-----------------------------------------------------------------------------
(* The members of all tables.                                              *)
LEMMA PairsCounted ==
  ASSUME NEW t, NEW A, IsFiniteSet(A)
  PROVE  IsFiniteSet({t} \X A) /\ Cardinality({t} \X A) = Cardinality(A)
<1>1. IsFiniteSet({t}) /\ Cardinality({t}) = 1 /\ Cardinality(A) \in Nat
  BY FS_Singleton, FS_CardinalityType
<1>2. IsFiniteSet({t} \X A) /\ Cardinality({t} \X A) = Cardinality({t}) * Cardinality(A)
  BY <1>1, FS_Product
<1>3. Cardinality({t}) * Cardinality(A) = Cardinality(A)
  BY <1>1
<1> QED
  BY <1>2, <1>3

LEMMA CellsFinite ==
  ASSUME NEW ts \in TablesSet
  PROVE  /\ IsFiniteSet(MemberCells(ts)) /\ Cardinality(MemberCells(ts)) \in Nat
         /\ \A t, x : /\ IsFiniteSet(InTables(ts, t, x))
                      /\ Cardinality(InTables(ts, t, x)) \in Nat
                      /\ Cardinality(InTables(ts, t, x)) = 0 <=> InTables(ts, t, x) = {}
         /\ \A m : m \in MemberCells(ts) <=> \E t \in Live(ts) : \E k \in DOMAIN ts[t].members : m = <<t, k>>
<1> DEFINE f == [t \in Live(ts) |-> {t} \X DOMAIN ts[t].members]
           S == {{t} \X DOMAIN ts[t].members : t \in Live(ts)}
<1>1. f \in Surjection(Live(ts), S)
  BY DEF Surjection
<1>2. IsFiniteSet(Live(ts)) /\ \A t \in Live(ts) : IsFiniteSet(DOMAIN ts[t].members)
  BY TablesFields
<1>3. IsFiniteSet(S)
  <2> HIDE DEF f, S
  <2> QED
    BY <1>1, <1>2, FS_Surjection
<1>4. \A T \in S : IsFiniteSet(T)
  <2>1. ASSUME NEW t \in Live(ts)
        PROVE  IsFiniteSet({t} \X DOMAIN ts[t].members)
    BY <1>2, PairsCounted
  <2> QED
    BY <2>1
<1>5. IsFiniteSet(MemberCells(ts))
  <2>1. IsFiniteSet(UNION S)
    <3> HIDE DEF S
    <3> QED
      BY <1>3, <1>4, FS_UNION
  <2> QED
    BY <2>1 DEF MemberCells
<1>6. ASSUME NEW t, NEW x
      PROVE  IsFiniteSet(InTables(ts, t, x))
  <2>1. InTables(ts, t, x) \subseteq MemberCells(ts)
    BY DEF InTables
  <2> QED
    BY <1>5, <2>1, FS_Subset
<1>7. \A m : m \in MemberCells(ts) <=> \E t \in Live(ts) : \E k \in DOMAIN ts[t].members : m = <<t, k>>
  BY DEF MemberCells
<1> QED
  BY <1>5, <1>6, <1>7, FS_CardinalityType, FS_EmptySet

(* A set of tables with the same members, but for the counters.            *)
SameMembers(ts, us) ==
  Live(us) = Live(ts) /\ \A t \in Live(ts) : us[t].members = ts[t].members

LEMMA SameCells ==
  ASSUME NEW ts, NEW us, SameMembers(ts, us)
  PROVE  MemberCells(us) = MemberCells(ts) /\ \A t, x : InTables(us, t, x) = InTables(ts, t, x)
<1>1. MemberCells(us) = MemberCells(ts)
  BY DEF SameMembers, MemberCells
<1>2. \A m \in MemberCells(ts) : m[1] \in Live(ts)
  BY DEF MemberCells
<1> QED
  BY <1>1, <1>2 DEF SameMembers, InTables

Recount(ts, t, n) == [ts EXCEPT ![t].ref_counter = n]

LEMMA Recounted ==
  ASSUME NEW ts \in TablesSet, NEW t \in Live(ts), NEW n \in Nat \ {0}
  PROVE  /\ Recount(ts, t, n) \in TablesSet /\ SameMembers(ts, Recount(ts, t, n))
         /\ \A u \in Addresses :
              Counter(Recount(ts, t, n), u) = IF u = t THEN n ELSE Counter(ts, u)
<1> DEFINE us == [ts EXCEPT ![t].ref_counter = n]
<1>1. /\ Live(ts) \subseteq Addresses /\ ts \in [Live(ts) -> TableSet]
      /\ ts[t] = [ref_counter |-> ts[t].ref_counter, members |-> ts[t].members]
  BY TablesFields
<1>2. ts[t].members \in MemberMaps
  BY <1>1 DEF TableSet
<1>3. /\ Live(us) = Live(ts) /\ DOMAIN us = Live(ts)
      /\ us[t] = [ref_counter |-> n, members |-> ts[t].members]
      /\ \A u \in Live(ts) : u # t => us[u] = ts[u]
  BY <1>1 DEF Live
<1>4. us[t] \in TableSet
  BY <1>2, <1>3 DEF TableSet
<1>5. us \in [Live(ts) -> TableSet]
  <2>1. \A u \in Live(ts) : us[u] \in TableSet
    BY <1>1, <1>3, <1>4
  <2>2. us = [u \in Live(ts) |-> us[u]]
    BY <1>3
  <2> HIDE DEF us
  <2> QED
    BY <2>1, <2>2
<1> HIDE DEF us
<1>6. us \in TablesSet
  BY <1>1, <1>3, <1>5, TablesAre
<1>7. SameMembers(ts, us)
  BY <1>3 DEF SameMembers
<1>8. \A u \in Addresses : Counter(us, u) = IF u = t THEN n ELSE Counter(ts, u)
  BY <1>3 DEF Counter
<1> QED
  BY <1>6, <1>7, <1>8 DEF us, Recount

(* A table that is freed takes its members with it.                        *)
LEMMA Freed ==
  ASSUME NEW ts \in TablesSet, NEW t \in Live(ts)
  PROVE  LET us == Restrict(ts, Live(ts) \ {t})
         IN  /\ us \in TablesSet
             /\ Live(us) = Live(ts) \ {t} /\ \A u \in Live(us) : us[u] = ts[u]
             /\ Cardinality(MemberCells(ts))
                  = Cardinality(MemberCells(us)) + Cardinality(DOMAIN ts[t].members)
             /\ \A u, x : (\A k \in HeapCells : x # <<t, k>>) =>
                  Cardinality(InTables(ts, u, x))
                    = Cardinality(InTables(us, u, x)) + Cardinality(InMap(ts[t].members, u))
<1> DEFINE us == Restrict(ts, Live(ts) \ {t})
           keys == DOMAIN ts[t].members
<1>1. /\ Live(ts) \subseteq Addresses /\ ts \in [Live(ts) -> TableSet]
      /\ keys \subseteq HeapCells /\ IsFiniteSet(keys)
  BY TablesFields
<1>2. Live(us) = Live(ts) \ {t} /\ DOMAIN us = Live(ts) \ {t} /\ \A u \in Live(us) : us[u] = ts[u]
  BY DEF Restrict, Live
<1>3. us \in TablesSet
  <2>1. us \in [Live(ts) \ {t} -> TableSet]
    BY <1>1 DEF Restrict
  <2> HIDE DEF us
  <2> QED
    BY <1>1, <1>2, <2>1, TablesAre
<1> HIDE DEF us
<1>4. /\ MemberCells(ts) = MemberCells(us) \cup ({t} \X keys)
      /\ MemberCells(us) \cap ({t} \X keys) = {}
  <2>1. \A m : m \in MemberCells(us) <=> \E u \in Live(us) : \E k \in DOMAIN us[u].members : m = <<u, k>>
    BY <1>3, CellsFinite
  <2>2. \A m : m \in MemberCells(ts) <=> \E u \in Live(ts) : \E k \in DOMAIN ts[u].members : m = <<u, k>>
    BY CellsFinite
  <2>3. \A m : m \in {t} \X keys <=> \E k \in keys : m = <<t, k>>
    OBVIOUS
  <2>4. \A m : m \in MemberCells(us) <=> m \in MemberCells(ts) /\ m \notin {t} \X keys
    BY <1>2, <2>1, <2>2, <2>3
  <2>5. {t} \X keys \subseteq MemberCells(ts)
    BY <2>2, <2>3
  <2> QED
    BY <2>4, <2>5
<1>5. ASSUME NEW A, NEW B, IsFiniteSet(A), IsFiniteSet(B), A \cap B = {}
      PROVE  Cardinality(A \cup B) = Cardinality(A) + Cardinality(B)
  <2>1. Cardinality(A) \in Nat /\ Cardinality(B) \in Nat /\ Cardinality(A \cap B) = 0
    BY <1>5, FS_CardinalityType, FS_EmptySet
  <2>2. Cardinality(A \cup B) = Cardinality(A) + Cardinality(B) - Cardinality(A \cap B)
    BY <1>5, FS_Union
  <2> QED
    BY <2>1, <2>2
<1>6. Cardinality(MemberCells(ts)) = Cardinality(MemberCells(us)) + Cardinality(keys)
  <2>1. IsFiniteSet(MemberCells(us)) /\ IsFiniteSet({t} \X keys)
    BY <1>1, <1>3, CellsFinite, PairsCounted
  <2>2. Cardinality(MemberCells(us) \cup ({t} \X keys))
          = Cardinality(MemberCells(us)) + Cardinality({t} \X keys)
    BY <1>4, <1>5, <2>1
  <2>3. Cardinality({t} \X keys) = Cardinality(keys)
    BY <1>1, PairsCounted
  <2> QED
    BY <1>4, <2>2, <2>3
<1>7. ASSUME NEW u, NEW x, \A k \in HeapCells : x # <<t, k>>
      PROVE  Cardinality(InTables(ts, u, x))
               = Cardinality(InTables(us, u, x)) + Cardinality(InMap(ts[t].members, u))
  <2> DEFINE A == InTables(us, u, x)
             K == InMap(ts[t].members, u)
  <2>1. K \subseteq keys /\ IsFiniteSet(K)
    BY <1>1, FS_Subset DEF InMap
  <2>2. IsFiniteSet(A) /\ IsFiniteSet({t} \X K) /\ Cardinality({t} \X K) = Cardinality(K)
    BY <1>3, <2>1, CellsFinite, PairsCounted
  <2>3. A \cap ({t} \X K) = {}
    <3>1. A \subseteq MemberCells(us) /\ {t} \X K \subseteq {t} \X keys
      BY <2>1 DEF InTables
    <3> QED
      BY <1>4, <3>1
  <2>4. InTables(ts, u, x) = A \cup ({t} \X K)
    <3>1. ASSUME NEW m \in MemberCells(us)
          PROVE  m[1] \in Live(us) /\ us[m[1]] = ts[m[1]]
      BY <1>2, <1>3, CellsFinite
    <3>2. ASSUME NEW m \in {t} \X keys
          PROVE  /\ m # x
                 /\ ts[m[1]].members[m[2]] = TableRef(u) <=> m \in {t} \X K
      <4>1. PICK k \in keys : m = <<t, k>>
        OBVIOUS
      <4>2. k \in HeapCells /\ m[1] = t /\ m[2] = k
        BY <1>1, <4>1
      <4>3. m \in {t} \X K <=> k \in K
        BY <4>1
      <4>4. k \in K <=> ts[t].members[k] = TableRef(u)
        BY <4>1 DEF InMap
      <4> QED
        BY <1>7, <4>1, <4>2, <4>3, <4>4
    <3>3. {t} \X K \subseteq {t} \X keys
      BY <2>1
    <3>4. ASSUME NEW m
          PROVE  m \in InTables(ts, u, x) <=> m \in A \/ m \in {t} \X K
      <4>1. CASE m \in MemberCells(us)
        <5>1. m \notin {t} \X K
          BY <1>4, <3>3, <4>1
        <5> QED
          BY <1>4, <3>1, <4>1, <5>1 DEF InTables
      <4>2. CASE m \in {t} \X keys
        <5>1. m \notin A
          BY <1>4, <4>2 DEF InTables
        <5> QED
          BY <1>4, <3>2, <4>2, <5>1 DEF InTables
      <4>3. CASE m \notin MemberCells(us) /\ m \notin {t} \X keys
        BY <1>4, <3>3, <4>3 DEF InTables
      <4> QED
        BY <4>1, <4>2, <4>3
    <3> QED
      BY <3>4
  <2> HIDE DEF A, K
  <2>5. Cardinality(A \cup ({t} \X K)) = Cardinality(A) + Cardinality({t} \X K)
    BY <1>5, <2>2, <2>3
  <2> QED
    BY <2>2, <2>4, <2>5 DEF A, K
<1> QED
  BY <1>2, <1>3, <1>6, <1>7 DEF us

-----------------------------------------------------------------------------
(* One step of a cascade of destructors keeps the counters exact, and      *)
(* leaves one cell less to be cleared.                                     *)
Left(h) == Len(h.todo) + Cardinality(MemberCells(h.tables))

Smaller(ts, us) ==
  Live(us) \subseteq Live(ts) /\ \A t \in Live(us) : us[t].members = ts[t].members

LEMMA Clears ==
  ASSUME NEW ts \in TablesSet, NEW todo \in Seq(HeapCells), todo # << >>,
         NEW held \in [Addresses -> Nat], NEW x, Exempt(x, held),
         Exact(ts, todo, held, x)
  PROVE  LET g == ClearNext(Clearing(ts, todo))
         IN  /\ g \in Clearings /\ Exact(g.tables, g.todo, held, x)
             /\ Smaller(ts, g.tables)
             /\ Left(g) = Left(Clearing(ts, todo)) - 1
<1> DEFINE rest == Tail(todo)
           cell == Head(todo)
           t    == cell.value
           g    == ClearNext(Clearing(ts, todo))
           K(u) == Cardinality(InTables(ts, u, x))
<1>1. /\ cell \in HeapCells /\ rest \in Seq(HeapCells) /\ Len(rest) = Len(todo) - 1
      /\ \A u : Cardinality(InSeq(todo, u)) = One(cell, u) + Cardinality(InSeq(rest, u))
  BY InHeadTail
<1>2. /\ Clearing(ts, todo).tables = ts /\ Clearing(ts, todo).todo = todo
      /\ \A us, s : Clearing(us, s).tables = us /\ Clearing(us, s).todo = s
      /\ \A us \in TablesSet, s \in Seq(HeapCells) : Clearing(us, s) \in Clearings
  BY DEF Clearing, Clearings
<1>3. g = IF ~IsTable(cell) \/ t \notin Live(ts) THEN Clearing(ts, rest)
          ELSE IF ts[t].ref_counter > 1
               THEN Clearing([ts EXCEPT ![t].ref_counter = @ - 1], rest)
               ELSE Clearing(Restrict(ts, Live(ts) \ {t}), Members(ts[t]) \o rest)
  BY <1>2 DEF ClearNext
<1>4. /\ \A u \in Addresses : One(cell, u) \in {0, 1} /\ (One(cell, u) = 1 <=> IsTable(cell) /\ t = u)
      /\ IsTable(cell) => t \in Addresses
  BY <1>1, CellTypes DEF One
<1>5. /\ Len(rest) \in Nat /\ Len(todo) \in Nat /\ Cardinality(MemberCells(ts)) \in Nat
      /\ \A u \in Addresses : K(u) \in Nat /\ held[u] \in Nat /\ Cardinality(InSeq(rest, u)) \in Nat
  BY <1>1, CellsFinite, InSeqFinite, LenProperties
<1>6. \A u \in Addresses :
        Counter(ts, u) = held[u] + K(u) + (One(cell, u) + Cardinality(InSeq(rest, u)))
  BY <1>1 DEF Exact
<1>7. CASE ~IsTable(cell) \/ t \notin Live(ts)
  <2>1. g.tables = ts /\ g.todo = rest /\ g \in Clearings
    <3>1. g = Clearing(ts, rest)
      BY <1>3, <1>7
    <3> HIDE DEF g, rest
    <3> QED
      BY <1>1, <1>2, <3>1
  <2>2. ~IsTable(cell)
    <3>1. SUFFICES ASSUME IsTable(cell), t \notin Live(ts)
                   PROVE  FALSE
      BY <1>7
    <3>2. Counter(ts, t) = 0 /\ One(cell, t) = 1 /\ t \in Addresses
      BY <1>4, <3>1 DEF Counter
    <3> HIDE DEF t, cell, rest, K
    <3> QED
      BY <1>5, <1>6, <3>2
  <2>3. \A u \in Addresses : One(cell, u) = 0
    BY <1>4, <2>2
  <2> HIDE DEF t, cell, rest, g
  <2>4. Exact(ts, rest, held, x)
    BY <1>5, <1>6, <2>3 DEF Exact
  <2>5. Left(g) = Left(Clearing(ts, todo)) - 1
    BY <1>1, <1>2, <1>5, <2>1 DEF Left
  <2> QED
    BY <2>1, <2>4, <2>5 DEF Smaller, g
<1>8. CASE IsTable(cell) /\ t \in Live(ts) /\ ts[t].ref_counter > 1
  <2> DEFINE n  == ts[t].ref_counter - 1
             us == Recount(ts, t, n)
  <2>1. g = Clearing(us, rest)
    BY <1>3, <1>8 DEF Recount
  <2>2. n \in Nat \ {0} /\ Counter(ts, t) = n + 1
    <3> HIDE DEF t
    <3>1. ts[t].ref_counter \in Nat \ {0} /\ Counter(ts, t) = ts[t].ref_counter
      BY <1>8, TablesFields DEF Counter
    <3> QED
      BY <1>8, <3>1
  <2>3. /\ us \in TablesSet /\ SameMembers(ts, us)
        /\ \A u \in Addresses : Counter(us, u) = IF u = t THEN n ELSE Counter(ts, u)
    <3> HIDE DEF n, t
    <3> QED
      BY <1>8, <2>2, Recounted
  <2> HIDE DEF n, t, cell, rest, g, us
  <2>4. MemberCells(us) = MemberCells(ts) /\ \A u : InTables(us, u, x) = InTables(ts, u, x)
    BY <2>3, SameCells
  <2>5. Exact(us, rest, held, x)
    <3>1. ASSUME NEW u \in Addresses
          PROVE  Counter(us, u) = held[u] + K(u) + Cardinality(InSeq(rest, u))
      <4>1. One(cell, u) = IF u = t THEN 1 ELSE 0
        BY <1>4, <1>8
      <4> HIDE DEF K
      <4> QED
        BY <1>5, <1>6, <2>2, <2>3, <4>1
    <3> QED
      BY <2>4, <3>1 DEF Exact
  <2>6. g \in Clearings /\ g.tables = us /\ g.todo = rest
    BY <1>1, <1>2, <2>1, <2>3
  <2>7. Left(g) = Left(Clearing(ts, todo)) - 1
    BY <1>1, <1>2, <1>5, <2>4, <2>6 DEF Left
  <2>8. Smaller(ts, us)
    BY <2>3 DEF Smaller, SameMembers
  <2> QED
    BY <2>5, <2>6, <2>7, <2>8 DEF g
<1>9. CASE IsTable(cell) /\ t \in Live(ts) /\ ~(ts[t].ref_counter > 1)
  <2> DEFINE us      == Restrict(ts, Live(ts) \ {t})
             members == Members(ts[t])
  <2>1. g = Clearing(us, members \o rest)
    BY <1>3, <1>9
  <2>2. ts[t] \in TableSet /\ t \in Addresses /\ Counter(ts, t) = 1
    <3>1. ts[t] \in TableSet /\ ts[t].ref_counter \in Nat \ {0} /\ t \in Addresses
      BY <1>9, TablesFields
    <3>2. Counter(ts, t) = ts[t].ref_counter
      BY <1>9 DEF Counter
    <3> QED
      BY <1>9, <3>1, <3>2
  <2>3. One(cell, t) = 1
    BY <1>4, <1>9, <2>2
  <2>4. held[t] = 0 /\ K(t) = 0 /\ Cardinality(InSeq(rest, t)) = 0
    <3> HIDE DEF t, cell, rest, K
    <3> QED
      BY <1>5, <1>6, <2>2, <2>3
  <2>5. \A k \in HeapCells : x # <<t, k>>
    BY <2>2, <2>4 DEF Exempt
  <2> HIDE DEF t, cell, rest, g, us, members
  <2>6. /\ us \in TablesSet
        /\ Live(us) = Live(ts) \ {t} /\ \A u \in Live(us) : us[u] = ts[u]
        /\ Cardinality(MemberCells(ts))
             = Cardinality(MemberCells(us)) + Cardinality(DOMAIN ts[t].members)
        /\ \A u : K(u) = Cardinality(InTables(us, u, x)) + Cardinality(InMap(ts[t].members, u))
    <3>1. LET vs == Restrict(ts, Live(ts) \ {t})
          IN  /\ vs \in TablesSet
              /\ Live(vs) = Live(ts) \ {t} /\ \A u \in Live(vs) : vs[u] = ts[u]
              /\ Cardinality(MemberCells(ts))
                   = Cardinality(MemberCells(vs)) + Cardinality(DOMAIN ts[t].members)
              /\ \A u, y : (\A k \in HeapCells : y # <<t, k>>) =>
                   Cardinality(InTables(ts, u, y))
                     = Cardinality(InTables(vs, u, y)) + Cardinality(InMap(ts[t].members, u))
      <4> HIDE DEF K
      <4> QED
        BY <1>9, Freed
    <3> QED
      BY <2>5, <3>1 DEF us
  <2>7. /\ members \in Seq(HeapCells) /\ Len(members) = Cardinality(DOMAIN ts[t].members)
        /\ \A u : Cardinality(InSeq(members, u)) = Cardinality(InMap(ts[t].members, u))
    BY <2>2, MembersAre DEF members
  <2>8. /\ members \o rest \in Seq(HeapCells)
        /\ Len(members \o rest) = Len(members) + Len(rest)
    BY <1>1, <2>7, ConcatProperties
  <2>9. Exact(us, members \o rest, held, x)
    <3>1. ASSUME NEW u \in Addresses
          PROVE  Counter(us, u) = held[u] + Cardinality(InTables(us, u, x))
                                    + Cardinality(InSeq(members \o rest, u))
      <4>1. Cardinality(InSeq(members \o rest, u))
              = Cardinality(InMap(ts[t].members, u)) + Cardinality(InSeq(rest, u))
        BY <1>1, <2>7, InConcat
      <4>2. Cardinality(InTables(us, u, x)) \in Nat /\ Cardinality(InMap(ts[t].members, u)) \in Nat
        <5>1. Cardinality(InSeq(members, u)) \in Nat
          BY <2>7, InSeqFinite
        <5> QED
          BY <2>6, <2>7, <5>1, CellsFinite
      <4>3. Counter(us, u) = IF u = t THEN 0 ELSE Counter(ts, u)
        BY <2>6 DEF Counter
      <4>4. One(cell, u) = IF u = t THEN 1 ELSE 0
        BY <1>4, <1>9
      <4>5. K(u) = Cardinality(InTables(us, u, x)) + Cardinality(InMap(ts[t].members, u))
        BY <2>6
      <4> HIDE DEF K
      <4>6. CASE u = t
        BY <2>4, <4>1, <4>2, <4>3, <4>5, <4>6
      <4>7. CASE u # t
        BY <1>5, <1>6, <4>1, <4>2, <4>3, <4>4, <4>5, <4>7
      <4> QED
        BY <4>6, <4>7
    <3> QED
      BY <3>1 DEF Exact
  <2>10. g \in Clearings /\ g.tables = us /\ g.todo = members \o rest
    BY <1>2, <2>1, <2>6, <2>8
  <2>11. Left(g) = Left(Clearing(ts, todo)) - 1
    <3>1. Cardinality(MemberCells(us)) \in Nat /\ Len(members) \in Nat
      BY <2>6, <2>7, CellsFinite, LenProperties
    <3> QED
      BY <1>1, <1>2, <1>5, <2>6, <2>7, <2>8, <2>10, <3>1 DEF Left
  <2>12. Smaller(ts, us)
    BY <2>6 DEF Smaller
  <2> QED
    BY <2>9, <2>10, <2>11, <2>12 DEF g
<1> QED
  BY <1>7, <1>8, <1>9

(* Memcell::clear with all that it sets off: nothing else changes, and a   *)
(* table that a slot keeps stays.                                          *)
LEMMA Releases ==
  ASSUME NEW ts \in TablesSet, NEW old \in HeapCells,
         NEW held \in [Addresses -> Nat], NEW x, Exempt(x, held),
         Exact(ts, <<old>>, held, x)
  PROVE  LET us == Release(ts, old)
         IN  /\ us \in TablesSet /\ Exact(us, << >>, held, x) /\ Smaller(ts, us)
             /\ \A t \in Addresses : held[t] > 0 => t \in Live(us)
<1> DEFINE S     == {h \in Clearings : Exact(h.tables, h.todo, held, x) /\ Smaller(ts, h.tables)}
           first == Clearing(ts, <<old>>)
           step  == [h \in S |-> ClearNext(h)]
           N     == 1 + Cardinality(MemberCells(ts))
<1>1. first \in S /\ first.tables = ts /\ first.todo = <<old>>
  <2>1. <<old>> \in Seq(HeapCells)
    BY InOne
  <2>2. first \in Clearings /\ first.tables = ts /\ first.todo = <<old>>
    BY <2>1 DEF Clearings, Clearing
  <2>3. Smaller(ts, ts)
    BY DEF Smaller
  <2> HIDE DEF first
  <2> QED
    BY <2>2, <2>3
<1>2. ASSUME NEW h \in S
      PROVE  /\ ClearNext(h) \in S
             /\ IF h.todo = << >> THEN ClearNext(h) = h ELSE Left(ClearNext(h)) = Left(h) - 1
  <2>1. CASE h.todo = << >>
    BY <2>1 DEF ClearNext
  <2>2. CASE h.todo # << >>
    <3>1. h.tables \in TablesSet /\ h.todo \in Seq(HeapCells) /\ h = Clearing(h.tables, h.todo)
      BY DEF Clearings, Clearing
    <3>2. /\ ClearNext(h) \in Clearings
          /\ Exact(ClearNext(h).tables, ClearNext(h).todo, held, x)
          /\ Smaller(h.tables, ClearNext(h).tables)
          /\ Left(ClearNext(h)) = Left(h) - 1
      BY <2>2, <3>1, Clears
    <3>3. Smaller(ts, ClearNext(h).tables)
      BY <3>2 DEF Smaller
    <3> QED
      BY <2>2, <3>2, <3>3
  <2> QED
    BY <2>1, <2>2
<1>3. step \in [S -> S]
  BY <1>2
<1>4. \A h \in S : Left(h) \in Nat /\ (Left(h) = 0 => h.todo = << >>)
  <2>1. ASSUME NEW h \in S
        PROVE  /\ Len(h.todo) \in Nat /\ Cardinality(MemberCells(h.tables)) \in Nat
               /\ Len(h.todo) = 0 => h.todo = << >>
    <3>1. h.tables \in TablesSet /\ h.todo \in Seq(HeapCells)
      BY DEF Clearings
    <3> QED
      BY <3>1, CellsFinite, EmptySeq, LenProperties
  <2> HIDE DEF S
  <2> QED
    BY <2>1 DEF Left
<1>5. N \in Nat /\ Left(first) = N
  <2>1. Cardinality(MemberCells(ts)) \in Nat /\ Len(<<old>>) = 1
    BY CellsFinite
  <2> HIDE DEF S, first
  <2> QED
    BY <1>1, <2>1 DEF Left
<1> HIDE DEF S, first, N, step
<1>6. PICK f \in [Nat -> S] : f[0] = first /\ \A n \in Nat : f[n + 1] = step[f[n]]
  <2>1. Stepping(S, first, step)
    BY <1>1, <1>3 DEF Stepping
  <2>2. \E f : Iterates(f, S, first, step)
    BY <2>1, Iteration
  <2> QED
    BY <2>2 DEF Iterates
<1>7. \A n \in Nat : f[n + 1] = ClearNext(f[n])
  BY <1>6 DEF step
<1>8. f[N].todo = << >>
  <2> DEFINE T == {n \in Nat : f[n].todo = << >> \/ Left(f[n]) + n = N}
  <2>1. 0 \in T
    BY <1>5, <1>6
  <2>2. ASSUME NEW n \in T
        PROVE  n + 1 \in T
    <3>1. f[n] \in S /\ f[n + 1] = ClearNext(f[n]) /\ Left(f[n]) \in Nat
      BY <1>4, <1>6, <1>7
    <3>2. CASE f[n].todo = << >>
      BY <1>2, <3>1, <3>2
    <3>3. CASE f[n].todo # << >>
      <4>1. Left(f[n + 1]) = Left(f[n]) - 1 /\ Left(f[n]) + n = N
        BY <1>2, <3>1, <3>3
      <4> QED
        BY <1>5, <3>1, <4>1
    <3> QED
      BY <3>2, <3>3
  <2> HIDE DEF T
  <2>3. Nat \subseteq T
    BY <2>1, <2>2, SetInduction
  <2>4. f[N].todo = << >> \/ Left(f[N]) + N = N
    BY <1>5, <2>3 DEF T
  <2> QED
    BY <1>4, <1>5, <1>6, <2>4
<1>9. Release(ts, old) = f[N].tables
  <2> DEFINE cascade == CHOOSE c : c = [n \in Nat |-> IF n = 0 THEN first ELSE ClearNext(c[n - 1])]
  <2>1. f = [n \in Nat |-> IF n = 0 THEN first ELSE ClearNext(f[n - 1])]
    <3>1. ASSUME NEW n \in Nat
          PROVE  f[n] = IF n = 0 THEN first ELSE ClearNext(f[n - 1])
      <4>1. CASE n = 0
        BY <1>6, <4>1
      <4>2. CASE n # 0
        <5>1. n - 1 \in Nat /\ (n - 1) + 1 = n
          BY <4>2
        <5> QED
          BY <1>7, <4>2, <5>1
      <4> QED
        BY <4>1, <4>2
    <3>2. f = [n \in Nat |-> f[n]]
      BY <1>6
    <3> QED
      BY <3>1, <3>2
  <2>2. \A n \in Nat : cascade[n] = IF n = 0 THEN first ELSE ClearNext(cascade[n - 1])
    <3> DEFINE P(c) == c = [n \in Nat |-> IF n = 0 THEN first ELSE ClearNext(c[n - 1])]
    <3>1. P(f) /\ cascade = CHOOSE c : P(c)
      BY <2>1
    <3>2. P(cascade)
      <4> HIDE DEF P, cascade
      <4> QED
        BY <3>1
    <3> HIDE DEF cascade
    <3> QED
      BY <3>2
  <2>3. Release(ts, old) = cascade[N].tables
    BY DEF Release, N, first
  <2> HIDE DEF cascade
  <2>4. cascade[N] = f[N]
    <3> DEFINE T == {n \in Nat : cascade[n] = f[n]}
    <3>1. 0 \in T
      BY <1>6, <2>2
    <3>2. ASSUME NEW n \in T
          PROVE  n + 1 \in T
      <4>1. cascade[n + 1] = ClearNext(cascade[n])
        <5>1. n + 1 \in Nat /\ n + 1 # 0 /\ (n + 1) - 1 = n
          OBVIOUS
        <5> QED
          BY <2>2, <5>1
      <4> QED
        BY <1>7, <4>1
    <3> HIDE DEF T
    <3>3. Nat \subseteq T
      BY <3>1, <3>2, SetInduction
    <3> QED
      BY <1>5, <3>3 DEF T
  <2> QED
    BY <2>3, <2>4
<1> DEFINE us == f[N].tables
<1>10. us \in TablesSet /\ Exact(us, << >>, held, x) /\ Smaller(ts, us)
  <2>1. f[N] \in S
    BY <1>5, <1>6
  <2>2. f[N] \in Clearings /\ Exact(us, f[N].todo, held, x) /\ Smaller(ts, us)
    BY <2>1 DEF S
  <2>3. us \in TablesSet
    BY <2>2 DEF Clearings
  <2> QED
    BY <1>8, <2>2, <2>3
<1>11. ASSUME NEW t \in Addresses, held[t] > 0
       PROVE  t \in Live(us)
  <2>1. Counter(us, t) = held[t] + Cardinality(InTables(us, t, x)) + Cardinality(InSeq(<< >>, t))
    BY <1>10 DEF Exact
  <2>2. Cardinality(InTables(us, t, x)) \in Nat /\ Cardinality(InSeq(<< >>, t)) \in Nat
    <3>1. << >> \in Seq(HeapCells)
      BY EmptySeq
    <3> HIDE DEF us
    <3> QED
      BY <1>10, <3>1, CellsFinite, InSeqFinite
  <2> HIDE DEF us
  <2>3. held[t] \in Nat
    OBVIOUS
  <2>4. Counter(us, t) > 0
    BY <1>11, <2>1, <2>2, <2>3
  <2> QED
    BY <2>4 DEF Counter
<1> HIDE DEF us
<1> QED
  BY <1>9, <1>10, <1>11 DEF us

-----------------------------------------------------------------------------
(* What slots hold.                                                        *)
HeldIn(cs, S) == [t \in Addresses |-> Cardinality({s \in S : cs[s] = TableRef(t)})]

LEMMA HeldWithout ==
  ASSUME NEW cs \in [Slots -> HeapCells], NEW S, S \subseteq Slots, NEW s \in S
  PROVE  /\ HeldIn(cs, S) \in [Addresses -> Nat]
         /\ HeldIn(cs, S \ {s}) \in [Addresses -> Nat]
         /\ \A t \in Addresses :
              HeldIn(cs, S)[t] = HeldIn(cs, S \ {s})[t] + One(cs[s], t)
<1>1. IsFiniteSet(Slots)
  <2>1. IsFiniteSet({"retval", "actual"})
    <3>1. IsFiniteSet({"retval"}) /\ {"retval", "actual"} = {"retval"} \cup {"actual"}
      BY FS_Singleton
    <3>2. IsFiniteSet({"retval"} \cup {"actual"})
      BY <3>1, FS_AddElement
    <3> QED
      BY <3>1, <3>2
  <2> QED
    BY <2>1, FS_Union, HeapAssumption DEF Slots
<1>2. ASSUME NEW T, T \subseteq Slots, NEW t
      PROVE  /\ IsFiniteSet({u \in T : cs[u] = TableRef(t)})
             /\ Cardinality({u \in T : cs[u] = TableRef(t)}) \in Nat
  <2>1. {u \in T : cs[u] = TableRef(t)} \subseteq Slots
    BY <1>2
  <2> QED
    BY <1>1, <2>1, FS_Subset, FS_CardinalityType
<1>3. HeldIn(cs, S) \in [Addresses -> Nat] /\ HeldIn(cs, S \ {s}) \in [Addresses -> Nat]
  BY <1>2 DEF HeldIn
<1>4. ASSUME NEW t \in Addresses
      PROVE  HeldIn(cs, S)[t] = HeldIn(cs, S \ {s})[t] + One(cs[s], t)
  <2> DEFINE A == {u \in S : cs[u] = TableRef(t)}
             B == {u \in S \ {s} : cs[u] = TableRef(t)}
  <2>1. HeldIn(cs, S)[t] = Cardinality(A) /\ HeldIn(cs, S \ {s})[t] = Cardinality(B)
    BY DEF HeldIn
  <2>2. IsFiniteSet(B) /\ Cardinality(B) \in Nat
    BY <1>2
  <2>3. CASE cs[s] = TableRef(t)
    <3>1. A = B \cup {s} /\ s \notin B
      BY <2>3
    <3> HIDE DEF A, B
    <3>2. Cardinality(B \cup {s}) = Cardinality(B) + 1
      BY <2>2, <3>1, FS_AddElement
    <3> QED
      BY <2>1, <2>3, <3>1, <3>2 DEF One
  <2>4. CASE cs[s] # TableRef(t)
    <3>1. A = B
      BY <2>4
    <3> HIDE DEF A, B
    <3> QED
      BY <2>1, <2>2, <2>4, <3>1 DEF One
  <2> QED
    BY <2>3, <2>4
<1> QED
  BY <1>3, <1>4

LEMMA HeldSame ==
  ASSUME NEW cs, NEW ds, NEW S, \A s \in S : cs[s] = ds[s]
  PROVE  HeldIn(cs, S) = HeldIn(ds, S)
<1>1. \A t : {s \in S : cs[s] = TableRef(t)} = {s \in S : ds[s] = TableRef(t)}
  OBVIOUS
<1> QED
  BY <1>1 DEF HeldIn

(* The content of a slot counts the same as a cell still to be cleared.    *)
LEMMA Moved ==
  ASSUME NEW ts \in TablesSet, NEW x, NEW c \in HeapCells,
         NEW held \in [Addresses -> Nat], NEW rest \in [Addresses -> Nat],
         \A t \in Addresses : held[t] = rest[t] + One(c, t)
  PROVE  Exact(ts, << >>, held, x) <=> Exact(ts, <<c>>, rest, x)
<1>1. \A t : Cardinality(InSeq(<<c>>, t)) = One(c, t)
  BY InOne
<1>2. \A t : Cardinality(InSeq(<< >>, t)) = 0
  <2>1. \A t : InSeq(<< >>, t) = {}
    BY DEF InSeq
  <2> QED
    BY <2>1, FS_EmptySet
<1>3. \A t : One(c, t) \in {0, 1}
  BY DEF One
<1>4. ASSUME NEW t \in Addresses, NEW n \in Nat
      PROVE  held[t] + n + 0 = rest[t] + n + One(c, t)
  BY <1>3
<1>5. \A t : Cardinality(InTables(ts, t, x)) \in Nat
  BY CellsFinite
<1> QED
  BY <1>1, <1>2, <1>4, <1>5 DEF Exact

(* What is referred to is allocated. *)
LEMMA Referred ==
  ASSUME NEW ts \in TablesSet, NEW held \in [Addresses -> Nat], NEW x,
         NEW todo \in Seq(HeapCells), Exact(ts, todo, held, x),
         NEW t \in Addresses, held[t] > 0 \/ InTables(ts, t, x) # {}
  PROVE  t \in Live(ts)
<1>1. /\ Counter(ts, t) = held[t] + Cardinality(InTables(ts, t, x)) + Cardinality(InSeq(todo, t))
      /\ held[t] \in Nat
  BY DEF Exact
<1>2. /\ Cardinality(InTables(ts, t, x)) \in Nat /\ Cardinality(InSeq(todo, t)) \in Nat
      /\ Cardinality(InTables(ts, t, x)) = 0 => InTables(ts, t, x) = {}
  BY CellsFinite, InSeqFinite
<1>3. Counter(ts, t) > 0
  BY <1>1, <1>2
<1> QED
  BY <1>3 DEF Counter

-----------------------------------------------------------------------------
(* Assigning to one cell. *)
LEMMA Acquires ==
  ASSUME NEW ts \in TablesSet, NEW c \in HeapCells, NEW held \in [Addresses -> Nat], NEW x,
         Exact(ts, << >>, held, x), IsTable(c) => c.value \in Live(ts)
  PROVE  LET us == Acquire(ts, c)
         IN  us \in TablesSet /\ Exact(us, <<c>>, held, x) /\ SameMembers(ts, us)
<1> DEFINE us == Acquire(ts, c)
<1>1. /\ \A t : Cardinality(InSeq(<<c>>, t)) = One(c, t)
      /\ \A t : Cardinality(InSeq(<< >>, t)) = 0
  <2>1. \A t : InSeq(<< >>, t) = {}
    BY DEF InSeq
  <2> QED
    BY <2>1, FS_EmptySet, InOne
<1>2. ASSUME NEW t \in Addresses
      PROVE  /\ One(c, t) = IF IsTable(c) /\ c.value = t THEN 1 ELSE 0
             /\ held[t] \in Nat /\ Cardinality(InTables(ts, t, x)) \in Nat
             /\ Counter(ts, t) = held[t] + Cardinality(InTables(ts, t, x)) + 0
  BY <1>1, CellTypes, CellsFinite DEF One, Exact
<1>3. CASE ~IsTable(c)
  <2>1. us = ts
    BY <1>3 DEF Acquire
  <2>2. Exact(ts, <<c>>, held, x)
    <3>1. \A t \in Addresses : One(c, t) = 0
      BY <1>2, <1>3
    <3> QED
      BY <1>1, <1>2, <3>1 DEF Exact
  <2> QED
    BY <2>1, <2>2 DEF SameMembers
<1>4. CASE IsTable(c)
  <2> DEFINE n == ts[c.value].ref_counter + 1
  <2>1. us = Recount(ts, c.value, n) /\ c.value \in Live(ts)
    BY <1>4 DEF Acquire, Recount
  <2>2. n \in Nat \ {0} /\ Counter(ts, c.value) = n - 1
    <3>1. ts[c.value].ref_counter \in Nat \ {0} /\ Counter(ts, c.value) = ts[c.value].ref_counter
      BY <2>1, TablesFields DEF Counter
    <3> QED
      BY <3>1
  <2> HIDE DEF n
  <2>3. /\ us \in TablesSet /\ SameMembers(ts, us)
        /\ \A u \in Addresses : Counter(us, u) = IF u = c.value THEN n ELSE Counter(ts, u)
    <3> HIDE DEF us
    <3> QED
      BY <2>1, <2>2, Recounted
  <2> HIDE DEF us
  <2>4. \A u : InTables(us, u, x) = InTables(ts, u, x)
    BY <2>3, SameCells
  <2>5. ASSUME NEW u \in Addresses
        PROVE  Counter(us, u) = held[u] + Cardinality(InTables(us, u, x)) + One(c, u)
    BY <1>2, <1>4, <2>2, <2>3, <2>4
  <2>6. Exact(us, <<c>>, held, x)
    BY <1>1, <2>5 DEF Exact
  <2> QED
    BY <2>3, <2>6 DEF us
<1> QED
  BY <1>3, <1>4

LEMMA Assigns ==
  ASSUME NEW ts \in TablesSet, NEW old \in HeapCells, NEW new \in HeapCells,
         NEW held \in [Addresses -> Nat], NEW x, Exempt(x, held),
         Exact(ts, <<old>>, held, x),
         IsTable(new) /\ new # old => new.value \in Live(Release(ts, old))
  PROVE  LET us == AssignTables(ts, old, new)
         IN  /\ us \in TablesSet /\ Exact(us, <<new>>, held, x) /\ Smaller(ts, us)
             /\ \A t \in Addresses : held[t] > 0 => t \in Live(us)
<1> DEFINE us == AssignTables(ts, old, new)
<1>1. us \in TablesSet /\ Exact(us, <<new>>, held, x) /\ Smaller(ts, us)
  <2>1. CASE IsTable(old) /\ new = old
    BY <2>1 DEF AssignTables, Smaller
  <2>2. CASE ~(IsTable(old) /\ new = old)
    <3> DEFINE vs == Release(ts, old)
    <3>1. us = Acquire(vs, new)
      BY <2>2 DEF AssignTables
    <3>2. vs \in TablesSet /\ Exact(vs, << >>, held, x) /\ Smaller(ts, vs)
      BY Releases
    <3>3. IsTable(new) => new.value \in Live(vs)
      BY <2>2
    <3> HIDE DEF vs, us
    <3>4. us \in TablesSet /\ Exact(us, <<new>>, held, x) /\ SameMembers(vs, us)
      BY <3>1, <3>2, <3>3, Acquires
    <3> QED
      BY <3>2, <3>4 DEF Smaller, SameMembers
  <2> QED
    BY <2>1, <2>2
<1> HIDE DEF us
<1>2. ASSUME NEW t \in Addresses, held[t] > 0
      PROVE  t \in Live(us)
  <2>1. <<new>> \in Seq(HeapCells)
    BY InOne
  <2> QED
    BY <1>1, <1>2, <2>1, Referred
<1> QED
  BY <1>1, <1>2 DEF us

-----------------------------------------------------------------------------
(* Changing the members of a table.                                        *)
MemberAt(ts, t, k)  == IF HasElem(ts[t], k) THEN ts[t].members[k] ELSE Undef
Rewrite(ts, t, map) == [ts EXCEPT ![t].members = map]

LEMMA HeldBack ==
  ASSUME NEW ts \in TablesSet, NEW t \in Live(ts), NEW k
  PROVE  /\ MemberAt(ts, t, k) \in HeapCells
         /\ \A u \in Addresses :
              Cardinality(InTables(ts, u, NoCell))
                = Cardinality(InTables(ts, u, <<t, k>>)) + One(MemberAt(ts, t, k), u)
<1> DEFINE x == <<t, k>>
           c == MemberAt(ts, t, k)
<1>1. /\ \A m : m \in MemberCells(ts) <=> \E u \in Live(ts) : \E j \in DOMAIN ts[u].members : m = <<u, j>>
      /\ \A u, y : IsFiniteSet(InTables(ts, u, y)) /\ Cardinality(InTables(ts, u, y)) \in Nat
  BY CellsFinite
<1>2. /\ Live(ts) \subseteq Addresses
      /\ ts[t].members \in [DOMAIN ts[t].members -> HeapCells]
  BY TablesFields
<1>3. c \in HeapCells
  BY <1>2, CellTypes DEF MemberAt, HasElem
<1>4. NoCell \notin MemberCells(ts)
  BY <1>1, <1>2, HeapAssumption DEF NoCell
<1>5. ASSUME NEW u \in Addresses
      PROVE  Cardinality(InTables(ts, u, NoCell)) = Cardinality(InTables(ts, u, x)) + One(c, u)
  <2>1. x \in MemberCells(ts) <=> HasElem(ts[t], k)
    BY <1>1 DEF HasElem
  <2>2. x[1] = t /\ x[2] = k /\ Undef # TableRef(u)
    BY CellTypes
  <2>3. CASE c = TableRef(u)
    <3>1. HasElem(ts[t], k) /\ ts[t].members[k] = TableRef(u)
      BY <2>2, <2>3 DEF MemberAt
    <3>2. InTables(ts, u, NoCell) = InTables(ts, u, x) \cup {x} /\ x \notin InTables(ts, u, x)
      <4> HIDE DEF x
      <4> QED
        BY <1>4, <2>1, <2>2, <3>1 DEF InTables
    <3> HIDE DEF x, c
    <3>3. Cardinality(InTables(ts, u, x) \cup {x}) = Cardinality(InTables(ts, u, x)) + 1
      BY <1>1, <3>2, FS_AddElement
    <3> QED
      BY <2>3, <3>2, <3>3 DEF One
  <2>4. CASE c # TableRef(u)
    <3>1. ~(x \in MemberCells(ts) /\ ts[x[1]].members[x[2]] = TableRef(u))
      BY <2>1, <2>2, <2>4 DEF MemberAt
    <3>2. InTables(ts, u, NoCell) = InTables(ts, u, x)
      <4> HIDE DEF x
      <4> QED
        BY <1>4, <3>1 DEF InTables
    <3> HIDE DEF x, c
    <3> QED
      BY <1>1, <2>4, <3>2 DEF One
  <2> QED
    BY <2>3, <2>4
<1> QED
  BY <1>3, <1>5

LEMMA Rewritten ==
  ASSUME NEW ts \in TablesSet, NEW t \in Live(ts), NEW k, NEW map \in MemberMaps,
         \A j : j # k => (j \in DOMAIN map <=> j \in DOMAIN ts[t].members),
         \A j \in DOMAIN map : j # k => map[j] = ts[t].members[j]
  PROVE  LET us == Rewrite(ts, t, map)
         IN  /\ us \in TablesSet /\ Live(us) = Live(ts) /\ us[t].members = map
             /\ \A u : Counter(us, u) = Counter(ts, u)
             /\ \A u : InTables(us, u, <<t, k>>) = InTables(ts, u, <<t, k>>)
<1> DEFINE us == Rewrite(ts, t, map)
<1>1. /\ Live(ts) \subseteq Addresses /\ ts \in [Live(ts) -> TableSet]
      /\ ts[t] = [ref_counter |-> ts[t].ref_counter, members |-> ts[t].members]
      /\ ts[t].ref_counter \in Nat \ {0}
  BY TablesFields
<1>2. /\ Live(us) = Live(ts) /\ DOMAIN us = Live(ts)
      /\ us[t] = [ref_counter |-> ts[t].ref_counter, members |-> map]
      /\ \A u \in Live(ts) : u # t => us[u] = ts[u]
  BY <1>1 DEF Live, Rewrite
<1>3. us \in [Live(ts) -> TableSet]
  <2>1. us[t] \in TableSet
    BY <1>1, <1>2 DEF TableSet
  <2>2. \A u \in Live(ts) : us[u] \in TableSet
    BY <1>1, <1>2, <2>1
  <2>3. us = [u \in Live(ts) |-> us[u]]
    BY <1>2 DEF Rewrite, Live
  <2> HIDE DEF us
  <2> QED
    BY <2>2, <2>3
<1> HIDE DEF us
<1>4. us \in TablesSet
  BY <1>1, <1>2, <1>3, TablesAre
<1>5. us[t].members = map /\ us[t].ref_counter = ts[t].ref_counter
  BY <1>2
<1>6. \A u : Counter(us, u) = Counter(ts, u)
  BY <1>2, <1>5 DEF Counter
<1>7. ASSUME NEW u
      PROVE  InTables(us, u, <<t, k>>) = InTables(ts, u, <<t, k>>)
  <2>1. \A m : m \in MemberCells(us) <=> \E v \in Live(us) : \E j \in DOMAIN us[v].members : m = <<v, j>>
    BY <1>4, CellsFinite
  <2>2. \A m : m \in MemberCells(ts) <=> \E v \in Live(ts) : \E j \in DOMAIN ts[v].members : m = <<v, j>>
    BY CellsFinite
  <2>3. ASSUME NEW v \in Live(ts), NEW j, <<v, j>> # <<t, k>>
        PROVE  /\ j \in DOMAIN us[v].members <=> j \in DOMAIN ts[v].members
               /\ j \in DOMAIN ts[v].members => us[v].members[j] = ts[v].members[j]
    BY <1>2, <1>5, <2>3
  <2>4. ASSUME NEW m, m # <<t, k>>
        PROVE  m \in MemberCells(us) <=> m \in MemberCells(ts)
    BY <1>2, <2>1, <2>2, <2>3, <2>4
  <2>5. ASSUME NEW m \in MemberCells(ts), m # <<t, k>>
        PROVE  us[m[1]].members[m[2]] = ts[m[1]].members[m[2]]
    <3>1. PICK v \in Live(ts) : \E j \in DOMAIN ts[v].members : m = <<v, j>>
      BY <2>2
    <3>2. PICK j \in DOMAIN ts[v].members : m = <<v, j>>
      BY <3>1
    <3> QED
      BY <2>3, <2>5, <3>2
  <2> QED
    BY <2>4, <2>5 DEF InTables
<1> QED
  BY <1>2, <1>4, <1>5, <1>6, <1>7 DEF us

(* Table::set_elem on a table that a slot keeps.                           *)
LEMMA SetElems ==
  ASSUME NEW ts \in TablesSet, NEW t \in Live(ts), NEW idx \in HeapCells, NEW val \in HeapCells,
         NEW held \in [Addresses -> Nat], Exact(ts, << >>, held, NoCell),
         held[t] > 0, IsTable(val) => held[val.value] > 0
  PROVE  LET us == SetElem(ts, t, idx, val)
         IN  us \in TablesSet /\ Exact(us, << >>, held, NoCell)
<1> DEFINE x   == <<t, idx>>
           old == MemberAt(ts, t, idx)
<1>1. Live(ts) \subseteq Addresses /\ t \in Addresses
  BY TablesFields
<1>2. Exempt(x, held)
  BY DEF Exempt
<1>3. old \in HeapCells
  BY HeldBack
<1>4. Exact(ts, <<old>>, held, x)
  <2>1. \A u : /\ Cardinality(InSeq(<<old>>, u)) = One(old, u)
               /\ Cardinality(InSeq(<< >>, u)) = 0
    <3>1. \A u : InSeq(<< >>, u) = {}
      BY DEF InSeq
    <3> HIDE DEF old
    <3> QED
      BY <1>3, <3>1, InOne, FS_EmptySet
  <2>2. ASSUME NEW u \in Addresses
        PROVE  Counter(ts, u) = held[u] + Cardinality(InTables(ts, u, x)) + One(old, u)
    <3>1. Cardinality(InTables(ts, u, NoCell)) = Cardinality(InTables(ts, u, x)) + One(old, u)
      BY HeldBack
    <3>2. Counter(ts, u) = held[u] + Cardinality(InTables(ts, u, NoCell)) + 0
      BY <2>1 DEF Exact
    <3>3. held[u] \in Nat /\ Cardinality(InTables(ts, u, x)) \in Nat /\ One(old, u) \in Nat
      BY CellsFinite DEF One
    <3> HIDE DEF x, old
    <3> QED
      BY <3>1, <3>2, <3>3
  <2> HIDE DEF x, old
  <2> QED
    BY <2>1, <2>2 DEF Exact
<1>5. ASSUME NEW us \in TablesSet, NEW c \in HeapCells, NEW map \in MemberMaps,
             Exact(us, IF c = Undef THEN << >> ELSE <<c>>, held, x), t \in Live(us),
             \A j : j # idx => (j \in DOMAIN map <=> j \in DOMAIN us[t].members),
             \A j \in DOMAIN map : j # idx => map[j] = us[t].members[j],
             MemberAt(Rewrite(us, t, map), t, idx) = c
      PROVE  Rewrite(us, t, map) \in TablesSet /\ Exact(Rewrite(us, t, map), << >>, held, NoCell)
  <2> DEFINE vs == Rewrite(us, t, map)
  <2>1. /\ vs \in TablesSet /\ Live(vs) = Live(us)
        /\ \A u : Counter(vs, u) = Counter(us, u)
        /\ \A u : InTables(vs, u, x) = InTables(us, u, x)
    BY <1>5, Rewritten
  <2> HIDE DEF vs
  <2>2. \A u \in Addresses :
          Cardinality(InTables(vs, u, NoCell)) = Cardinality(InTables(vs, u, x)) + One(c, u)
    <3>1. MemberAt(vs, t, idx) = c /\ t \in Live(vs)
      BY <1>5, <2>1 DEF vs
    <3> QED
      BY <2>1, <3>1, HeldBack
  <2>3. ASSUME NEW u \in Addresses
        PROVE  Counter(us, u) = held[u] + Cardinality(InTables(us, u, x)) + One(c, u)
    <3>1. \A v : InSeq(<< >>, v) = {}
      BY DEF InSeq
    <3>2. Cardinality(InSeq(IF c = Undef THEN << >> ELSE <<c>>, u)) = One(c, u)
      BY <3>1, InOne, FS_EmptySet, CellTypes DEF One
    <3> QED
      BY <1>5, <3>2 DEF Exact
  <2>4. \A u : Cardinality(InSeq(<< >>, u)) = 0
    <3>1. \A v : InSeq(<< >>, v) = {}
      BY DEF InSeq
    <3> QED
      BY <3>1, FS_EmptySet
  <2>5. ASSUME NEW u \in Addresses
        PROVE  Counter(vs, u) = held[u] + Cardinality(InTables(vs, u, NoCell)) + 0
    <3>1. held[u] \in Nat /\ Cardinality(InTables(us, u, x)) \in Nat /\ One(c, u) \in Nat
      BY CellsFinite DEF One
    <3> HIDE DEF x
    <3> QED
      BY <2>1, <2>2, <2>3, <3>1
  <2>6. Exact(vs, << >>, held, NoCell)
    BY <2>4, <2>5 DEF Exact
  <2> QED
    BY <2>1, <2>6 DEF vs
<1>6. CASE idx = Undef
  BY <1>6 DEF SetElem
<1>7. CASE idx # Undef /\ val = Nil
  <2> DEFINE us  == Release(ts, old)
             map == Restrict(us[t].members, DOMAIN us[t].members \ {idx})
  <2>1. /\ us \in TablesSet /\ Exact(us, << >>, held, x) /\ t \in Live(us)
    <3> HIDE DEF old, us, x
    <3>1. LET vs == Release(ts, old)
          IN  /\ vs \in TablesSet /\ Exact(vs, << >>, held, x)
              /\ \A u \in Addresses : held[u] > 0 => u \in Live(vs)
      BY <1>2, <1>3, <1>4, Releases
    <3> QED
      BY <1>1, <3>1 DEF us
  <2>2. SetElem(ts, t, idx, val) = Rewrite(us, t, map)
    BY <1>7 DEF SetElem, Rewrite, MemberAt
  <2> HIDE DEF us
  <2>3. /\ DOMAIN us[t].members \subseteq HeapCells /\ IsFiniteSet(DOMAIN us[t].members)
        /\ us[t].members \in [DOMAIN us[t].members -> HeapCells]
    BY <2>1, TablesFields
  <2>4. /\ DOMAIN map = DOMAIN us[t].members \ {idx}
        /\ \A j \in DOMAIN map : map[j] = us[t].members[j]
        /\ map \in [DOMAIN map -> HeapCells]
    BY <2>3 DEF Restrict
  <2> HIDE DEF map
  <2>5. map \in MemberMaps
    <3>1. IsFiniteSet(DOMAIN map)
      BY <2>3, <2>4, FS_Subset
    <3> QED
      BY <2>3, <2>4, <3>1, MapsAre
  <2>6. MemberAt(Rewrite(us, t, map), t, idx) = Undef
    <3>1. Rewrite(us, t, map)[t].members = map
      BY <2>1, <2>4, <2>5, Rewritten
    <3> QED
      BY <2>4, <3>1 DEF MemberAt, HasElem
  <2> QED
    <3>1. Exact(us, IF Undef = Undef THEN << >> ELSE <<Undef>>, held, x) /\ Undef \in HeapCells
      BY <2>1, CellTypes
    <3>2. \A j : j # idx => (j \in DOMAIN map <=> j \in DOMAIN us[t].members)
      BY <2>4
    <3>3. \A j \in DOMAIN map : j # idx => map[j] = us[t].members[j]
      BY <2>4
    <3> HIDE DEF x
    <3> QED
      BY <1>5, <2>1, <2>2, <2>5, <2>6, <3>1, <3>2, <3>3
<1>8. CASE idx # Undef /\ val # Nil
  <2> DEFINE us  == AssignTables(ts, old, val)
             map == [j \in DOMAIN us[t].members \cup {idx} |->
                       IF j = idx THEN val ELSE us[t].members[j]]
  <2>1. IsTable(val) => val.value \in Live(Release(ts, old))
    <3> HIDE DEF old, x
    <3>1. LET vs == Release(ts, old) IN \A u \in Addresses : held[u] > 0 => u \in Live(vs)
      BY <1>2, <1>3, <1>4, Releases
    <3> QED
      BY <3>1, CellTypes
  <2>2. us \in TablesSet /\ Exact(us, <<val>>, held, x) /\ t \in Live(us)
    <3> HIDE DEF old, us, x
    <3>1. LET vs == AssignTables(ts, old, val)
          IN  /\ vs \in TablesSet /\ Exact(vs, <<val>>, held, x)
              /\ \A u \in Addresses : held[u] > 0 => u \in Live(vs)
      BY <1>2, <1>3, <1>4, <2>1, Assigns
    <3> QED
      BY <1>1, <3>1 DEF us
  <2>3. SetElem(ts, t, idx, val) = Rewrite(us, t, map)
    BY <1>8 DEF SetElem, Rewrite, MemberAt
  <2> HIDE DEF us
  <2>4. /\ DOMAIN us[t].members \subseteq HeapCells /\ IsFiniteSet(DOMAIN us[t].members)
        /\ us[t].members \in [DOMAIN us[t].members -> HeapCells]
    BY <2>2, TablesFields
  <2>5. /\ DOMAIN map = DOMAIN us[t].members \cup {idx}
        /\ \A j \in DOMAIN map : j # idx => map[j] = us[t].members[j]
        /\ map[idx] = val /\ map \in [DOMAIN map -> HeapCells]
    BY <2>4
  <2> HIDE DEF map
  <2>6. map \in MemberMaps
    <3>1. IsFiniteSet(DOMAIN map)
      <4>1. IsFiniteSet(DOMAIN us[t].members \cup {idx})
        BY <2>4, FS_AddElement
      <4> QED
        BY <2>5, <4>1
    <3>2. DOMAIN map \subseteq HeapCells
      BY <2>4, <2>5
    <3> QED
      BY <2>5, <3>1, <3>2, MapsAre
  <2>7. MemberAt(Rewrite(us, t, map), t, idx) = val
    <3>1. Rewrite(us, t, map)[t].members = map
      BY <2>2, <2>5, <2>6, Rewritten
    <3> QED
      BY <2>5, <3>1 DEF MemberAt, HasElem
  <2>8. Exact(us, IF val = Undef THEN << >> ELSE <<val>>, held, x)
    <3>1. CASE val = Undef
      <4>1. \A u \in Addresses : One(Undef, u) = 0
        BY CellTypes DEF One
      <4>2. \A u \in Addresses : held[u] = held[u] + One(Undef, u)
        BY <4>1
      <4> HIDE DEF x
      <4> QED
        BY <2>2, <3>1, <4>2, CellTypes, Moved
    <3> QED
      BY <2>2, <3>1
  <2> QED
    BY <1>5, <2>2, <2>3, <2>5, <2>6, <2>7, <2>8
<1> QED
  BY <1>6, <1>7, <1>8

-----------------------------------------------------------------------------
(* Building a table: create_table, get_keys and the copy constructor.      *)
LEMMA NoCellIsNone ==
  /\ \A t \in Addresses : \A k : NoCell # <<t, k>>
  /\ \A held : Exempt(NoCell, held)
BY HeapAssumption DEF NoCell, Exempt

LEMMA NothingToClear == \A t : Cardinality(InSeq(<< >>, t)) = 0
<1>1. \A t : InSeq(<< >>, t) = {}
  BY DEF InSeq
<1> QED
  BY <1>1, FS_EmptySet

LEMMA NewTables ==
  ASSUME NEW ts \in TablesSet, NEW held \in [Addresses -> Nat],
         Exact(ts, << >>, held, NoCell), NEW t \in Addresses \ Live(ts), NEW map \in MemberMaps,
         \A k \in DOMAIN map : IsTable(map[k]) => map[k].value \in Live(ts)
  PROVE  LET table == [ref_counter |-> 1, members |-> map]
             us    == AcquireMembers(With(ts, t, table), table)
         IN  us \in TablesSet /\ Exact(us, <<TableRef(t)>>, held, NoCell)
<1> DEFINE table == [ref_counter |-> 1, members |-> map]
           ws    == With(ts, t, table)
           us    == AcquireMembers(ws, table)
           K(u)  == Cardinality(InMap(map, u))
<1>1. Live(ts) \subseteq Addresses /\ ts \in [Live(ts) -> TableSet]
  BY TablesFields
<1>2. /\ DOMAIN map \subseteq HeapCells /\ IsFiniteSet(DOMAIN map)
      /\ map \in [DOMAIN map -> HeapCells]
  BY DEF MemberMaps
<1>3. /\ Live(ws) = Live(ts) \cup {t} /\ DOMAIN ws = Live(ts) \cup {t} /\ ws[t] = table
      /\ \A u \in Live(ts) : ws[u] = ts[u]
      /\ ws = [u \in Live(ts) \cup {t} |-> ws[u]]
  BY DEF With, Live
<1>4. table \in TableSet /\ table.ref_counter = 1 /\ table.members = map
  BY DEF TableSet
<1> HIDE DEF ws, table
<1>5. ws \in TablesSet
  <2>1. \A u \in Live(ts) \cup {t} : ws[u] \in TableSet
    BY <1>1, <1>3, <1>4
  <2>2. ws \in [DOMAIN ws -> TableSet]
    BY <1>3, <2>1
  <2> QED
    BY <1>1, <1>3, <2>2, TablesAre
<1>6. \A u : Cardinality(InTables(ws, u, NoCell)) = Cardinality(InTables(ts, u, NoCell)) + K(u)
  <2>1. Restrict(ws, Live(ws) \ {t}) = ts
    <3>1. Live(ws) \ {t} = Live(ts)
      BY <1>3
    <3>2. ts = [u \in Live(ts) |-> ts[u]]
      BY <1>1
    <3> QED
      BY <1>3, <3>1, <3>2 DEF Restrict
  <2>2. LET vs == Restrict(ws, Live(ws) \ {t})
        IN  \A u, x : (\A k \in HeapCells : x # <<t, k>>) =>
              Cardinality(InTables(ws, u, x))
                = Cardinality(InTables(vs, u, x)) + Cardinality(InMap(ws[t].members, u))
    <3> HIDE DEF K
    <3> QED
      BY <1>3, <1>5, Freed
  <2> QED
    BY <1>3, <1>4, <2>1, <2>2, NoCellIsNone
<1>7. \A u : K(u) \in Nat
  <2>1. \A u : InMap(map, u) \subseteq DOMAIN map
    BY DEF InMap
  <2> QED
    BY <1>2, <2>1, FS_Subset, FS_CardinalityType
<1>8. /\ us = [u \in Live(ws) |-> us[u]]
      /\ \A u \in Live(ws) :
           us[u] = [ref_counter |-> ws[u].ref_counter + K(u), members |-> ws[u].members]
  <2>1. \A u \in Live(ws) : us[u] = [ws[u] EXCEPT !.ref_counter = @ + K(u)]
    BY <1>4 DEF AcquireMembers, InMap
  <2>2. \A u \in Live(ws) :
          ws[u] = [ref_counter |-> ws[u].ref_counter, members |-> ws[u].members]
    <3> HIDE DEF K, us
    <3> QED
      BY <1>5, TablesFields
  <2>3. us = [u \in Live(ws) |-> us[u]]
    BY DEF AcquireMembers
  <2> HIDE DEF K, us
  <2>4. ASSUME NEW u \in Live(ws)
        PROVE  us[u] = [ref_counter |-> ws[u].ref_counter + K(u), members |-> ws[u].members]
    <3>1. [[ref_counter |-> ws[u].ref_counter, members |-> ws[u].members]
             EXCEPT !.ref_counter = @ + K(u)]
            = [ref_counter |-> ws[u].ref_counter + K(u), members |-> ws[u].members]
      OBVIOUS
    <3> QED
      BY <2>1, <2>2, <3>1
  <2> QED
    BY <2>3, <2>4
<1> HIDE DEF us, K
<1>9. /\ Live(us) = Live(ws) /\ us \in TablesSet /\ SameMembers(ws, us)
      /\ \A u \in Live(ws) : us[u].ref_counter = ws[u].ref_counter + K(u)
  <2>1. Live(us) = Live(ws) /\ DOMAIN us = Live(ws)
    BY <1>8 DEF Live
  <2>2. ASSUME NEW u \in Live(ws)
        PROVE  us[u] \in TableSet /\ us[u].members = ws[u].members
               /\ us[u].ref_counter = ws[u].ref_counter + K(u)
    <3>1. ws[u].ref_counter \in Nat \ {0} /\ ws[u].members \in MemberMaps
      <4>1. ws[u] \in TableSet
        BY <1>5, TablesFields
      <4> QED
        BY <4>1 DEF TableSet
    <3>2. ws[u].ref_counter + K(u) \in Nat \ {0}
      BY <1>7, <3>1
    <3> QED
      BY <1>8, <3>1, <3>2 DEF TableSet
  <2>3. us \in [DOMAIN us -> TableSet]
    BY <1>8, <2>1, <2>2
  <2>4. us \in TablesSet
    <3>1. Live(ws) \subseteq Addresses
      BY <1>5, TablesFields
    <3> QED
      BY <2>1, <2>3, <3>1, TablesAre
  <2> QED
    BY <2>1, <2>2, <2>4 DEF SameMembers
<1>10. \A u : InTables(us, u, NoCell) = InTables(ws, u, NoCell)
  BY <1>9, SameCells
<1>11. ASSUME NEW u \in Addresses
       PROVE  Counter(us, u) = Counter(ts, u) + K(u) + One(TableRef(t), u)
  <2>1. One(TableRef(t), u) = IF u = t THEN 1 ELSE 0
    BY CellTypes DEF One
  <2>2. CASE u = t
    <3>1. Counter(us, u) = 1 + K(u) /\ Counter(ts, u) = 0
      BY <1>3, <1>4, <1>9, <2>2 DEF Counter
    <3>2. K(u) \in Nat
      BY <1>7
    <3> QED
      BY <2>1, <2>2, <3>1, <3>2
  <2>3. CASE u \in Live(ts)
    <3>1. ts[u].ref_counter \in Nat /\ u # t /\ u \in Live(ws)
      BY <1>3, <2>3, TablesFields
    <3>2. Counter(us, u) = ts[u].ref_counter + K(u) /\ Counter(ts, u) = ts[u].ref_counter
      BY <1>3, <1>9, <2>3, <3>1 DEF Counter
    <3>3. K(u) \in Nat
      BY <1>7
    <3> QED
      BY <2>1, <3>1, <3>2, <3>3
  <2>4. CASE u \notin Live(ts) /\ u # t
    <3>1. K(u) = 0
      <4>1. ASSUME NEW k \in DOMAIN map, map[k] = TableRef(u)
            PROVE  FALSE
        BY <2>4, <4>1, CellTypes
      <4>2. InMap(map, u) = {}
        BY <4>1 DEF InMap
      <4> QED
        BY <4>2, FS_EmptySet DEF K
    <3>2. Counter(us, u) = 0 /\ Counter(ts, u) = 0
      BY <1>3, <1>9, <2>4 DEF Counter
    <3> QED
      BY <2>1, <2>4, <3>1, <3>2
  <2> QED
    BY <2>2, <2>3, <2>4
<1>12. Exact(us, <<TableRef(t)>>, held, NoCell)
  <2>1. ASSUME NEW u \in Addresses
        PROVE  Counter(us, u) = held[u] + Cardinality(InTables(us, u, NoCell)) + One(TableRef(t), u)
    <3>1. /\ Counter(ts, u) = held[u] + Cardinality(InTables(ts, u, NoCell)) + 0
          /\ held[u] \in Nat /\ Cardinality(InTables(ts, u, NoCell)) \in Nat
          /\ One(TableRef(t), u) \in Nat /\ K(u) \in Nat
      BY <1>7, CellsFinite, NothingToClear DEF Exact, One
    <3>2. Cardinality(InTables(us, u, NoCell)) = Cardinality(InTables(ts, u, NoCell)) + K(u)
      BY <1>6, <1>10
    <3> QED
      BY <1>11, <3>1, <3>2
  <2>2. \A u : Cardinality(InSeq(<<TableRef(t)>>, u)) = One(TableRef(t), u)
    BY InOne, CellTypes
  <2> QED
    BY <2>1, <2>2 DEF Exact
<1> QED
  BY <1>9, <1>12 DEF us, ws, table

LEMMA NewKeys ==
  ASSUME NEW table \in TableSet
  PROVE  /\ GetKeys(table).members \in MemberMaps
         /\ GetKeys(table) = [ref_counter |-> 1, members |-> GetKeys(table).members]
         /\ \A n \in DOMAIN GetKeys(table).members :
              GetKeys(table).members[n] \in DOMAIN table.members
<1> DEFINE keys     == DOMAIN table.members
           place(k) == Number(Cardinality({j \in keys : KeyBefore(j, k)}))
           places   == {place(k) : k \in keys}
           map      == [n \in places |-> CHOOSE k \in keys : place(k) = n]
<1>1. keys \subseteq HeapCells /\ IsFiniteSet(keys)
  BY DEF TableSet, MemberMaps
<1>2. GetKeys(table) = [ref_counter |-> 1, members |-> map]
  BY DEF GetKeys
<1>3. \A n \in places : map[n] \in keys
  BY Zenon
<1>4. places \subseteq HeapCells
  <2>1. ASSUME NEW k \in keys
        PROVE  place(k) \in HeapCells
    <3>1. {j \in keys : KeyBefore(j, k)} \subseteq keys
      OBVIOUS
    <3>2. Cardinality({j \in keys : KeyBefore(j, k)}) \in Int
      BY <1>1, <3>1, FS_Subset, FS_CardinalityType
    <3> QED
      BY <3>2, CellTypes
  <2> HIDE DEF place
  <2> QED
    BY <2>1
<1>5. IsFiniteSet(places)
  <2> DEFINE f == [k \in keys |-> place(k)]
  <2> HIDE DEF place
  <2>1. f \in Surjection(keys, places)
    BY DEF Surjection
  <2> HIDE DEF f, places, keys
  <2> QED
    BY <1>1, <2>1, FS_Surjection
<1> HIDE DEF places, keys
<1>6. DOMAIN map = places /\ map \in [DOMAIN map -> HeapCells]
  BY <1>1, <1>3
<1> HIDE DEF map
<1>7. map \in MemberMaps
  BY <1>4, <1>5, <1>6, MapsAre
<1> QED
  BY <1>2, <1>3, <1>6, <1>7 DEF keys

-----------------------------------------------------------------------------
(* The inductive invariant. *)
Types ==
  /\ cells \in [Slots -> HeapCells]
  /\ tables \in TablesSet
  /\ outcome \in Outcomes

Counted == Exact(tables, << >>, HeldIn(cells, Slots), NoCell)

IInv == Types /\ Counted

Others(s) == HeldIn(cells, Slots \ {s})

LEMMA SlotNames ==
  /\ "retval" \in Slots /\ "actual" \in Slots /\ "retval" # "actual"
  /\ LValues \subseteq Slots /\ "actual" \notin LValues /\ Variables \subseteq LValues
BY HeapAssumption DEF Slots, LValues

(* A slot can be emptied: its content is then one more cell to be cleared. *)
LEMMA Emptied ==
  ASSUME IInv, NEW s \in Slots
  PROVE  /\ cells[s] \in HeapCells /\ Others(s) \in [Addresses -> Nat]
         /\ HeldIn(cells, Slots) \in [Addresses -> Nat]
         /\ Exact(tables, <<cells[s]>>, Others(s), NoCell)
         /\ \A u \in Slots : IsTable(cells[u]) =>
              /\ cells[u].value \in Addresses /\ HeldIn(cells, Slots)[cells[u].value] > 0
              /\ cells[u].value \in Live(tables)
              /\ u # s => Others(s)[cells[u].value] > 0
<1>1. /\ cells \in [Slots -> HeapCells] /\ cells[s] \in HeapCells /\ tables \in TablesSet
      /\ Exact(tables, << >>, HeldIn(cells, Slots), NoCell)
  BY DEF IInv, Types, Counted
<1>2. /\ HeldIn(cells, Slots) \in [Addresses -> Nat] /\ Others(s) \in [Addresses -> Nat]
      /\ \A t \in Addresses : HeldIn(cells, Slots)[t] = Others(s)[t] + One(cells[s], t)
  BY <1>1, HeldWithout DEF Others
<1>3. Exact(tables, <<cells[s]>>, Others(s), NoCell)
  BY <1>1, <1>2, Moved
<1>4. ASSUME NEW u \in Slots, NEW S, S \subseteq Slots, u \in S, IsTable(cells[u])
      PROVE  cells[u].value \in Addresses /\ HeldIn(cells, S)[cells[u].value] > 0
  <2> DEFINE t == cells[u].value
  <2>1. t \in Addresses /\ One(cells[u], t) = 1
    BY <1>1, <1>4, CellTypes DEF One
  <2>2. /\ HeldIn(cells, S \ {u}) \in [Addresses -> Nat]
        /\ HeldIn(cells, S)[t] = HeldIn(cells, S \ {u})[t] + One(cells[u], t)
    <3> DEFINE cs == cells
    <3>1. /\ cs \in [Slots -> HeapCells] /\ u \in S /\ S \subseteq Slots /\ t \in Addresses
      BY <1>1, <1>4, <2>1
    <3> HIDE DEF t, cs
    <3>2. /\ HeldIn(cs, S \ {u}) \in [Addresses -> Nat]
          /\ \A v \in Addresses : HeldIn(cs, S)[v] = HeldIn(cs, S \ {u})[v] + One(cs[u], v)
      BY <3>1, HeldWithout
    <3> QED
      BY <3>1, <3>2 DEF cs
  <2>3. HeldIn(cells, S \ {u})[t] \in Nat
    BY <2>1, <2>2
  <2> HIDE DEF t
  <2>4. HeldIn(cells, S)[t] > 0
    BY <2>1, <2>2, <2>3
  <2> QED
    BY <2>1, <2>4 DEF t
<1>5. ASSUME NEW u \in Slots, IsTable(cells[u])
      PROVE  /\ cells[u].value \in Addresses /\ HeldIn(cells, Slots)[cells[u].value] > 0
             /\ cells[u].value \in Live(tables)
             /\ u # s => Others(s)[cells[u].value] > 0
  <2>1. cells[u].value \in Addresses /\ HeldIn(cells, Slots)[cells[u].value] > 0
    BY <1>4, <1>5
  <2>2. u # s => Others(s)[cells[u].value] > 0
    BY <1>4, <1>5 DEF Others
  <2>3. cells[u].value \in Live(tables)
    <3>1. << >> \in Seq(HeapCells)
      BY EmptySeq
    <3> QED
      BY <1>1, <1>2, <2>1, <3>1, Referred
  <2> QED
    BY <2>1, <2>2, <2>3
<1> QED
  BY <1>1, <1>2, <1>3, <1>5

(* Filled again, with what has been counted. *)
LEMMA Filled ==
  ASSUME IInv, NEW s \in Slots, NEW c \in HeapCells, NEW ts \in TablesSet,
         Exact(ts, <<c>>, Others(s), NoCell),
         tables' = ts, cells' = [cells EXCEPT ![s] = c], outcome' \in Outcomes
  PROVE  IInv'
<1>1. cells \in [Slots -> HeapCells]
  BY DEF IInv, Types
<1>2. cells' \in [Slots -> HeapCells] /\ cells'[s] = c
  BY <1>1
<1>3. HeldIn(cells', Slots \ {s}) = Others(s)
  <2>1. \A u \in Slots \ {s} : cells[u] = cells'[u]
    BY <1>1
  <2> DEFINE cs == cells
             ds == cells'
             S  == Slots \ {s}
  <2>2. \A u \in S : cs[u] = ds[u]
    BY <2>1
  <2> HIDE DEF cs, ds, S
  <2>3. HeldIn(cs, S) = HeldIn(ds, S)
    BY <2>2, HeldSame
  <2> QED
    BY <2>3 DEF Others, cs, ds, S
<1>4. /\ HeldIn(cells', Slots) \in [Addresses -> Nat] /\ Others(s) \in [Addresses -> Nat]
      /\ \A t \in Addresses : HeldIn(cells', Slots)[t] = Others(s)[t] + One(c, t)
  <2>1. /\ HeldIn(cells', Slots) \in [Addresses -> Nat]
        /\ HeldIn(cells', Slots \ {s}) \in [Addresses -> Nat]
        /\ \A t \in Addresses :
             HeldIn(cells', Slots)[t] = HeldIn(cells', Slots \ {s})[t] + One(cells'[s], t)
    BY <1>2, HeldWithout
  <2> QED
    BY <1>2, <1>3, <2>1
<1>5. Exact(ts, << >>, HeldIn(cells', Slots), NoCell)
  BY <1>4, Moved
<1> QED
  BY <1>2, <1>5 DEF IInv, Types, Counted

(* A cell that is no table counts for nothing.                             *)
LEMMA Plain ==
  ASSUME NEW c \in HeapCells, ~IsTable(c), NEW ts \in TablesSet,
         NEW held \in [Addresses -> Nat], NEW x
  PROVE  Exact(ts, << >>, held, x) <=> Exact(ts, <<c>>, held, x)
<1>1. \A t \in Addresses : One(c, t) = 0
  BY CellTypes DEF One
<1>2. \A t \in Addresses : held[t] = held[t] + One(c, t)
  BY <1>1
<1> QED
  BY <1>2, Moved

LEMMA OperandCell ==
  ASSUME IInv, NEW o \in Operands
  PROVE  /\ CellOf(o) \in HeapCells
         /\ IsTable(CellOf(o)) => "slot" \in DOMAIN o
         /\ "slot" \in DOMAIN o => o.slot \in LValues /\ CellOf(o) = cells[o.slot]
<1>1. CASE \E s \in LValues : o = [slot |-> s]
  <2>1. PICK s \in LValues : o = [slot |-> s]
    BY <1>1
  <2>2. "slot" \in DOMAIN o /\ o.slot = s
    BY <2>1
  <2> QED
    BY <2>2, SlotNames DEF CellOf, IInv, Types
<1>2. CASE \E c \in Constants : o = [constant |-> c]
  <2>1. PICK c \in Constants : o = [constant |-> c]
    BY <1>2
  <2>2. "slot" \notin DOMAIN o /\ o.constant = c
    BY <2>1
  <2>3. CellOf(o) = c
    BY <2>2 DEF CellOf
  <2>4. c \in Memcell /\ ~IsTable(c)
    BY HeapAssumption DEF IsTable
  <2> QED
    BY <2>2, <2>3, <2>4, CellTypes
<1> QED
  BY <1>1, <1>2 DEF Operands

LEMMA Stops ==
  ASSUME IInv, UNCHANGED <<cells, tables>>, outcome' \in Outcomes
  PROVE  IInv'
BY DEF IInv, Types, Counted

LEMMA Faults == \A ts, printed : PrintFaults(ts, printed) \subseteq Outcomes
BY DEF PrintFaults, Outcomes

-----------------------------------------------------------------------------
(* Each action keeps the invariant. *)
LEMMA InitCounted == Init => IInv
<1> SUFFICES ASSUME Init PROVE IInv
  OBVIOUS
<1>1. cells \in [Slots -> HeapCells] /\ \A s \in Slots : cells[s] = Undef
  BY CellTypes DEF Init
<1>2. tables = << >> /\ Live(tables) = {}
  BY DEF Init, Live
<1>3. tables \in TablesSet
  <2>1. tables \in [{} -> TableSet]
    BY <1>2 DEF Live
  <2> QED
    BY <2>1 DEF TablesSet
<1>4. Counted
  <2>1. ASSUME NEW t \in Addresses
        PROVE  HeldIn(cells, Slots)[t] = 0 /\ Counter(tables, t) = 0
               /\ Cardinality(InTables(tables, t, NoCell)) = 0
    <3>1. {s \in Slots : cells[s] = TableRef(t)} = {}
      BY <1>1, CellTypes
    <3>2. InTables(tables, t, NoCell) = {}
      BY <1>2 DEF InTables, MemberCells
    <3>3. Counter(tables, t) = 0
      BY <1>2 DEF Counter
    <3> QED
      BY <3>1, <3>2, <3>3, FS_EmptySet DEF HeldIn
  <2>2. \A t : Cardinality(InSeq(<< >>, t)) = 0
    BY NothingToClear
  <2> QED
    BY <2>1, <2>2 DEF Counted, Exact
<1> QED
  BY <1>1, <1>3, <1>4 DEF IInv, Types, Init, Outcomes

(* What a release of a slot leaves. *)
LEMMA SlotReleased ==
  ASSUME IInv, NEW s \in Slots
  PROVE  LET us == Release(tables, cells[s])
         IN  /\ us \in TablesSet /\ Exact(us, << >>, Others(s), NoCell) /\ Smaller(tables, us)
             /\ \A t \in Addresses : Others(s)[t] > 0 => t \in Live(us)
             /\ \A u \in Slots : u # s /\ IsTable(cells[u]) => cells[u].value \in Live(us)
<1>1. /\ cells[s] \in HeapCells /\ Others(s) \in [Addresses -> Nat]
      /\ Exact(tables, <<cells[s]>>, Others(s), NoCell)
      /\ \A u \in Slots : IsTable(cells[u]) =>
           cells[u].value \in Addresses /\ (u # s => Others(s)[cells[u].value] > 0)
  BY Emptied
<1>2. tables \in TablesSet
  BY DEF IInv, Types
<1>3. LET us == Release(tables, cells[s])
      IN  /\ us \in TablesSet /\ Exact(us, << >>, Others(s), NoCell) /\ Smaller(tables, us)
          /\ \A t \in Addresses : Others(s)[t] > 0 => t \in Live(us)
  BY <1>1, <1>2, NoCellIsNone, Releases
<1> QED
  BY <1>1, <1>3

LEMMA AssignKeeps ==
  ASSUME IInv, NEW lv \in LValues, NEW rv \in Operands, Assign(lv, rv)
  PROVE  IInv'
<1>1. CASE "slot" \in DOMAIN rv /\ rv.slot = lv
  BY <1>1, Stops DEF Assign, IInv, Types
<1>2. CASE ~("slot" \in DOMAIN rv /\ rv.slot = lv)
  <2> DEFINE new == CellOf(rv)
             us  == AssignTables(tables, cells[lv], new)
  <2>1. tables' = us /\ cells' = [cells EXCEPT ![lv] = new] /\ outcome' = outcome
    BY <1>2 DEF Assign
  <2>2. new \in HeapCells /\ lv \in Slots /\ tables \in TablesSet /\ outcome \in Outcomes
    BY OperandCell, SlotNames DEF IInv, Types
  <2>3. /\ cells[lv] \in HeapCells /\ Others(lv) \in [Addresses -> Nat]
        /\ Exact(tables, <<cells[lv]>>, Others(lv), NoCell)
    BY <2>2, Emptied
  <2>4. IsTable(new) => new.value \in Live(Release(tables, cells[lv]))
    <3>1. ASSUME IsTable(new)
          PROVE  rv.slot \in Slots /\ rv.slot # lv /\ new = cells[rv.slot]
      BY <1>2, <3>1, OperandCell, SlotNames
    <3> HIDE DEF new
    <3> QED
      BY <2>2, <3>1, SlotReleased
  <2> HIDE DEF new
  <2>5. us \in TablesSet /\ Exact(us, <<new>>, Others(lv), NoCell)
    BY <2>2, <2>3, <2>4, NoCellIsNone, Assigns
  <2> HIDE DEF us
  <2> QED
    BY <2>1, <2>2, <2>5, Filled
<1> QED
  BY <1>1, <1>2

LEMMA CreateTableKeeps ==
  ASSUME IInv, NEW lv \in LValues, CreateTable(lv)
  PROVE  IInv'
<1> DEFINE released == Release(tables, cells[lv])
<1>1. PICK t \in Addresses \ Live(released) :
        /\ tables' = With(released, t, NewTable)
        /\ cells' = [cells EXCEPT ![lv] = TableRef(t)] /\ outcome' = outcome
  BY DEF CreateTable
<1>2. lv \in Slots /\ outcome \in Outcomes /\ Others(lv) \in [Addresses -> Nat]
      /\ TableRef(t) \in HeapCells
  BY SlotNames, Emptied, CellTypes DEF IInv, Types
<1>3. released \in TablesSet /\ Exact(released, << >>, Others(lv), NoCell)
  BY <1>2, SlotReleased
<1> DEFINE map   == << >>
           table == [ref_counter |-> 1, members |-> map]
           ws    == With(released, t, table)
           us    == AcquireMembers(ws, table)
<1> HIDE DEF released
<1>4. map \in MemberMaps /\ DOMAIN map = {}
  <2>1. DOMAIN << >> = {} /\ << >> \in [{} -> HeapCells]
    OBVIOUS
  <2>2. {} \in {K \in SUBSET HeapCells : IsFiniteSet(K)}
    BY FS_EmptySet
  <2> QED
    BY <2>1, <2>2 DEF MemberMaps
<1>5. us \in TablesSet /\ Exact(us, <<TableRef(t)>>, Others(lv), NoCell)
  <2> HIDE DEF map
  <2> QED
    BY <1>2, <1>3, <1>4, NewTables
<1>6. us = ws
  <2>1. \A u : Cardinality({k \in DOMAIN table.members : table.members[k] = TableRef(u)}) = 0
    <3>1. \A u : {k \in DOMAIN table.members : table.members[k] = TableRef(u)} = {}
      OBVIOUS
    <3> QED
      BY <3>1, FS_EmptySet
  <2>2. ws = [u \in Live(ws) |-> ws[u]] /\ Live(ws) = Live(released) \cup {t}
    BY DEF With, Live
  <2>3. \A u \in Live(ws) : [ws[u] EXCEPT !.ref_counter = @ + 0] = ws[u]
    <3>1. ASSUME NEW n, NEW m, n \in Nat
          PROVE  [[ref_counter |-> n, members |-> m] EXCEPT !.ref_counter = @ + 0]
                   = [ref_counter |-> n, members |-> m]
      BY <3>1
    <3>2. ASSUME NEW u \in Live(ws)
          PROVE  \E n \in Nat : \E m : ws[u] = [ref_counter |-> n, members |-> m]
      <4>1. ws[u] = IF u = t THEN table ELSE released[u]
        BY <2>2 DEF With
      <4>2. CASE u = t
        BY <4>1, <4>2
      <4>3. CASE u # t
        <5>1. u \in Live(released)
          BY <2>2, <4>3
        <5>2. /\ released[u] = [ref_counter |-> released[u].ref_counter,
                                members     |-> released[u].members]
              /\ released[u].ref_counter \in Nat
          BY <1>3, <5>1, TablesFields
        <5> HIDE DEF ws
        <5> QED
          BY <4>1, <4>3, <5>2
      <4> QED
        BY <4>2, <4>3
    <3> HIDE DEF ws
    <3>3. ASSUME NEW u \in Live(ws)
          PROVE  [ws[u] EXCEPT !.ref_counter = @ + 0] = ws[u]
      <4>1. PICK n \in Nat : \E m : ws[u] = [ref_counter |-> n, members |-> m]
        BY <3>2
      <4>2. PICK m : ws[u] = [ref_counter |-> n, members |-> m]
        BY <4>1
      <4> QED
        BY <3>1, <4>2
    <3> QED
      BY <3>3
  <2>4. us = [u \in Live(ws) |-> [ws[u] EXCEPT !.ref_counter = @ + 0]]
    <3> HIDE DEF ws, table
    <3> QED
      BY <2>1 DEF AcquireMembers
  <2> HIDE DEF ws, us
  <2> QED
    BY <2>2, <2>3, <2>4
<1>7. tables' = us
  BY <1>1, <1>6 DEF NewTable
<1> HIDE DEF us
<1> QED
  BY <1>1, <1>2, <1>5, <1>7, Filled

LEMMA TableGetElemKeeps ==
  ASSUME IInv, NEW lv \in LValues, NEW table \in LValues, NEW idx \in Operands,
         TableGetElem(lv, table, idx)
  PROVE  IInv'
<1> DEFINE t        == cells[table].value
           index    == CellOf(idx)
           content  == tables[t].members[index]
           released == Release(tables, cells[lv])
           us       == AssignTables(tables, cells[lv], content)
<1>1. IsTable(cells[table]) /\ HasElem(tables[t], index)
  BY DEF TableGetElem
<1>2. /\ lv \in Slots /\ table \in Slots /\ tables \in TablesSet /\ outcome \in Outcomes
  BY SlotNames DEF IInv, Types
<1>3. t \in Live(tables) /\ t \in Addresses
  <2> HIDE DEF t
  <2> QED
    BY <1>1, <1>2, Emptied DEF t
<1>4. CASE t \notin Live(released) /\ content # cells[lv]
  <2>1. Stop("reads_freed")
    BY <1>4 DEF TableGetElem
  <2> QED
    BY <2>1, Stops DEF Stop, Outcomes
<1>5. CASE ~(t \notin Live(released) /\ content # cells[lv])
  <2>1. tables' = us /\ cells' = [cells EXCEPT ![lv] = content] /\ outcome' = outcome
    BY <1>5 DEF TableGetElem
  <2>2. content \in HeapCells
    <3> HIDE DEF t, index
    <3>1. tables[t].members \in [DOMAIN tables[t].members -> HeapCells]
      BY <1>2, <1>3, TablesFields
    <3> QED
      BY <1>1, <3>1 DEF HasElem
  <2>3. /\ released \in TablesSet /\ Exact(released, << >>, Others(lv), NoCell)
        /\ Smaller(tables, released)
    BY <1>2, SlotReleased
  <2>4. /\ cells[lv] \in HeapCells /\ Others(lv) \in [Addresses -> Nat]
        /\ Exact(tables, <<cells[lv]>>, Others(lv), NoCell)
    BY <1>2, Emptied
  <2>5. ASSUME IsTable(content), content # cells[lv]
        PROVE  content.value \in Live(released)
    <3>1. t \in Live(released) /\ content.value \in Addresses /\ content = TableRef(content.value)
      BY <1>5, <2>2, <2>5, CellTypes
    <3>2. released[t].members = tables[t].members
      BY <2>3, <3>1 DEF Smaller
    <3> HIDE DEF released, t, index
    <3>3. <<t, index>> \in MemberCells(released)
      BY <1>1, <2>3, <3>1, <3>2, CellsFinite DEF HasElem
    <3>4. released[t].members[index] = content
      BY <3>2
    <3> HIDE DEF content
    <3>5. <<t, index>> \in InTables(released, content.value, NoCell)
      BY <1>3, <3>1, <3>3, <3>4, NoCellIsNone DEF InTables
    <3>6. << >> \in Seq(HeapCells)
      BY EmptySeq
    <3> QED
      BY <2>3, <2>4, <3>1, <3>5, <3>6, Referred
  <2> HIDE DEF content
  <2>6. us \in TablesSet /\ Exact(us, <<content>>, Others(lv), NoCell)
    BY <1>2, <2>2, <2>4, <2>5, NoCellIsNone, Assigns
  <2> HIDE DEF us
  <2> QED
    BY <1>2, <2>1, <2>2, <2>6, Filled
<1> QED
  BY <1>4, <1>5

LEMMA TableGetNilKeeps ==
  ASSUME IInv, NEW lv \in LValues, NEW table \in LValues, NEW idx \in Operands,
         TableGetNil(lv, table, idx)
  PROVE  IInv'
<1> DEFINE released == Release(tables, cells[lv])
<1>1. /\ cells' = [cells EXCEPT ![lv] = Nil] /\ tables' = released
      /\ outcome' = outcome \/ \E ts, printed : outcome' \in PrintFaults(ts, printed)
  BY DEF TableGetNil
<1>2. lv \in Slots /\ outcome \in Outcomes /\ Nil \in HeapCells /\ ~IsTable(Nil)
      /\ Others(lv) \in [Addresses -> Nat]
  BY SlotNames, CellTypes, Emptied DEF IInv, Types
<1>3. outcome' \in Outcomes
  BY <1>1, <1>2, Faults
<1>4. released \in TablesSet /\ Exact(released, << >>, Others(lv), NoCell)
  BY <1>2, SlotReleased
<1> HIDE DEF released
<1>5. Exact(released, <<Nil>>, Others(lv), NoCell)
  BY <1>2, <1>4, Plain
<1> QED
  BY <1>1, <1>2, <1>3, <1>4, <1>5, Filled

LEMMA TableSetElemKeeps ==
  ASSUME IInv, NEW table \in Variables, NEW idx \in Operands, NEW content \in Operands,
         TableSetElem(table, idx, content)
  PROVE  IInv'
<1> DEFINE t    == cells[table].value
           held == HeldIn(cells, Slots)
           us   == SetElem(tables, t, CellOf(idx), CellOf(content))
<1>1. /\ IsTable(cells[table]) /\ tables' = us
      /\ cells' = cells /\ outcome' = outcome
  BY DEF TableSetElem
<1>2. table \in Slots /\ tables \in TablesSet /\ Exact(tables, << >>, held, NoCell)
  BY SlotNames DEF IInv, Types, Counted
<1>3. held \in [Addresses -> Nat] /\ t \in Addresses /\ held[t] > 0 /\ t \in Live(tables)
  <2> HIDE DEF held, t
  <2> QED
    BY <1>1, <1>2, Emptied DEF held, t
<1>4. CellOf(idx) \in HeapCells /\ CellOf(content) \in HeapCells
  BY OperandCell
<1>5. IsTable(CellOf(content)) => held[CellOf(content).value] > 0
  <2>1. ASSUME IsTable(CellOf(content))
        PROVE  content.slot \in Slots /\ CellOf(content) = cells[content.slot]
    BY <2>1, OperandCell, SlotNames
  <2> QED
    BY <1>2, <2>1, Emptied
<1> HIDE DEF t, held
<1>6. us \in TablesSet /\ Exact(us, << >>, held, NoCell)
  BY <1>2, <1>3, <1>4, <1>5, SetElems
<1> HIDE DEF us
<1> QED
  BY <1>1, <1>6 DEF held, IInv, Types, Counted

LEMMA PushArgKeeps ==
  ASSUME IInv, NEW arg \in Operands, PushArg(arg)
  PROVE  IInv'
<1> DEFINE c  == CellOf(arg)
           us == Acquire(tables, c)
<1>1. /\ cells["actual"] = Undef /\ tables' = us
      /\ cells' = [cells EXCEPT !["actual"] = c] /\ outcome' = outcome
  BY DEF PushArg
<1>2. /\ "actual" \in Slots /\ tables \in TablesSet /\ outcome \in Outcomes
      /\ c \in HeapCells
  BY SlotNames, OperandCell DEF IInv, Types
<1>3. /\ Others("actual") \in [Addresses -> Nat]
      /\ Exact(tables, <<Undef>>, Others("actual"), NoCell)
  BY <1>1, <1>2, Emptied
<1>4. Exact(tables, << >>, Others("actual"), NoCell)
  BY <1>2, <1>3, CellTypes, Plain
<1>5. IsTable(c) => c.value \in Live(tables)
  <2>1. ASSUME IsTable(c)
        PROVE  arg.slot \in Slots /\ c = cells[arg.slot]
    BY <2>1, OperandCell, SlotNames
  <2> HIDE DEF c
  <2> QED
    BY <1>2, <2>1, Emptied
<1> HIDE DEF c
<1>6. us \in TablesSet /\ Exact(us, <<c>>, Others("actual"), NoCell)
  BY <1>2, <1>3, <1>4, <1>5, Acquires
<1> HIDE DEF us
<1> QED
  BY <1>1, <1>2, <1>6, Filled

(* The end of a call: the argument goes, the result is in retval.          *)
LEMMA Returns ==
  ASSUME IInv, NEW ts \in TablesSet, NEW result \in HeapCells,
         Exact(ts, <<result>>, Others("retval"), NoCell), Return(ts, result)
  PROVE  IInv'
<1> DEFINE arg  == cells["actual"]
           kept == Slots \ {"retval"}
           rest == HeldIn(cells, kept \ {"actual"})
           all  == [t \in Addresses |-> Others("retval")[t] + One(result, t)]
           less == [t \in Addresses |-> rest[t] + One(result, t)]
           us   == Release(ts, arg)
           cs   == [cells EXCEPT !["retval"] = result, !["actual"] = Undef]
<1>1. tables' = us /\ cells' = cs /\ outcome' = outcome
  BY DEF Return
<1>2. /\ cells \in [Slots -> HeapCells] /\ arg \in HeapCells /\ outcome \in Outcomes
      /\ "retval" \in Slots /\ "actual" \in Slots /\ "actual" \in kept
      /\ Undef \in HeapCells /\ kept \subseteq Slots
  BY SlotNames, CellTypes DEF IInv, Types
<1>3. /\ Others("retval") \in [Addresses -> Nat] /\ rest \in [Addresses -> Nat]
      /\ \A t \in Addresses : Others("retval")[t] = rest[t] + One(arg, t)
  <2>1. Others("retval") = HeldIn(cells, kept)
    BY DEF Others
  <2> HIDE DEF kept
  <2> QED
    BY <1>2, <2>1, HeldWithout
<1>4. \A c, t : One(c, t) \in Nat
  BY DEF One
<1> HIDE DEF arg, rest, us
<1>5. /\ all \in [Addresses -> Nat] /\ less \in [Addresses -> Nat]
      /\ \A t \in Addresses : all[t] = Others("retval")[t] + One(result, t)
      /\ \A t \in Addresses : all[t] = less[t] + One(arg, t)
      /\ \A t \in Addresses : less[t] = rest[t] + One(result, t)
  BY <1>3, <1>4
<1> HIDE DEF all, less
<1>6. Exact(ts, << >>, all, NoCell)
  BY <1>3, <1>5, Moved
<1>7. Exact(ts, <<arg>>, less, NoCell)
  BY <1>2, <1>5, <1>6, Moved
<1>8. us \in TablesSet /\ Exact(us, << >>, less, NoCell)
  BY <1>2, <1>5, <1>7, NoCellIsNone, Releases DEF us
<1>9. /\ cs \in [Slots -> HeapCells] /\ cs["retval"] = result /\ cs["actual"] = Undef
      /\ \A s \in kept \ {"actual"} : cs[s] = cells[s]
  BY <1>2, SlotNames
<1> HIDE DEF cs
<1>10. HeldIn(cs, Slots) = less
  <2>1. HeldIn(cs, kept \ {"actual"}) = rest
    <3> DEFINE S  == kept \ {"actual"}
               ds == cells
    <3>1. \A s \in S : cs[s] = ds[s]
      BY <1>9
    <3> HIDE DEF S, ds
    <3>2. HeldIn(cs, S) = HeldIn(ds, S)
      BY <3>1, HeldSame
    <3> QED
      BY <3>2 DEF rest, S, ds
  <2>2. /\ HeldIn(cs, Slots) \in [Addresses -> Nat]
        /\ \A t \in Addresses :
             HeldIn(cs, Slots)[t] = HeldIn(cs, kept)[t] + One(result, t)
    <3> DEFINE S == Slots
    <3>1. /\ S \subseteq Slots /\ "retval" \in S /\ kept = S \ {"retval"}
          /\ cs \in [Slots -> HeapCells]
      BY <1>2, <1>9
    <3> HIDE DEF S, kept
    <3>2. /\ HeldIn(cs, S) \in [Addresses -> Nat]
          /\ \A t \in Addresses :
               HeldIn(cs, S)[t] = HeldIn(cs, S \ {"retval"})[t] + One(cs["retval"], t)
      BY <3>1, HeldWithout
    <3> QED
      BY <1>9, <3>1, <3>2 DEF S
  <2> HIDE DEF kept
  <2>3. \A t \in Addresses : HeldIn(cs, kept)[t] = rest[t] + One(Undef, t)
    BY <1>2, <1>9, <2>1, HeldWithout
  <2>4. \A t \in Addresses : One(Undef, t) = 0 /\ rest[t] \in Nat
    BY <1>3, CellTypes DEF One
  <2>5. \A t \in Addresses : HeldIn(cs, Slots)[t] = less[t]
    BY <1>4, <1>5, <2>2, <2>3, <2>4
  <2> QED
    BY <1>5, <2>2, <2>5
<1> QED
  BY <1>1, <1>2, <1>8, <1>9, <1>10 DEF IInv, Types, Counted

(* The result of a library function that is no table.                      *)
LEMMA PlainResult ==
  ASSUME IInv, NEW result \in HeapCells, ~IsTable(result), Return(Cleared, result)
  PROVE  IInv'
<1>1. "retval" \in Slots /\ Others("retval") \in [Addresses -> Nat]
  BY SlotNames, Emptied
<1>2. Cleared \in TablesSet /\ Exact(Cleared, << >>, Others("retval"), NoCell)
  BY <1>1, SlotReleased DEF Cleared
<1>3. Exact(Cleared, <<result>>, Others("retval"), NoCell)
  BY <1>1, <1>2, Plain
<1> QED
  BY <1>2, <1>3, Returns

LEMMA FuncExitKeeps == ASSUME IInv, FuncExit PROVE IInv'
<1>1. Return(tables, cells["retval"])
  BY DEF FuncExit
<1>2. "retval" \in Slots /\ tables \in TablesSet
  BY SlotNames DEF IInv, Types
<1>3. cells["retval"] \in HeapCells /\ Exact(tables, <<cells["retval"]>>, Others("retval"), NoCell)
  BY <1>2, Emptied
<1> QED
  BY <1>1, <1>2, <1>3, Returns

(* The table that a library function is called with outlives what retval   *)
(* held, and so do its members.                                            *)
LEMMA CalledTable ==
  ASSUME IInv, OnTable
  PROVE  /\ Cleared \in TablesSet /\ Exact(Cleared, << >>, Others("retval"), NoCell)
         /\ Others("retval") \in [Addresses -> Nat]
         /\ tables[Called] \in TableSet
         /\ Called \in Live(Cleared) /\ Cleared[Called].members = tables[Called].members
<1>1. /\ "retval" \in Slots /\ "actual" \in Slots /\ "actual" # "retval"
      /\ IsTable(cells["actual"]) /\ tables \in TablesSet
  BY SlotNames DEF OnTable, IInv, Types
<1>2. Called \in Live(tables) /\ Others("retval") \in [Addresses -> Nat]
  BY <1>1, Emptied DEF Called
<1>3. /\ Cleared \in TablesSet /\ Exact(Cleared, << >>, Others("retval"), NoCell)
      /\ Smaller(tables, Cleared) /\ Called \in Live(Cleared)
  BY <1>1, SlotReleased DEF Cleared, Called
<1>4. tables[Called] \in TableSet
  BY <1>1, <1>2, TablesFields
<1> QED
  BY <1>2, <1>3, <1>4 DEF Smaller

(* A new table of cells that all exist is the result.                      *)
LEMMA NewResult ==
  ASSUME IInv, OnTable, NEW t \in Addresses \ Live(Cleared), NEW map \in MemberMaps,
         \A k \in DOMAIN map : IsTable(map[k]) => map[k].value \in Live(Cleared),
         NEW table, table = [ref_counter |-> 1, members |-> map],
         Return(AcquireMembers(With(Cleared, t, table), table), TableRef(t))
  PROVE  IInv'
<1> DEFINE us == AcquireMembers(With(Cleared, t, table), table)
<1>1. us \in TablesSet /\ Exact(us, <<TableRef(t)>>, Others("retval"), NoCell)
  <2>1. LET new == [ref_counter |-> 1, members |-> map]
            vs  == AcquireMembers(With(Cleared, t, new), new)
        IN  vs \in TablesSet /\ Exact(vs, <<TableRef(t)>>, Others("retval"), NoCell)
    BY CalledTable, NewTables
  <2> QED
    BY <2>1
<1>2. Return(us, TableRef(t)) /\ TableRef(t) \in HeapCells
  BY CellTypes
<1> HIDE DEF us
<1> QED
  BY <1>1, <1>2, Returns

LEMMA ObjectMemberKeysKeeps == ASSUME IInv, ObjectMemberKeys PROVE IInv'
<1> DEFINE keys == GetKeys(tables[Called])
<1>1. OnTable
  BY DEF ObjectMemberKeys
<1>2. CASE HasDeadKey(Cleared, Called)
  BY <1>2, Stops DEF ObjectMemberKeys, Stop, Outcomes
<1>3. CASE ~HasDeadKey(Cleared, Called)
  <2>1. PICK t \in Addresses \ Live(Cleared) :
          Return(AcquireMembers(With(Cleared, t, keys), keys), TableRef(t))
    BY <1>3 DEF ObjectMemberKeys
  <2>2. /\ tables[Called] \in TableSet
        /\ Cleared[Called].members = tables[Called].members
    BY <1>1, CalledTable
  <2>3. /\ keys.members \in MemberMaps
        /\ keys = [ref_counter |-> 1, members |-> keys.members]
        /\ \A n \in DOMAIN keys.members : keys.members[n] \in DOMAIN tables[Called].members
    BY <2>2, NewKeys
  <2> HIDE DEF keys
  <2>4. \A n \in DOMAIN keys.members :
          IsTable(keys.members[n]) => keys.members[n].value \in Live(Cleared)
    BY <1>3, <2>2, <2>3 DEF HasDeadKey
  <2> QED
    BY <1>1, <2>1, <2>3, <2>4, NewResult
<1> QED
  BY <1>2, <1>3

LEMMA ObjectCopyKeeps == ASSUME IInv, ObjectCopy PROVE IInv'
<1> DEFINE map  == tables[Called].members
           copy == [ref_counter |-> 1, members |-> map]
<1>1. OnTable
  BY DEF ObjectCopy
<1>2. PICK t \in Addresses \ Live(Cleared) :
        Return(AcquireMembers(With(Cleared, t, copy), copy), TableRef(t))
  BY DEF ObjectCopy
<1>3. /\ Cleared \in TablesSet /\ Exact(Cleared, << >>, Others("retval"), NoCell)
      /\ Others("retval") \in [Addresses -> Nat]
      /\ Called \in Live(Cleared) /\ Cleared[Called].members = map
      /\ map \in MemberMaps
  BY <1>1, CalledTable DEF TableSet
<1> HIDE DEF map
<1>4. ASSUME NEW k \in DOMAIN map, IsTable(map[k])
      PROVE  map[k].value \in Live(Cleared)
  <2>1. map[k] \in HeapCells
    BY <1>3 DEF MemberMaps
  <2>2. map[k].value \in Addresses /\ map[k] = TableRef(map[k].value)
    BY <1>4, <2>1, CellTypes
  <2>3. <<Called, k>> \in MemberCells(Cleared) /\ Called \in Addresses
    BY <1>3, CellsFinite, TablesFields
  <2>4. <<Called, k>> \in InTables(Cleared, map[k].value, NoCell)
    BY <1>3, <2>2, <2>3, NoCellIsNone DEF InTables
  <2>5. << >> \in Seq(HeapCells)
    BY EmptySeq
  <2> QED
    BY <1>3, <2>2, <2>4, <2>5, Referred
<1> QED
  BY <1>1, <1>2, <1>3, <1>4, NewResult

LEMMA ObjectTotalMembersKeeps == ASSUME IInv, ObjectTotalMembers PROVE IInv'
<1> DEFINE n == Cardinality(DOMAIN tables[Called].members)
<1>1. OnTable /\ Return(Cleared, Number(n))
  BY DEF ObjectTotalMembers
<1>2. n \in Int
  <2>1. tables[Called] \in TableSet
    BY <1>1, CalledTable
  <2>2. IsFiniteSet(DOMAIN tables[Called].members)
    BY <2>1 DEF TableSet, MemberMaps
  <2> QED
    BY <2>2, FS_CardinalityType
<1> HIDE DEF n
<1> QED
  BY <1>1, <1>2, CellTypes, PlainResult

LEMMA PrintArgKeeps == ASSUME IInv, PrintArg PROVE IInv'
<1>1. \/ Return(Cleared, Nil)
      \/ UNCHANGED <<cells, tables>> /\ \E ts, printed : outcome' \in PrintFaults(ts, printed)
  BY DEF PrintArg
<1>2. CASE Return(Cleared, Nil)
  BY <1>2, CellTypes, PlainResult
<1>3. CASE UNCHANGED <<cells, tables>> /\ \E ts, printed : outcome' \in PrintFaults(ts, printed)
  <2>1. outcome' \in Outcomes
    BY <1>3, Faults
  <2> QED
    BY <1>3, <2>1, Stops
<1> QED
  BY <1>1, <1>2, <1>3

LEMMA NextKeeps == IInv /\ [Next]_vars => IInv'
<1> SUFFICES ASSUME IInv, [Next]_vars PROVE IInv'
  OBVIOUS
<1>1. CASE UNCHANGED vars
  BY <1>1 DEF vars, IInv, Types, Counted
<1>2. ASSUME NEW lv \in LValues, NEW rv \in Operands, Assign(lv, rv) PROVE IInv'
  BY <1>2, AssignKeeps
<1>3. ASSUME NEW lv \in LValues, CreateTable(lv) PROVE IInv'
  BY <1>3, CreateTableKeeps
<1>4. ASSUME NEW lv \in LValues, NEW table \in LValues, NEW idx \in Operands,
             TableGetElem(lv, table, idx) \/ TableGetNil(lv, table, idx)
      PROVE  IInv'
  BY <1>4, TableGetElemKeeps, TableGetNilKeeps
<1>5. ASSUME NEW table \in Variables, NEW idx \in Operands, NEW content \in Operands,
             TableSetElem(table, idx, content)
      PROVE  IInv'
  BY <1>5, TableSetElemKeeps
<1>6. ASSUME NEW table \in LValues, IllegalTable(table) PROVE IInv'
  BY <1>6, Stops DEF IllegalTable, Stop, Outcomes
<1>7. ASSUME NEW arg \in Operands, PushArg(arg) PROVE IInv'
  BY <1>7, PushArgKeeps
<1>8. CASE IllegalArgument
  BY <1>8, Stops DEF IllegalArgument, Stop, Outcomes
<1> QED
  BY <1>1, <1>2, <1>3, <1>4, <1>5, <1>6, <1>7, <1>8, FuncExitKeeps, ObjectMemberKeysKeeps,
     ObjectTotalMembersKeeps, ObjectCopyKeeps, PrintArgKeeps DEF Next

(* Every reachable state has exact counters, the cascades of destructors   *)
(* and the shallow copies of tables included.                              *)
THEOREM CountersExact == Spec => []IInv
<1>1. Init => IInv
  BY InitCounted
<1>2. IInv /\ [Next]_vars => IInv'
  BY NextKeeps
<1> QED
  BY <1>1, <1>2, PTL DEF Spec

LEMMA ExactImplies == IInv => RefCountExact /\ NoDanglingReference
<1> SUFFICES ASSUME IInv PROVE RefCountExact /\ NoDanglingReference
  OBVIOUS
<1>1. tables \in TablesSet /\ "retval" \in Slots
  BY SlotNames DEF IInv, Types
<1>2. Live(tables) \subseteq Addresses
  BY <1>1, TablesFields
<1>3. HeldIn(cells, Slots) \in [Addresses -> Nat]
  BY <1>1, Emptied
<1>4. ASSUME NEW t \in Addresses
      PROVE  /\ HeldIn(cells, Slots)[t] = Cardinality(SlotsOf(t))
             /\ InTables(tables, t, NoCell) = MembersOf(t)
             /\ Cardinality(SlotsOf(t)) = 0 => SlotsOf(t) = {}
  <2>1. HeldIn(cells, Slots)[t] = Cardinality(SlotsOf(t))
    BY DEF HeldIn, SlotsOf
  <2>2. NoCell \notin MemberCells(tables)
    BY <1>1, <1>2, CellsFinite, NoCellIsNone
  <2>3. InTables(tables, t, NoCell) = MembersOf(t)
    BY <2>2 DEF InTables, MembersOf
  <2>4. ASSUME SlotsOf(t) # {}
        PROVE  HeldIn(cells, Slots)[t] # 0
    <3>1. PICK s \in Slots : cells[s] = TableRef(t)
      BY <2>4 DEF SlotsOf
    <3>2. IsTable(cells[s]) /\ cells[s].value = t
      BY <3>1, CellTypes
    <3>3. HeldIn(cells, Slots)[t] > 0
      BY <3>2, Emptied
    <3> QED
      BY <1>3, <3>3
  <2> QED
    BY <2>1, <2>3, <2>4
<1>5. ASSUME NEW t \in Live(tables)
      PROVE  tables[t].ref_counter = Cardinality(SlotsOf(t)) + Cardinality(MembersOf(t))
  <2>1. t \in Addresses /\ Counter(tables, t) = tables[t].ref_counter
    BY <1>2 DEF Counter
  <2>2. Counter(tables, t) = HeldIn(cells, Slots)[t] + Cardinality(InTables(tables, t, NoCell)) + 0
    BY <2>1, NothingToClear DEF IInv, Counted, Exact
  <2>3. HeldIn(cells, Slots)[t] \in Nat /\ Cardinality(InTables(tables, t, NoCell)) \in Nat
    BY <1>1, <1>3, <2>1, CellsFinite
  <2> QED
    BY <1>4, <2>1, <2>2, <2>3
<1>6. ASSUME NEW t \in Addresses, SlotsOf(t) \cup MembersOf(t) # {}
      PROVE  t \in Live(tables)
  <2>1. HeldIn(cells, Slots)[t] > 0 \/ InTables(tables, t, NoCell) # {}
    <3>1. CASE SlotsOf(t) # {}
      <4>1. HeldIn(cells, Slots)[t] # 0 /\ HeldIn(cells, Slots)[t] \in Nat
        BY <1>3, <1>4, <3>1
      <4> QED
        BY <4>1
    <3>2. CASE MembersOf(t) # {}
      BY <1>4, <3>2
    <3> QED
      BY <1>6, <3>1, <3>2
  <2>2. << >> \in Seq(HeapCells) /\ Exact(tables, << >>, HeldIn(cells, Slots), NoCell)
    BY EmptySeq DEF IInv, Counted
  <2> QED
    BY <1>1, <1>3, <2>1, <2>2, Referred
<1> QED
  BY <1>5, <1>6 DEF RefCountExact, NoDanglingReference

(* A table's counter is the number of slots and members that refer to it,  *)
(* after any sequence of instructions and library calls.                   *)
THEOREM RefCountsAreExact == Spec => []RefCountExact
BY CountersExact, ExactImplies, PTL

(* No slot and no member of a live table refers to freed memory.           *)
THEOREM NothingDangles == Spec => []NoDanglingReference
BY CountersExact, ExactImplies, PTL

-----------------------------------------------------------------------------
(* What is kept without being referred to from a slot is on a cycle.       *)
Closed(next, C) == \A t \in C : next[t] \subseteq C

(* |Addresses| steps reach everything there is to reach: each step adds an *)
(* address or is the last.                                                 *)
LEMMA ReachedIs ==
  ASSUME NEW live, live \subseteq Addresses, NEW next \in [live -> SUBSET live],
         NEW from, from \subseteq live
  PROVE  LET R == Reached(next, from)
         IN  /\ from \subseteq R /\ R \subseteq live /\ Closed(next, R)
             /\ \A C \in SUBSET live : from \subseteq C /\ Closed(next, C) => R \subseteq C
<1> DEFINE S       == SUBSET live
           More(X) == X \cup UNION {next[t] : t \in X}
           step    == [X \in S |-> More(X)]
           N       == Cardinality(Addresses)
<1>1. IsFiniteSet(live) /\ N \in Nat /\ \A X \in S : IsFiniteSet(X) /\ Cardinality(X) \in Nat
  <2>1. IsFiniteSet(live) /\ N \in Nat
    BY HeapAssumption, FS_Subset, FS_CardinalityType
  <2> QED
    BY <2>1, FS_Subset, FS_CardinalityType
<1>2. \A X \in S : More(X) \in S /\ X \subseteq More(X)
  OBVIOUS
<1>3. \A X \in S : More(X) = X => Closed(next, X)
  BY DEF Closed
<1>4. \A X \in S : \A C \in SUBSET live : X \subseteq C /\ Closed(next, C) => More(X) \subseteq C
  BY DEF Closed
<1>5. Stepping(S, from, step)
  BY <1>2 DEF Stepping
<1> HIDE DEF S, More, N
<1>6. PICK f : Iterates(f, S, from, step)
  BY <1>5, Iteration
<1>7. /\ f \in [Nat -> S] /\ f[0] = from
      /\ \A n \in Nat : f[n + 1] = More(f[n])
  BY <1>6 DEF Iterates
<1> HIDE DEF step
<1>8. Reached(next, from) = f[N]
  <2> DEFINE P(c)    == c = [n \in Nat |-> IF n = 0 THEN from ELSE More(c[n - 1])]
             reached == CHOOSE c : P(c)
  <2>1. P(f)
    <3>1. ASSUME NEW n \in Nat
          PROVE  f[n] = IF n = 0 THEN from ELSE More(f[n - 1])
      <4>1. CASE n = 0
        BY <1>7, <4>1
      <4>2. CASE n # 0
        <5>1. n - 1 \in Nat /\ (n - 1) + 1 = n
          BY <4>2
        <5> QED
          BY <1>7, <4>2, <5>1
      <4> QED
        BY <4>1, <4>2
    <3>2. f = [n \in Nat |-> f[n]]
      BY <1>7
    <3> QED
      BY <3>1, <3>2
  <2>2. \A n \in Nat : reached[n] = IF n = 0 THEN from ELSE More(reached[n - 1])
    <3>1. P(reached)
      <4> HIDE DEF P
      <4> QED
        BY <2>1
    <3> HIDE DEF reached
    <3> QED
      BY <3>1
  <2>3. Reached(next, from) = reached[N]
    BY DEF Reached, N, More
  <2> HIDE DEF reached
  <2>4. reached[N] = f[N]
    <3> DEFINE T == {n \in Nat : reached[n] = f[n]}
    <3>1. 0 \in T
      BY <1>7, <2>2
    <3>2. ASSUME NEW n \in T
          PROVE  n + 1 \in T
      <4>1. reached[n + 1] = More(reached[n])
        <5>1. n + 1 \in Nat /\ n + 1 # 0 /\ (n + 1) - 1 = n
          OBVIOUS
        <5> QED
          BY <2>2, <5>1
      <4> QED
        BY <1>7, <4>1
    <3> HIDE DEF T
    <3>3. Nat \subseteq T
      BY <3>1, <3>2, SetInduction
    <3> QED
      BY <1>1, <3>3 DEF T
  <2> QED
    BY <2>3, <2>4
<1>9. from \subseteq f[N]
  <2> DEFINE T == {n \in Nat : from \subseteq f[n]}
  <2>1. 0 \in T
    BY <1>7
  <2>2. ASSUME NEW n \in T
        PROVE  n + 1 \in T
    <3>1. f[n] \subseteq f[n + 1]
      BY <1>2, <1>7
    <3> QED
      BY <3>1
  <2> HIDE DEF T
  <2>3. Nat \subseteq T
    BY <2>1, <2>2, SetInduction
  <2> QED
    BY <1>1, <2>3 DEF T
<1>10. ASSUME NEW C \in SUBSET live, from \subseteq C, Closed(next, C)
       PROVE  f[N] \subseteq C
  <2> DEFINE T == {n \in Nat : f[n] \subseteq C}
  <2>1. 0 \in T
    BY <1>7, <1>10
  <2>2. ASSUME NEW n \in T
        PROVE  n + 1 \in T
    BY <1>4, <1>7, <1>10
  <2> HIDE DEF T
  <2>3. Nat \subseteq T
    BY <2>1, <2>2, SetInduction
  <2> QED
    BY <1>1, <2>3 DEF T
<1>11. Closed(next, f[N])
  <2> DEFINE T == {n \in Nat : More(f[n]) = f[n] \/ Cardinality(f[n]) >= n}
  <2>1. 0 \in T
    BY <1>1, <1>7
  <2>2. ASSUME NEW n \in T
        PROVE  n + 1 \in T
    <3>1. f[n] \in S /\ f[n + 1] \in S /\ f[n + 1] = More(f[n]) /\ f[n] \subseteq f[n + 1]
      BY <1>2, <1>7
    <3>2. CASE More(f[n]) = f[n]
      BY <3>1, <3>2
    <3>3. CASE More(f[n]) # f[n]
      <4>1. Cardinality(f[n]) \in Nat /\ Cardinality(f[n + 1]) \in Nat
        BY <1>1, <3>1
      <4>2. Cardinality(f[n]) <= Cardinality(f[n + 1]) /\ Cardinality(f[n + 1]) # Cardinality(f[n])
        BY <1>1, <3>1, <3>3, FS_Subset
      <4>3. Cardinality(f[n]) >= n
        BY <3>3
      <4> QED
        BY <4>1, <4>2, <4>3
    <3> QED
      BY <3>2, <3>3
  <2> HIDE DEF T
  <2>3. Nat \subseteq T
    BY <2>1, <2>2, SetInduction
  <2>4. More(f[N]) = f[N] \/ Cardinality(f[N]) >= N
    BY <1>1, <2>3 DEF T
  <2>5. f[N] \in S
    BY <1>1, <1>7
  <2>6. CASE Cardinality(f[N]) >= N
    <3>1. f[N] \subseteq Addresses
      BY <2>5 DEF S
    <3>2. Cardinality(f[N]) <= N /\ (Cardinality(f[N]) = N => Addresses = f[N])
      BY <3>1, HeapAssumption, FS_Subset DEF N
    <3>3. f[N] = live
      BY <1>1, <2>5, <2>6, <3>2 DEF S
    <3> QED
      BY <3>3 DEF Closed
  <2> QED
    BY <1>3, <2>4, <2>5, <2>6
<1>12. f[N] \subseteq live
  BY <1>1, <1>7 DEF S
<1> QED
  BY <1>8, <1>9, <1>10, <1>11, <1>12

LEMMA CyclesKeep == ASSUME IInv PROVE OnlyCyclesLeak
<1> DEFINE live     == Live(tables)
           refersTo == [t \in Live(tables) |-> {u \in Live(tables) :
                          \E k \in DOMAIN tables[t].members : tables[t].members[k] = TableRef(u)}]
           Down(t)  == Reached(refersTo, refersTo[t])
           inCycle  == {t \in Live(tables) : t \in Down(t)}
           inSlots  == {t \in Live(tables) : \E s \in Slots : cells[s] = TableRef(t)}
           R        == Reached(refersTo, inSlots \cup inCycle)
           U        == live \ R
<1>1. tables \in TablesSet /\ live \subseteq Addresses /\ IsFiniteSet(live)
  <2>1. tables \in TablesSet
    BY DEF IInv, Types
  <2> QED
    BY <2>1, TablesFields
<1>2. refersTo \in [live -> SUBSET live]
  OBVIOUS
<1>3. inSlots \cup inCycle \subseteq live
  OBVIOUS
<1>4. /\ inSlots \cup inCycle \subseteq R /\ R \subseteq live /\ Closed(refersTo, R)
  <2> DEFINE from == inSlots \cup inCycle
  <2>1. from \subseteq live
    BY <1>3
  <2> HIDE DEF from, refersTo, live
  <2>2. /\ from \subseteq Reached(refersTo, from) /\ Reached(refersTo, from) \subseteq live
        /\ Closed(refersTo, Reached(refersTo, from))
    BY <1>1, <1>2, <2>1, ReachedIs
  <2> QED
    BY <2>2 DEF from
<1>5. ASSUME NEW t \in live
      PROVE  /\ refersTo[t] \subseteq Down(t) /\ Down(t) \subseteq live /\ Closed(refersTo, Down(t))
             /\ \A C \in SUBSET live :
                  refersTo[t] \subseteq C /\ Closed(refersTo, C) => Down(t) \subseteq C
  <2> DEFINE from == refersTo[t]
  <2>1. from \subseteq live
    OBVIOUS
  <2> HIDE DEF from, refersTo, live
  <2>2. LET Q == Reached(refersTo, from)
        IN  /\ from \subseteq Q /\ Q \subseteq live /\ Closed(refersTo, Q)
            /\ \A C \in SUBSET live : from \subseteq C /\ Closed(refersTo, C) => Q \subseteq C
    BY <1>1, <1>2, <2>1, ReachedIs
  <2> QED
    BY <2>2 DEF from
<1>6. ASSUME NEW t \in U
      PROVE  \E u \in U : t \in refersTo[u]
  <2>1. t \in live /\ t \in Addresses /\ t \notin R /\ SlotsOf(t) = {}
    BY <1>1, <1>4 DEF SlotsOf
  <2>2. tables[t].ref_counter = Cardinality(SlotsOf(t)) + Cardinality(MembersOf(t))
    BY <2>1, ExactImplies DEF RefCountExact
  <2>3. tables[t].ref_counter \in Nat \ {0}
    <3> HIDE DEF U
    <3> QED
      BY <1>1, <2>1, TablesFields
  <2>4. MembersOf(t) # {}
    <3>1. Cardinality({}) = 0
      BY FS_EmptySet
    <3>2. SlotsOf(t) = {}
      BY <2>1
    <3>3. SUFFICES ASSUME MembersOf(t) = {} PROVE FALSE
      OBVIOUS
    <3>4. tables[t].ref_counter = 0 + 0
      BY ONLY <2>2, <3>1, <3>2, <3>3
    <3> QED
      BY ONLY <2>3, <3>4
  <2>5. PICK m \in MemberCells(tables) : tables[m[1]].members[m[2]] = TableRef(t)
    BY <2>4 DEF MembersOf
  <2>6. PICK u \in live : \E k \in DOMAIN tables[u].members : m = <<u, k>>
    <3> HIDE DEF U
    <3> QED
      BY <1>1, <2>5, CellsFinite
  <2>7. t \in refersTo[u]
    BY <2>1, <2>5, <2>6
  <2>8. u \in U
    <3> HIDE DEF R, refersTo
    <3> QED
      BY <1>4, <2>1, <2>6, <2>7 DEF Closed
  <2> QED
    BY <2>7, <2>8
<1>7. ASSUME NEW t \in U, NEW u \in U, t \in refersTo[u]
      PROVE  Cardinality(Down(u)) > Cardinality(Down(t))
  <2>1. t \in live /\ u \in live /\ t \notin inCycle
    BY <1>4
  <2>2. t \notin Down(t)
    BY <2>1
  <2>3. t \in Down(u) /\ Down(u) \subseteq live /\ Down(t) \subseteq live /\ Closed(refersTo, Down(u))
    BY <1>5, <1>7, <2>1
  <2> HIDE DEF refersTo, live, Down
  <2>4. Down(t) \subseteq Down(u)
    BY <1>5, <2>1, <2>3 DEF Closed
  <2>5. IsFiniteSet(Down(u)) /\ Cardinality(Down(u)) \in Nat
    BY <1>1, <2>3, FS_Subset, FS_CardinalityType
  <2>6. IsFiniteSet(Down(t)) /\ Cardinality(Down(t)) \in Nat
    BY <1>1, <2>3, FS_Subset, FS_CardinalityType
  <2>7. /\ Cardinality(Down(t)) <= Cardinality(Down(u))
        /\ Cardinality(Down(u)) = Cardinality(Down(t)) => Down(u) = Down(t)
    BY <2>4, <2>5, FS_Subset
  <2> QED
    BY <2>2, <2>3, <2>5, <2>6, <2>7
<1>8. U = {}
  <2> DEFINE Sizes == {Cardinality(Down(t)) : t \in U}
             bound == Cardinality(live)
  <2>1. bound \in Nat /\ Sizes \subseteq 0 .. bound
    <3>1. bound \in Nat
      BY <1>1, FS_CardinalityType
    <3>2. ASSUME NEW t \in live
          PROVE  Cardinality(Down(t)) \in 0 .. bound
      <4>1. Down(t) \subseteq live
        BY <1>5
      <4> HIDE DEF Down, live
      <4>2. Cardinality(Down(t)) \in Nat /\ Cardinality(Down(t)) <= bound
        BY <1>1, <4>1, FS_Subset, FS_CardinalityType
      <4> QED
        BY <3>1, <4>2
    <3> HIDE DEF bound, Down, live
    <3> QED
      BY <3>1, <3>2
  <2>2. SUFFICES ASSUME U # {} PROVE FALSE
    OBVIOUS
  <2> HIDE DEF U, bound, Down, refersTo
  <2>3. Sizes # {}
    BY <2>2
  <2>4. Max(Sizes) \in Sizes /\ \A n \in Sizes : Max(Sizes) >= n
    <3> HIDE DEF Sizes
    <3> QED
      BY <2>1, <2>3, MaxOfBounded
  <2>5. PICK t \in U : Max(Sizes) = Cardinality(Down(t))
    BY <2>4
  <2>6. PICK u \in U : t \in refersTo[u]
    BY <1>6
  <2>7. Cardinality(Down(u)) > Cardinality(Down(t)) /\ Cardinality(Down(t)) >= Cardinality(Down(u))
    BY <1>7, <2>4, <2>5, <2>6
  <2>8. Cardinality(Down(u)) \in Nat /\ Cardinality(Down(t)) \in Nat
    BY <2>1
  <2> QED
    BY <2>7, <2>8
<1>9. live \subseteq R
  BY <1>8
<1> QED
  BY <1>9 DEF OnlyCyclesLeak

(* Memory leaks only through cycles of tables: what the slots no longer    *)
(* lead to is freed, unless a cycle keeps it.                              *)
THEOREM LeaksAreCycles == Spec => []OnlyCyclesLeak
BY CountersExact, CyclesKeep, PTL
=============================================================================
