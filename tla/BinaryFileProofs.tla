-------------------------- MODULE BinaryFileProofs --------------------------
(***************************************************************************)
(* The constants of a program on their way to the machine, for programs of *)
(* any length with any constants.                                          *)
(*                                                                         *)
(*   - A pool only grows (Grows), so that a key keeps its constant, and    *)
(*     what register_number, register_string, register_libfunc and         *)
(*     register_userfunc return leads to the value registered: each        *)
(*     argument of the generated code goes on standing for its operand.    *)
(*   - A rule of RDP that faces the tokens which its counterpart in        *)
(*     Binary_writer wrote takes them all and leaves the values they were  *)
(*     written from, or ends where the file ends (Reads): rule by rule,    *)
(*     for one token, a string, an argument, an instruction, an array.     *)
(*     So the reader is always at the rest of the file that its next rule  *)
(*     expects (ReadsFrom, Reads1).                                        *)
(*   - No constant is in a pool twice (AllOnce), so that registering the   *)
(*     constants of a section in their order gives each the key it had     *)
(*     (RegistersAll, PoolRead).                                           *)
(***************************************************************************)
EXTENDS BinaryFile, NaturalSets, SequenceTheorems, FiniteSetTheorems

(* The pools that the generator can build: each address leads to the user  *)
(* function that was registered with it.                                   *)
Userfuncs == {Userfunc(f) : f \in UserFuncs}

Pool ==
  [numbers : Seq(Numbers), strings : Seq(Strings), libfuncs : Seq(LibFuncs),
   userfuncs : Seq(Userfuncs), addr_to_userfuncs : UNION {[D -> Nat] : D \in SUBSET Nat}]

AddressesLead(pool) ==
  \A key \in Nat : HasKey(pool.userfuncs, key) =>
    LET u == At(pool.userfuncs, key)
    IN  /\ u.address \in DOMAIN pool.addr_to_userfuncs
        /\ HasKey(pool.userfuncs, pool.addr_to_userfuncs[u.address])
        /\ UserfuncOnAddress(pool, u.address) = u

(* Every key keeps its value. *)
Kept(array, larger) ==
  \A key \in Nat : HasKey(array, key) => /\ HasKey(larger, key)
                                         /\ At(larger, key) = At(array, key)

Grows(pool, larger) ==
  /\ Kept(pool.strings, larger.strings)
  /\ Kept(pool.numbers, larger.numbers)
  /\ Kept(pool.libfuncs, larger.libfuncs)
  /\ Kept(pool.userfuncs, larger.userfuncs)

(* No constant is there twice, except the number that differs from itself. *)
EachOnce(array)      == \A i, j \in 1 .. Len(array) : i < j => array[i] # array[j]
NumbersOnce(array)   == \A i, j \in 1 .. Len(array) : i < j => ~EqualNumbers(array[i], array[j])
AddressesOnce(array) == \A i, j \in 1 .. Len(array) : i < j => array[i].address # array[j].address

AllOnce(pool) ==
  /\ EachOnce(pool.strings) /\ EachOnce(pool.libfuncs)
  /\ NumbersOnce(pool.numbers) /\ AddressesOnce(pool.userfuncs)

Extends(pool, larger) ==
  /\ larger \in Pool /\ AddressesLead(larger) /\ Grows(pool, larger)
  /\ AllOnce(pool) => AllOnce(larger)

Args == [type : ArgTypes, value : Nat] \cup {NullArg}

IInv ==
  /\ const_pool \in Pool /\ AddressesLead(const_pool) /\ AllOnce(const_pool)
  /\ source \in Seq(Shapes)
  /\ vm_instructions \in Seq(Instructions)
  /\ KeysStayValid

-----------------------------------------------------------------------------
LEMMA KeptAll ==
  ASSUME NEW a, NEW b, NEW c
  PROVE  Kept(a, a) /\ (Kept(a, b) /\ Kept(b, c) => Kept(a, c))
BY DEF Kept

(* What registering a value in an array does, whatever it is compared by.  *)
Registers(array, value, r, S) ==
  /\ r.array \in Seq(S)
  /\ r.key \in Nat
  /\ HasKey(r.array, r.key)
  /\ At(r.array, r.key) = value
  /\ Kept(array, r.array)
  /\ \A key \in Nat : HasKey(r.array, key) => HasKey(array, key) \/ At(r.array, key) = value

LEMMA Insertion ==
  ASSUME NEW S, NEW array \in Seq(S), NEW value \in S
  PROVE  Registers(array, value, Registered(Append(array, value), Len(array)), S)
<1> DEFINE longer == Append(array, value)
<1>1. /\ longer \in Seq(S)
      /\ Len(longer) = Len(array) + 1 /\ Len(array) \in Nat
      /\ \A i \in 1 .. Len(array) : longer[i] = array[i]
      /\ longer[Len(array) + 1] = value
  BY AppendProperties, LenProperties
<1> HIDE DEF longer
<1>2. Kept(array, longer)
  <2>1. ASSUME NEW key \in Nat, HasKey(array, key)
        PROVE  HasKey(longer, key) /\ At(longer, key) = At(array, key)
    <3>1. key + 1 \in 1 .. Len(array) /\ key \in 0 .. Len(longer) - 1
      BY <1>1, <2>1 DEF HasKey
    <3> QED
      BY <1>1, <3>1 DEF HasKey, At
  <2> QED
    BY <2>1 DEF Kept
<1>3. HasKey(longer, Len(array)) /\ At(longer, Len(array)) = value
  BY <1>1 DEF HasKey, At
<1>4. \A key \in Nat : HasKey(longer, key) => HasKey(array, key) \/ key = Len(array)
  BY <1>1 DEF HasKey
<1> QED
  BY <1>1, <1>2, <1>3, <1>4 DEF Registers, Registered, longer

LEMMA Finding ==
  ASSUME NEW S, NEW array \in Seq(S), NEW value, NEW i \in 1 .. Len(array), array[i] = value
  PROVE  Registers(array, value, Registered(array, i - 1), S)
<1>1. Len(array) \in Nat
  BY LenProperties
<1>2. i - 1 \in Nat /\ i - 1 \in 0 .. Len(array) - 1 /\ (i - 1) + 1 = i
  BY <1>1
<1> QED
  BY <1>2, KeptAll DEF Registers, Registered, HasKey, At

(* The first position that satisfies a test, and 0 if there is none.       *)
LEMMA StringRegisters ==
  ASSUME NEW S, NEW array \in Seq(S), NEW value \in S
  PROVE  Registers(array, value, Register(array, value, EqualStrings), S)
<1> DEFINE I == {i \in 1 .. Len(array) : EqualStrings(array[i], value)}
<1>1. CASE I = {}
  <2>1. Register(array, value, EqualStrings) = Registered(Append(array, value), Len(array))
    BY <1>1 DEF Register, SelectInSeq
  <2> QED
    BY <2>1, Insertion
<1>2. CASE I # {}
  <2>1. Min(I) \in I
    <3>1. I \subseteq Nat
      OBVIOUS
    <3> HIDE DEF I
    <3> QED
      BY <1>2, <3>1, MinOfNat
  <2>2. Min(I) \in 1 .. Len(array) /\ array[Min(I)] = value /\ Min(I) # 0
    BY <2>1 DEF EqualStrings
  <2>3. Register(array, value, EqualStrings) = Registered(array, Min(I) - 1)
    BY <1>2, <2>2 DEF Register, SelectInSeq
  <2> QED
    BY <2>2, <2>3, Finding
<1> QED
  BY <1>1, <1>2

LEMMA NumberRegisters ==
  ASSUME NEW S, NEW array \in Seq(S), NEW value \in S
  PROVE  Registers(array, value, Register(array, value, EqualNumbers), S)
<1> DEFINE I == {i \in 1 .. Len(array) : EqualNumbers(array[i], value)}
<1>1. CASE I = {}
  <2>1. Register(array, value, EqualNumbers) = Registered(Append(array, value), Len(array))
    BY <1>1 DEF Register, SelectInSeq
  <2> QED
    BY <2>1, Insertion
<1>2. CASE I # {}
  <2>1. Min(I) \in I
    <3>1. I \subseteq Nat
      OBVIOUS
    <3> HIDE DEF I
    <3> QED
      BY <1>2, <3>1, MinOfNat
  <2>2. Min(I) \in 1 .. Len(array) /\ array[Min(I)] = value /\ Min(I) # 0
    BY <2>1 DEF EqualNumbers
  <2>3. Register(array, value, EqualNumbers) = Registered(array, Min(I) - 1)
    BY <1>2, <2>2 DEF Register, SelectInSeq
  <2> QED
    BY <2>2, <2>3, Finding
<1> QED
  BY <1>1, <1>2

(* User functions are compared by address, which no two of them share.     *)
LEMMA AddressesDiffer ==
  \A u, v \in Userfuncs : u.address = v.address => u = v
BY BinaryFileAssumption DEF Userfuncs, Userfunc

LEMMA UserfuncRegisters ==
  ASSUME NEW array \in Seq(Userfuncs), NEW value \in Userfuncs
  PROVE  Registers(array, value, Register(array, value, EqualUserfuncs), Userfuncs)
<1> DEFINE I == {i \in 1 .. Len(array) : EqualUserfuncs(array[i], value)}
<1>1. CASE I = {}
  <2>1. Register(array, value, EqualUserfuncs) = Registered(Append(array, value), Len(array))
    BY <1>1 DEF Register, SelectInSeq
  <2> QED
    BY <2>1, Insertion
<1>2. CASE I # {}
  <2>1. Min(I) \in I
    <3>1. I \subseteq Nat
      OBVIOUS
    <3> HIDE DEF I
    <3> QED
      BY <1>2, <3>1, MinOfNat
  <2>2. Min(I) \in 1 .. Len(array) /\ array[Min(I)].address = value.address /\ Min(I) # 0
    BY <2>1 DEF EqualUserfuncs
  <2>3. \A u, v \in Userfuncs : u.address = v.address => u = v
    BY AddressesDiffer
  <2>4. array[Min(I)] = value
    BY <2>2, <2>3, ElementOfSeq
  <2>5. Register(array, value, EqualUserfuncs) = Registered(array, Min(I) - 1)
    BY <1>2, <2>2 DEF Register, SelectInSeq
  <2> QED
    BY <2>2, <2>4, <2>5, Finding
<1> QED
  BY <1>1, <1>2

(* Registering leaves an array as it is, or appends a value that none of   *)
(* its items equals.                                                       *)
LEMMA AppendedLast ==
  ASSUME NEW S, NEW array \in Seq(S), NEW value \in S,
         NEW i \in 1 .. Len(Append(array, value)), NEW j \in 1 .. Len(Append(array, value)), i < j
  PROVE  LET longer == Append(array, value)
         IN  /\ i \in 1 .. Len(array) /\ longer[i] = array[i]
             /\ \/ j \in 1 .. Len(array) /\ longer[j] = array[j]
                \/ longer[j] = value
<1>1. /\ Len(Append(array, value)) = Len(array) + 1 /\ Len(array) \in Nat
      /\ \A k \in 1 .. Len(array) : Append(array, value)[k] = array[k]
      /\ Append(array, value)[Len(array) + 1] = value
  BY AppendProperties, LenProperties
<1>2. i \in 1 .. Len(array) /\ (j \in 1 .. Len(array) \/ j = Len(array) + 1)
  BY <1>1
<1> QED
  BY <1>1, <1>2

LEMMA StringsOnce ==
  ASSUME NEW S, NEW array \in Seq(S), NEW value \in S, EachOnce(array)
  PROVE  EachOnce(Register(array, value, EqualStrings).array)
<1> DEFINE I == {i \in 1 .. Len(array) : EqualStrings(array[i], value)}
           longer == Append(array, value)
<1>1. CASE I = {}
  <2>1. Register(array, value, EqualStrings).array = longer
    BY <1>1 DEF Register, Registered, SelectInSeq
  <2>2. ASSUME NEW i \in 1 .. Len(longer), NEW j \in 1 .. Len(longer), i < j
        PROVE  longer[i] # longer[j]
    <3>1. /\ i \in 1 .. Len(array) /\ longer[i] = array[i]
          /\ \/ j \in 1 .. Len(array) /\ longer[j] = array[j]
             \/ longer[j] = value
      BY <2>2, AppendedLast
    <3>2. array[i] # value
      BY <1>1, <3>1 DEF EqualStrings
    <3> HIDE DEF longer, I
    <3> QED
      BY <2>2, <3>1, <3>2 DEF EachOnce
  <2> HIDE DEF longer
  <2> QED
    BY <2>1, <2>2 DEF EachOnce
<1>2. CASE I # {}
  <2>1. Min(I) # 0
    <3>1. I \subseteq Nat /\ 0 \notin I
      OBVIOUS
    <3> HIDE DEF I
    <3> QED
      BY <1>2, <3>1, MinOfNat
  <2>2. Register(array, value, EqualStrings).array = array
    BY <1>2, <2>1 DEF Register, Registered, SelectInSeq
  <2> QED
    BY <2>2
<1> QED
  BY <1>1, <1>2

LEMMA NumbersStayOnce ==
  ASSUME NEW S, NEW array \in Seq(S), NEW value \in S, NumbersOnce(array)
  PROVE  NumbersOnce(Register(array, value, EqualNumbers).array)
<1> DEFINE I == {i \in 1 .. Len(array) : EqualNumbers(array[i], value)}
           longer == Append(array, value)
<1>1. CASE I = {}
  <2>1. Register(array, value, EqualNumbers).array = longer
    BY <1>1 DEF Register, Registered, SelectInSeq
  <2>2. ASSUME NEW i \in 1 .. Len(longer), NEW j \in 1 .. Len(longer), i < j
        PROVE  ~EqualNumbers(longer[i], longer[j])
    <3>1. /\ i \in 1 .. Len(array) /\ longer[i] = array[i]
          /\ \/ j \in 1 .. Len(array) /\ longer[j] = array[j]
             \/ longer[j] = value
      BY <2>2, AppendedLast
    <3>2. ~EqualNumbers(array[i], value)
      BY <1>1, <3>1
    <3> HIDE DEF longer, I
    <3> QED
      BY <2>2, <3>1, <3>2 DEF NumbersOnce
  <2> HIDE DEF longer
  <2> QED
    BY <2>1, <2>2 DEF NumbersOnce
<1>2. CASE I # {}
  <2>1. Min(I) # 0
    <3>1. I \subseteq Nat /\ 0 \notin I
      OBVIOUS
    <3> HIDE DEF I
    <3> QED
      BY <1>2, <3>1, MinOfNat
  <2>2. Register(array, value, EqualNumbers).array = array
    BY <1>2, <2>1 DEF Register, Registered, SelectInSeq
  <2> QED
    BY <2>2
<1> QED
  BY <1>1, <1>2

LEMMA AddressesStayOnce ==
  ASSUME NEW S, NEW array \in Seq(S), NEW value \in S, AddressesOnce(array)
  PROVE  AddressesOnce(Register(array, value, EqualUserfuncs).array)
<1> DEFINE I == {i \in 1 .. Len(array) : EqualUserfuncs(array[i], value)}
           longer == Append(array, value)
<1>1. CASE I = {}
  <2>1. Register(array, value, EqualUserfuncs).array = longer
    BY <1>1 DEF Register, Registered, SelectInSeq
  <2>2. ASSUME NEW i \in 1 .. Len(longer), NEW j \in 1 .. Len(longer), i < j
        PROVE  longer[i].address # longer[j].address
    <3>1. /\ i \in 1 .. Len(array) /\ longer[i] = array[i]
          /\ \/ j \in 1 .. Len(array) /\ longer[j] = array[j]
             \/ longer[j] = value
      BY <2>2, AppendedLast
    <3>2. array[i].address # value.address
      BY <1>1, <3>1 DEF EqualUserfuncs
    <3> HIDE DEF longer, I
    <3> QED
      BY <2>2, <3>1, <3>2 DEF AddressesOnce
  <2> HIDE DEF longer
  <2> QED
    BY <2>1, <2>2 DEF AddressesOnce
<1>2. CASE I # {}
  <2>1. Min(I) # 0
    <3>1. I \subseteq Nat /\ 0 \notin I
      OBVIOUS
    <3> HIDE DEF I
    <3> QED
      BY <1>2, <3>1, MinOfNat
  <2>2. Register(array, value, EqualUserfuncs).array = array
    BY <1>2, <2>1 DEF Register, Registered, SelectInSeq
  <2> QED
    BY <2>2
<1> QED
  BY <1>1, <1>2

-----------------------------------------------------------------------------
(* The pool after a registration. *)
LEMMA StringInPool ==
  ASSUME NEW pool \in Pool, AddressesLead(pool), NEW s \in Strings
  PROVE  LET t == RegisterString(pool, s)
         IN  /\ Extends(pool, t.pool)
             /\ t.key \in Nat /\ HasKey(t.pool.strings, t.key) /\ At(t.pool.strings, t.key) = s
<1> DEFINE r == Register(pool.strings, s, EqualStrings)
           larger == [pool EXCEPT !.strings = r.array]
<1>1. Registers(pool.strings, s, r, Strings) /\ (EachOnce(pool.strings) => EachOnce(r.array))
  BY StringRegisters, StringsOnce DEF Pool
<1>2. RegisterString(pool, s) = [pool |-> larger, key |-> r.key]
  BY DEF RegisterString
<1> HIDE DEF r
<1>3. /\ larger \in Pool
      /\ larger.strings = r.array
      /\ larger.numbers = pool.numbers /\ larger.libfuncs = pool.libfuncs
      /\ larger.userfuncs = pool.userfuncs
      /\ larger.addr_to_userfuncs = pool.addr_to_userfuncs
  BY <1>1 DEF Pool, Registers
<1> HIDE DEF larger
<1>4. AddressesLead(larger)
  BY <1>3 DEF AddressesLead, UserfuncOnAddress
<1>5. Grows(pool, larger) /\ (AllOnce(pool) => AllOnce(larger))
  BY <1>1, <1>3, KeptAll DEF Grows, Registers, AllOnce
<1> QED
  BY <1>1, <1>2, <1>3, <1>4, <1>5 DEF Extends, Registers

LEMMA NumberInPool ==
  ASSUME NEW pool \in Pool, AddressesLead(pool), NEW n \in Numbers
  PROVE  LET t == RegisterNumber(pool, n)
         IN  /\ Extends(pool, t.pool)
             /\ t.key \in Nat /\ HasKey(t.pool.numbers, t.key) /\ At(t.pool.numbers, t.key) = n
<1> DEFINE r == Register(pool.numbers, n, EqualNumbers)
           larger == [pool EXCEPT !.numbers = r.array]
<1>1. Registers(pool.numbers, n, r, Numbers) /\ (NumbersOnce(pool.numbers) => NumbersOnce(r.array))
  BY NumberRegisters, NumbersStayOnce DEF Pool
<1>2. RegisterNumber(pool, n) = [pool |-> larger, key |-> r.key]
  BY DEF RegisterNumber
<1> HIDE DEF r
<1>3. /\ larger \in Pool
      /\ larger.numbers = r.array
      /\ larger.strings = pool.strings /\ larger.libfuncs = pool.libfuncs
      /\ larger.userfuncs = pool.userfuncs
      /\ larger.addr_to_userfuncs = pool.addr_to_userfuncs
  BY <1>1 DEF Pool, Registers
<1> HIDE DEF larger
<1>4. AddressesLead(larger)
  BY <1>3 DEF AddressesLead, UserfuncOnAddress
<1>5. Grows(pool, larger) /\ (AllOnce(pool) => AllOnce(larger))
  BY <1>1, <1>3, KeptAll DEF Grows, Registers, AllOnce
<1> QED
  BY <1>1, <1>2, <1>3, <1>4, <1>5 DEF Extends, Registers

LEMMA LibfuncInPool ==
  ASSUME NEW pool \in Pool, AddressesLead(pool), NEW l \in LibFuncs
  PROVE  LET t == RegisterLibfunc(pool, l)
         IN  /\ Extends(pool, t.pool)
             /\ t.key \in Nat /\ HasKey(t.pool.libfuncs, t.key) /\ At(t.pool.libfuncs, t.key) = l
<1> DEFINE r == Register(pool.libfuncs, l, EqualStrings)
           larger == [pool EXCEPT !.libfuncs = r.array]
<1>1. Registers(pool.libfuncs, l, r, LibFuncs) /\ (EachOnce(pool.libfuncs) => EachOnce(r.array))
  BY StringRegisters, StringsOnce DEF Pool
<1>2. RegisterLibfunc(pool, l) = [pool |-> larger, key |-> r.key]
  BY DEF RegisterLibfunc
<1> HIDE DEF r
<1>3. /\ larger \in Pool
      /\ larger.libfuncs = r.array
      /\ larger.strings = pool.strings /\ larger.numbers = pool.numbers
      /\ larger.userfuncs = pool.userfuncs
      /\ larger.addr_to_userfuncs = pool.addr_to_userfuncs
  BY <1>1 DEF Pool, Registers
<1> HIDE DEF larger
<1>4. AddressesLead(larger)
  BY <1>3 DEF AddressesLead, UserfuncOnAddress
<1>5. Grows(pool, larger) /\ (AllOnce(pool) => AllOnce(larger))
  BY <1>1, <1>3, KeptAll DEF Grows, Registers, AllOnce
<1> QED
  BY <1>1, <1>2, <1>3, <1>4, <1>5 DEF Extends, Registers

(* register_userfunc also notes the key for the function's address, the    *)
(* same key if the function was there.                                     *)
LEMMA UserfuncInPool ==
  ASSUME NEW pool \in Pool, AddressesLead(pool), NEW u \in Userfuncs
  PROVE  LET t == RegisterUserfunc(pool, u)
         IN  /\ Extends(pool, t.pool)
             /\ t.key \in Nat /\ HasKey(t.pool.userfuncs, t.key)
             /\ At(t.pool.userfuncs, t.key) = u
<1> DEFINE r     == Register(pool.userfuncs, u, EqualUserfuncs)
           links == [address \in DOMAIN pool.addr_to_userfuncs \cup {u.address} |->
                       IF address = u.address THEN r.key ELSE pool.addr_to_userfuncs[address]]
           larger == [pool EXCEPT !.userfuncs = r.array, !.addr_to_userfuncs = links]
<1>1. /\ Registers(pool.userfuncs, u, r, Userfuncs)
      /\ AddressesOnce(pool.userfuncs) => AddressesOnce(r.array)
  BY UserfuncRegisters, AddressesStayOnce DEF Pool
<1>2. RegisterUserfunc(pool, u) = [pool |-> larger, key |-> r.key]
  BY DEF RegisterUserfunc
<1> HIDE DEF r
<1>3. u.address \in Nat
  BY BinaryFileAssumption DEF Userfuncs, Userfunc
<1>4. PICK D \in SUBSET Nat : pool.addr_to_userfuncs \in [D -> Nat]
  BY DEF Pool
<1>5. links = [a \in {u.address} \cup D |->
                 IF a = u.address THEN r.key ELSE pool.addr_to_userfuncs[a]]
  BY <1>4
<1>6. links \in [{u.address} \cup D -> Nat] /\ links[u.address] = r.key
  BY <1>1, <1>4, <1>5 DEF Registers
<1>7. \A a : a \in D /\ a # u.address => links[a] = pool.addr_to_userfuncs[a]
  BY <1>5
<1>8. links \in UNION {[E -> Nat] : E \in SUBSET Nat}
  <2>1. {u.address} \cup D \in SUBSET Nat
    BY <1>3
  <2> HIDE DEF links
  <2> QED
    BY <1>6, <2>1
<1> HIDE DEF links
<1>9. /\ larger \in Pool
      /\ larger.userfuncs = r.array
      /\ larger.strings = pool.strings /\ larger.numbers = pool.numbers
      /\ larger.libfuncs = pool.libfuncs
      /\ larger.addr_to_userfuncs = links
  BY <1>1, <1>8 DEF Pool, Registers
<1> HIDE DEF larger
<1>10. AddressesLead(larger)
  <2>1. ASSUME NEW key \in Nat, HasKey(r.array, key)
        PROVE  LET v == At(r.array, key)
               IN  /\ v.address \in DOMAIN links
                   /\ HasKey(r.array, links[v.address])
                   /\ At(r.array, links[v.address]) = v
    <3> DEFINE v == At(r.array, key)
    <3>1. v \in Userfuncs
      <4>1. key + 1 \in 1 .. Len(r.array)
        BY <2>1 DEF HasKey
      <4> QED
        BY <1>1, <4>1, ElementOfSeq DEF Registers, At
    <3>2. CASE v.address = u.address
      <4>1. v = u
        BY <3>1, <3>2, AddressesDiffer
      <4> QED
        BY <1>1, <1>6, <4>1 DEF Registers
    <3>3. CASE v.address # u.address
      <4>1. HasKey(pool.userfuncs, key) /\ At(pool.userfuncs, key) = v
        BY <1>1, <2>1, <3>3 DEF Registers, Kept
      <4> DEFINE old == pool.addr_to_userfuncs[v.address]
      <4>2. /\ v.address \in D
            /\ HasKey(pool.userfuncs, old)
            /\ At(pool.userfuncs, old) = v
        BY <1>4, <4>1 DEF AddressesLead, UserfuncOnAddress
      <4>3. old \in Nat
        BY <1>4, <4>2
      <4>4. v.address \in DOMAIN links /\ links[v.address] = old
        BY <1>6, <1>7, <3>3, <4>2
      <4> HIDE DEF old, v
      <4>5. HasKey(r.array, old) /\ At(r.array, old) = v
        BY <1>1, <4>2, <4>3 DEF Registers, Kept
      <4> QED
        BY <4>4, <4>5 DEF v
    <3> QED
      BY <3>2, <3>3
  <2> QED
    BY <1>9, <2>1 DEF AddressesLead, UserfuncOnAddress
<1>11. Grows(pool, larger) /\ (AllOnce(pool) => AllOnce(larger))
  BY <1>1, <1>9, KeptAll DEF Grows, Registers, AllOnce
<1> QED
  BY <1>1, <1>2, <1>9, <1>10, <1>11 DEF Extends, Registers

-----------------------------------------------------------------------------
(* Translating an operand yields an argument that stands for it.           *)
LEMMA Translation ==
  ASSUME NEW pool \in Pool, AddressesLead(pool), NEW e \in Operands, NEW junk \in Nat
  PROVE  LET t == TranslateOperand(pool, e, junk)
         IN  /\ Extends(pool, t.pool)
             /\ t.arg \in Args
             /\ StandsFor(t.arg, t.pool, e, Whole)
<1> DEFINE t == TranslateOperand(pool, e, junk)
<1>same. Extends(pool, pool)
  BY KeptAll DEF Extends, Grows
<1>1. CASE e.type = "string"
  <2> DEFINE r == RegisterString(pool, e.of)
  <2>1. e.of \in Strings
    BY <1>1 DEF Operands
  <2>2. /\ Extends(pool, r.pool) /\ r.key \in Nat
        /\ HasKey(r.pool.strings, r.key) /\ At(r.pool.strings, r.key) = e.of
    BY <2>1, StringInPool
  <2>3. t = [pool |-> r.pool, arg |-> VMarg("string", r.key)]
    BY <1>1 DEF TranslateOperand, InPool
  <2>4. Whole[e.of] = e.of
    BY <2>1 DEF Whole, Names
  <2> HIDE DEF t, r
  <2> QED
    BY <1>1, <2>2, <2>3, <2>4 DEF VMarg, Args, ArgTypes, StandsFor, t
<1>2. CASE e.type = "number"
  <2> DEFINE r == RegisterNumber(pool, e.of)
  <2>1. e.of \in Numbers
    BY <1>2 DEF Operands
  <2>2. /\ Extends(pool, r.pool) /\ r.key \in Nat
        /\ HasKey(r.pool.numbers, r.key) /\ At(r.pool.numbers, r.key) = e.of
    BY <2>1, NumberInPool
  <2>3. t = [pool |-> r.pool, arg |-> VMarg("number", r.key)]
    BY <1>2 DEF TranslateOperand, InPool
  <2> HIDE DEF t, r
  <2> QED
    BY <1>2, <2>2, <2>3 DEF VMarg, Args, ArgTypes, StandsFor, t
<1>3. CASE e.type = "libfunc"
  <2> DEFINE r == RegisterLibfunc(pool, e.of)
  <2>1. e.of \in LibFuncs
    BY <1>3 DEF Operands
  <2>2. /\ Extends(pool, r.pool) /\ r.key \in Nat
        /\ HasKey(r.pool.libfuncs, r.key) /\ At(r.pool.libfuncs, r.key) = e.of
    BY <2>1, LibfuncInPool
  <2>3. t = [pool |-> r.pool, arg |-> VMarg("libfunc", r.key)]
    BY <1>3 DEF TranslateOperand, InPool
  <2> HIDE DEF t, r
  <2> QED
    BY <1>3, <2>2, <2>3 DEF VMarg, Args, ArgTypes, StandsFor, t
<1>4. CASE e.type = "userfunc"
  <2> DEFINE u == Userfunc(e.of)
             r == RegisterUserfunc(pool, u)
  <2>1. u \in Userfuncs
    BY <1>4 DEF Operands, Userfuncs
  <2>2. /\ Extends(pool, r.pool) /\ r.key \in Nat
        /\ HasKey(r.pool.userfuncs, r.key) /\ At(r.pool.userfuncs, r.key) = u
    BY <2>1, UserfuncInPool
  <2>3. t = [pool |-> r.pool, arg |-> VMarg("userfunc", r.key)]
    BY <1>4 DEF TranslateOperand, InPool
  <2>4. u.address = Address[e.of]
    BY DEF Userfunc
  <2> HIDE DEF r
  <2>5. UserfuncOnAddress(r.pool, Address[e.of]) = u
    BY <2>2, <2>4 DEF Extends, AddressesLead
  <2> HIDE DEF t
  <2> QED
    BY <1>4, <2>2, <2>3, <2>5 DEF VMarg, Args, ArgTypes, StandsFor, t
<1>5. CASE e.type = "nullptr"
  <2>1. t = [pool |-> pool, arg |-> NullArg]
    BY <1>5 DEF TranslateOperand
  <2> HIDE DEF t
  <2> QED
    BY <1>5, <1>same, <2>1 DEF Args, StandsFor, t
<1>6. CASE e.type \in {"nil", "retval"}
  <2>1. t = [pool |-> pool, arg |-> VMarg(e.type, junk)]
    BY <1>6 DEF TranslateOperand, DirectArg
  <2> HIDE DEF t
  <2> QED
    BY <1>6, <1>same, <2>1 DEF VMarg, Args, ArgTypes, StandsFor, t
<1>7. CASE e.type = "boolean"
  <2>1. t = [pool |-> pool, arg |-> VMarg(e.type, IF e.of THEN 1 ELSE 0)]
    BY <1>7 DEF TranslateOperand, DirectArg
  <2>2. (IF e.of THEN 1 ELSE 0) \in Nat
    OBVIOUS
  <2> HIDE DEF t
  <2> QED
    BY <1>7, <1>same, <2>1, <2>2 DEF VMarg, Args, ArgTypes, StandsFor, t
<1>8. CASE e.type \in {"program", "local", "formal", "label"}
  <2>1. t = [pool |-> pool, arg |-> VMarg(e.type, e.of)]
    BY <1>8 DEF TranslateOperand, DirectArg
  <2>2. e.of \in Nat
    BY <1>8 DEF Operands
  <2> HIDE DEF t
  <2> QED
    BY <1>8, <1>same, <2>1, <2>2 DEF VMarg, Args, ArgTypes, StandsFor, t
<1> QED
  BY <1>1, <1>2, <1>3, <1>4, <1>5, <1>6, <1>7, <1>8 DEF Operands

(* And it goes on standing for it. *)
LEMMA StandsOn ==
  ASSUME NEW pool \in Pool, AddressesLead(pool), NEW larger, Extends(pool, larger),
         NEW e \in Operands, NEW arg \in Args, StandsFor(arg, pool, e, Whole)
  PROVE  StandsFor(arg, larger, e, Whole)
<1>1. /\ Grows(pool, larger) /\ AddressesLead(larger)
  BY DEF Extends
<1>2. CASE e.type \in {"string", "number", "libfunc", "userfunc"}
  <2>1. arg.type = e.type
    BY <1>2 DEF StandsFor
  <2>2. arg.value \in Nat
    BY <1>2, <2>1 DEF Args, NullArg
  <2>3. CASE e.type = "string"
    BY <1>1, <2>2, <2>3 DEF StandsFor, Grows, Kept
  <2>4. CASE e.type = "number"
    BY <1>1, <2>2, <2>4 DEF StandsFor, Grows, Kept
  <2>5. CASE e.type = "libfunc"
    BY <1>1, <2>2, <2>5 DEF StandsFor, Grows, Kept
  <2>6. CASE e.type = "userfunc"
    <3>1. /\ HasKey(pool.userfuncs, arg.value)
          /\ At(pool.userfuncs, arg.value) = Userfunc(e.of)
      BY <2>6 DEF StandsFor
    <3>2. /\ HasKey(larger.userfuncs, arg.value)
          /\ At(larger.userfuncs, arg.value) = Userfunc(e.of)
      BY <1>1, <2>2, <3>1 DEF Grows, Kept
    <3>3. Userfunc(e.of).address = Address[e.of]
      BY DEF Userfunc
    <3>4. UserfuncOnAddress(larger, Address[e.of]) = Userfunc(e.of)
      BY <1>1, <2>2, <3>2, <3>3 DEF AddressesLead
    <3> QED
      BY <2>1, <2>6, <3>2, <3>4 DEF StandsFor
  <2> QED
    BY <1>2, <2>3, <2>4, <2>5, <2>6
<1>3. CASE e.type \notin {"string", "number", "libfunc", "userfunc"}
  BY <1>3 DEF StandsFor
<1> QED
  BY <1>2, <1>3

-----------------------------------------------------------------------------
(* While the operands of an instruction are translated: those that were    *)
(* have arguments that stand for them.                                     *)
Progress(pool, g, operands, done) ==
  /\ Extends(pool, g.pool)
  /\ g.args \in [1 .. 3 -> Args]
  /\ \A k \in done : StandsFor(g.args[k], g.pool, operands[k], Whole)

LEMMA ExtendsOn ==
  ASSUME NEW a, NEW b, NEW c, Extends(a, b), Extends(b, c)
  PROVE  Extends(a, c)
BY KeptAll DEF Extends, Grows

LEMMA OneOperand ==
  ASSUME NEW pool, NEW g, NEW operands \in [1 .. 3 -> Operands],
         NEW done \in SUBSET (1 .. 3), Progress(pool, g, operands, done),
         NEW k \in 1 .. 3, NEW junk \in Nat
  PROVE  LET t == TranslateOperand(g.pool, operands[k], junk)
             h == [pool |-> t.pool, args |-> [g.args EXCEPT ![k] = t.arg]]
         IN  Progress(pool, h, operands, done \cup {k})
<1> DEFINE t    == TranslateOperand(g.pool, operands[k], junk)
           args == [g.args EXCEPT ![k] = t.arg]
           h    == [pool |-> t.pool, args |-> args]
<1>1. /\ g.pool \in Pool /\ AddressesLead(g.pool)
      /\ g.args \in [1 .. 3 -> Args]
  BY DEF Progress, Extends
<1>2. /\ Extends(g.pool, t.pool)
      /\ t.arg \in Args
      /\ StandsFor(t.arg, t.pool, operands[k], Whole)
  BY <1>1, Translation
<1> HIDE DEF t
<1>3. args \in [1 .. 3 -> Args] /\ args[k] = t.arg /\ \A j \in 1 .. 3 : j # k => args[j] = g.args[j]
  BY <1>1, <1>2
<1> HIDE DEF args
<1>4. ASSUME NEW j \in done \cup {k}
      PROVE  StandsFor(args[j], t.pool, operands[j], Whole)
  <2>1. CASE j = k
    BY <1>2, <1>3, <2>1
  <2>2. CASE j # k
    <3>1. j \in done /\ j \in 1 .. 3 /\ args[j] = g.args[j] /\ g.args[j] \in Args
      BY <1>1, <1>3, <2>2
    <3>2. StandsFor(g.args[j], g.pool, operands[j], Whole)
      BY <3>1 DEF Progress
    <3>3. operands[j] \in Operands
      BY <3>1
    <3>4. StandsFor(g.args[j], t.pool, operands[j], Whole)
      BY <1>1, <1>2, <3>1, <3>2, <3>3, StandsOn
    <3> QED
      BY <3>1, <3>4
  <2> QED
    BY <2>1, <2>2
<1>5. Extends(pool, t.pool)
  BY <1>2, ExtendsOn DEF Progress
<1> QED
  BY <1>3, <1>4, <1>5 DEF Progress, t, args

LEMMA Generation ==
  ASSUME const_pool \in Pool, AddressesLead(const_pool),
         NEW operands \in [1 .. 3 -> Operands], NEW order \in SetToSeqs(1 .. 3),
         NEW junk \in Nat
  PROVE  Progress(const_pool, Generate(operands, order, junk), operands, 1 .. 3)
<1> DEFINE Translated(g, k) ==
             LET t == TranslateOperand(g.pool, operands[k], junk)
             IN  [pool |-> t.pool, args |-> [g.args EXCEPT ![k] = t.arg]]
           start  == [pool |-> const_pool, args |-> [k \in 1 .. 3 |-> NullArg]]
           first  == Translated(start, order[1])
           second == Translated(first, order[2])
           third  == Translated(second, order[3])
<1>1. /\ order \in [1 .. 3 -> 1 .. 3]
      /\ \A i, j \in 1 .. 3 : i # j => order[i] # order[j]
  <2>1. Cardinality(1 .. 3) = 3
    <3>1. Cardinality(1 .. 3) = IF 1 > 3 THEN 0 ELSE 3 - 1 + 1
      BY 1 \in Int, 3 \in Int, FS_Interval, Zenon
    <3> QED
      BY <3>1
  <2> QED
    BY <2>1 DEF SetToSeqs
<1>2. {order[1]} \cup {order[2]} \cup {order[3]} = 1 .. 3
  <2>1. /\ order[1] \in 1 .. 3 /\ order[2] \in 1 .. 3 /\ order[3] \in 1 .. 3
        /\ order[1] # order[2] /\ order[1] # order[3] /\ order[2] # order[3]
    BY <1>1
  <2> QED
    BY <2>1
<1>3. Progress(const_pool, start, operands, {})
  <2>1. [k \in 1 .. 3 |-> NullArg] \in [1 .. 3 -> Args]
    BY DEF Args
  <2> QED
    BY <2>1, KeptAll DEF Progress, Extends, Grows
<1>4. Generate(operands, order, junk) = third
  BY DEF Generate
<1> HIDE DEF start
<1>5. Progress(const_pool, first, operands, {order[1]})
  <2>1. {} \cup {order[1]} = {order[1]}
    OBVIOUS
  <2>2. Progress(const_pool, first, operands, {} \cup {order[1]})
    <3>1. {} \in SUBSET (1 .. 3) /\ order[1] \in 1 .. 3
      BY <1>1
    <3> QED
      BY <1>3, <3>1, OneOperand, Zenon
  <2> HIDE DEF first
  <2> QED
    BY <2>1, <2>2
<1> HIDE DEF first
<1>6. Progress(const_pool, second, operands, {order[1]} \cup {order[2]})
  <2>1. {order[1]} \in SUBSET (1 .. 3) /\ order[2] \in 1 .. 3
    BY <1>1
  <2> QED
    BY <1>5, <2>1, OneOperand
<1> HIDE DEF second
<1>7. Progress(const_pool, third, operands, {order[1]} \cup {order[2]} \cup {order[3]})
  <2>1. {order[1]} \cup {order[2]} \in SUBSET (1 .. 3) /\ order[3] \in 1 .. 3
    BY <1>1
  <2> QED
    BY <1>6, <2>1, OneOperand
<1> HIDE DEF third
<1> QED
  BY <1>2, <1>4, <1>7

LEMMA GenerateKeeps ==
  ASSUME IInv, NEW operands \in Shapes, GenerateInstruction(operands)
  PROVE  IInv'
<1>1. operands \in [1 .. 3 -> Operands] /\ Shapes \subseteq [1 .. 3 -> Operands]
  BY BinaryFileAssumption
<1>2. PICK order \in SetToSeqs(1 .. 3), junk \in Junk :
        LET g == Generate(operands, order, junk)
        IN  /\ const_pool' = g.pool
            /\ vm_instructions' = Append(vm_instructions,
                 [opcode |-> "assign", args |-> g.args, source_line |-> Len(vm_instructions) + 1])
  BY DEF GenerateInstruction
<1> DEFINE g   == Generate(operands, order, junk)
           new == [opcode |-> "assign", args |-> g.args, source_line |-> Len(vm_instructions) + 1]
           n   == Len(vm_instructions)
<1>3. junk \in Nat
  BY BinaryFileAssumption
<1>4. Progress(const_pool, g, operands, 1 .. 3)
  BY <1>1, <1>3, Generation DEF IInv
<1>5. const_pool' = g.pool /\ vm_instructions' = Append(vm_instructions, new)
  BY <1>2
<1> HIDE DEF g
<1>6. /\ const_pool' \in Pool /\ AddressesLead(const_pool') /\ Extends(const_pool, const_pool')
      /\ AllOnce(const_pool) => AllOnce(const_pool')
      /\ g.args \in [1 .. 3 -> Args]
      /\ \A k \in 1 .. 3 : StandsFor(g.args[k], const_pool', operands[k], Whole)
  BY <1>4, <1>5 DEF Progress, Extends
<1>7. n \in Nat /\ Len(source) = n
  BY LenProperties DEF IInv, KeysStayValid, AllStandFor
<1>8. new \in Instructions
  BY <1>6, <1>7 DEF Instructions, Args
<1>9. new.args = g.args
  OBVIOUS
<1> HIDE DEF new
<1>10. /\ vm_instructions' \in Seq(Instructions) /\ Len(vm_instructions') = n + 1
       /\ \A i \in 1 .. n : vm_instructions'[i] = vm_instructions[i]
       /\ vm_instructions'[n + 1] = new
  BY <1>5, <1>8, AppendProperties DEF IInv
<1>11. source' = Append(source, operands)
  BY DEF GenerateInstruction
<1>12. /\ source' \in Seq(Shapes) /\ Len(source') = n + 1
       /\ \A i \in 1 .. n : source'[i] = source[i]
       /\ source'[n + 1] = operands
       /\ DOMAIN source' = 1 .. n + 1
  BY <1>7, <1>11, AppendProperties, LenProperties DEF IInv
<1> HIDE DEF n
<1>13. ASSUME NEW i \in DOMAIN source', NEW k \in 1 .. 3
       PROVE  StandsFor(vm_instructions'[i].args[k], const_pool', source'[i][k], Whole)
  <2>1. CASE i = n + 1
    BY <1>6, <1>9, <1>10, <1>12, <2>1
  <2>2. CASE i # n + 1
    <3>1. i \in 1 .. n
      BY <1>7, <1>12, <2>2
    <3>2. DOMAIN source = 1 .. n
      BY <1>7, LenProperties DEF IInv
    <3> DEFINE arg == vm_instructions[i].args[k]
               e   == source[i][k]
    <3>3. StandsFor(arg, const_pool, e, Whole)
      BY <3>1, <3>2 DEF IInv, KeysStayValid, AllStandFor
    <3>4. arg \in Args
      <4>1. vm_instructions[i] \in Instructions
        BY <3>1, ElementOfSeq DEF IInv, n
      <4> QED
        BY <4>1 DEF Instructions, Args
    <3>5. e \in Operands
      <4>1. source[i] \in Shapes
        BY <1>7, <3>1, ElementOfSeq DEF IInv
      <4> QED
        BY <1>1, <4>1
    <3> HIDE DEF arg, e
    <3>6. StandsFor(arg, const_pool', e, Whole)
      BY <1>6, <3>3, <3>4, <3>5, StandsOn DEF IInv
    <3> QED
      BY <1>10, <1>12, <3>1, <3>6 DEF arg, e
  <2> QED
    BY <2>1, <2>2
<1> QED
  BY <1>6, <1>10, <1>12, <1>13 DEF IInv, KeysStayValid, AllStandFor

LEMMA NextKeeps ==
  ASSUME IInv, [Next]_vars
  PROVE  IInv'
<1>1. ASSUME UNCHANGED <<source, const_pool, vm_instructions>>
      PROVE  IInv'
  BY <1>1 DEF IInv, KeysStayValid, AllStandFor
<1>2. CASE UNCHANGED vars
  BY <1>1, <1>2 DEF vars
<1>3. ASSUME NEW operands \in Shapes, GenerateInstruction(operands)
      PROVE  IInv'
  BY <1>3, GenerateKeeps
<1>4. CASE GenerateBinaryFile
  BY <1>1, <1>4 DEF GenerateBinaryFile
<1>5. CASE RuleBinaryFile
  BY <1>1, <1>5
     DEF RuleBinaryFile, RuleMagicNumber, RuleStrings, RuleNumbers, RuleUserfunctions,
         RuleLibfunctions, RuleConstants, RuleCode, RuleNrProgramVars, Parse
<1> QED
  BY <1>2, <1>3, <1>4, <1>5 DEF Next, Generator

LEMMA InitHolds ==
  ASSUME Init
  PROVE  IInv
<1> DEFINE noLinks == EmptyPool.addr_to_userfuncs
<1>1. noLinks = << >> /\ << >> \in [{} -> Nat]
  BY DEF EmptyPool
<1>2. const_pool \in Pool
  BY <1>1 DEF Init, EmptyPool, Pool
<1>3. AddressesLead(const_pool)
  BY DEF Init, EmptyPool, AddressesLead, HasKey
<1>4. KeysStayValid
  BY DEF Init, KeysStayValid, AllStandFor
<1>5. AllOnce(const_pool)
  BY DEF Init, EmptyPool, AllOnce, EachOnce, NumbersOnce, AddressesOnce
<1> QED
  BY <1>2, <1>3, <1>4, <1>5 DEF Init, IInv

(* Each argument of the generated code stands for its operand, however     *)
(* many constants are registered after it and in whatever order the        *)
(* operands of an instruction are evaluated                                *)
(* (VMcode_generator.cpp:97-200, Constants_pool.cpp:57-102).               *)
THEOREM KeysNeverMove == Spec => []KeysStayValid
<1>1. Init => IInv
  BY InitHolds
<1>2. IInv /\ [Next]_vars => IInv'
  BY NextKeeps
<1>3. IInv => KeysStayValid
  BY DEF IInv
<1> QED
  BY <1>1, <1>2, <1>3, PTL DEF Spec

-----------------------------------------------------------------------------
(* What the rules of the reader leave of what the writer wrote.  A reading *)
(* faces the tokens w if the file goes on with them, as far as it goes on. *)
Value ==
  {MAGICNUMBER, "assign"} \cup ArgTypes \cup BOOLEAN \cup Nat \cup Names \cup Numbers
    \cup Args \cup Userfuncs \cup Instructions

TokenTypes == {"unsigned int", "unsigned short", "double long", "boolean", "char"}
Tokens     == [type : TokenTypes, count : Nat, value : Value]
Values == Seq(Value)
Series == Seq(Tokens)
Errors == {"none", "failure"}

FileEnd  == Len(file) + 1
Readings == [pos : 1 .. FileEnd, values : Values, error : Errors]

Facing(r, w) ==
  r.error = "none" =>
    \A i \in 1 .. Len(w) : r.pos + i - 1 < FileEnd => file[r.pos + i - 1] = w[i]

Fits(r, w)     == r.error = "none" /\ r.pos + Len(w) <= FileEnd
After(r, w, vs) == [pos |-> r.pos + Len(w), values |-> r.values \o vs, error |-> "none"]

(* The rule that turns r into q reads the tokens w and leaves the values   *)
(* vs, or fails where the file ends.                                       *)
Reads(r, q, w, vs) ==
  /\ w \in Series /\ vs \in Values
  /\ q \in Readings
  /\ IF Fits(r, w) THEN q = After(r, w, vs) ELSE q.error = "failure"

LEMMA OneToken ==
  ASSUME NEW type \in TokenTypes, NEW count \in Nat, NEW value \in Value
  PROVE  /\ Token(type, count, value) \in Series
         /\ Len(Token(type, count, value)) = 1
         /\ Token(type, count, value)[1] = [type |-> type, count |-> count, value |-> value]
BY DEF Token, Tokens, Series

LEMMA FileLength == file \in Series => FileEnd \in Nat /\ Len(file) \in Nat /\ FileEnd = Len(file) + 1
BY LenProperties DEF FileEnd, Series

LEMMA ReadingFields ==
  ASSUME file \in Series, NEW r \in Readings
  PROVE  /\ r = [pos |-> r.pos, values |-> r.values, error |-> r.error]
         /\ r.pos \in Nat /\ 1 <= r.pos /\ r.pos <= FileEnd /\ FileEnd \in Nat
         /\ r.values \in Values
         /\ r.error = "none" \/ r.error = "failure"
<1>1. FileEnd \in Nat
  BY FileLength
<1> DEFINE p == r.pos
<1>2. p \in 1 .. FileEnd
  BY DEF Readings
<1>3. /\ r = [pos |-> r.pos, values |-> r.values, error |-> r.error]
      /\ r.values \in Values
      /\ r.error = "none" \/ r.error = "failure"
  BY DEF Readings, Errors
<1> HIDE DEF p
<1>4. p \in Nat /\ 1 <= p /\ p <= FileEnd
  BY <1>1, <1>2
<1> QED
  BY <1>1, <1>3, <1>4 DEF p

LEMMA ReadingIs ==
  ASSUME file \in Series, NEW pos \in Nat, 1 <= pos, pos <= FileEnd,
         NEW values \in Values, NEW error \in Errors
  PROVE  [pos |-> pos, values |-> values, error |-> error] \in Readings
<1>1. FileEnd \in Nat
  BY FileLength
<1>2. pos \in 1 .. FileEnd
  BY <1>1
<1> QED
  BY <1>2 DEF Readings

LEMMA Consumes ==
  ASSUME file \in Series, NEW r \in Readings,
         NEW type \in TokenTypes, NEW count \in Nat, NEW value \in Value,
         Facing(r, Token(type, count, value))
  PROVE  Reads(r, Consume(r, type, count), Token(type, count, value), <<value>>)
<1> DEFINE w == Token(type, count, value)
           t == [type |-> type, count |-> count, value |-> value]
           q == Consume(r, type, count)
<1>1. w \in Series /\ Len(w) = 1 /\ w[1] = t
  BY OneToken
<1>2. FileEnd \in Nat /\ Len(file) = FileEnd - 1
  BY FileLength
<1>3. /\ r = [pos |-> r.pos, values |-> r.values, error |-> r.error]
      /\ r.pos \in Nat /\ 1 <= r.pos /\ r.pos <= FileEnd
      /\ r.values \in Values
      /\ r.error = "none" \/ r.error = "failure"
  BY ReadingFields
<1>4. t.type = type /\ t.count = count /\ t.value = value
  OBVIOUS
<1> DEFINE p == r.pos
<1>p. p \in Nat /\ 1 <= p /\ p <= FileEnd
  BY <1>3
<1> DEFINE more == Append(r.values, value)
<1>5. <<value>> \in Values /\ more = r.values \o <<value>> /\ more \in Values
  <2>1. <<value>> \in Values
    BY DEF Values
  <2>2. more \in Values
    BY <1>3, AppendProperties DEF Values
  <2>3. more = r.values \o <<value>>
    BY <1>3, AppendIsConcat DEF Values
  <2> QED
    BY <2>1, <2>2, <2>3
<1>6. Fits(r, w) <=> r.error = "none" /\ r.pos < FileEnd
  <2> HIDE DEF p, w
  <2>1. p + 1 <= FileEnd <=> p < FileEnd
    BY ONLY <1>2, <1>p
  <2> QED
    BY <1>1, <2>1 DEF Fits, p
<1> HIDE DEF p
<1>7. p > Len(file) <=> ~(p < FileEnd)
  BY ONLY <1>2, <1>p
<1> HIDE DEF w, t, more
<1>8. CASE r.error # "none"
  <2>1. q = r
    BY <1>8 DEF Consume
  <2>2. q \in Readings /\ q.error = "failure"
    BY <1>3, <1>8, <2>1
  <2> HIDE DEF q
  <2> QED
    BY <1>1, <1>5, <1>6, <1>8, <2>2 DEF Reads, w, q
<1>9. CASE r.error = "none" /\ ~(r.pos < FileEnd)
  <2>1. q = [r EXCEPT !.error = "failure"]
    BY <1>7, <1>9 DEF Consume, p
  <2>2. q = [pos |-> r.pos, values |-> r.values, error |-> "failure"]
    BY ONLY <1>3, <2>1
  <2> HIDE DEF q
  <2>3. q \in Readings /\ q.error = "failure"
    BY <1>3, <2>2, ReadingIs DEF Errors
  <2> QED
    BY <1>1, <1>5, <1>6, <1>9, <2>3 DEF Reads, w, q
<1>10. CASE r.error = "none" /\ r.pos < FileEnd
  <2>1. file[r.pos] = t
    <3>1. 1 \in 1 .. 1 /\ p + 1 - 1 = p
      BY ONLY <1>p
    <3>2. file[p + 1 - 1] = w[1]
      BY <1>1, <1>10, <3>1 DEF Facing, w, p
    <3> QED
      BY <1>1, <3>1, <3>2 DEF p
  <2>2. q = [r EXCEPT !.pos = @ + 1, !.values = more]
    BY <1>4, <1>7, <1>10, <2>1 DEF Consume, more, p
  <2>3. q = [pos |-> r.pos + 1, values |-> more, error |-> "none"]
    BY ONLY <1>3, <1>10, <2>2
  <2> HIDE DEF q
  <2>4. p + 1 \in Nat /\ 1 <= p + 1 /\ p + 1 <= FileEnd
    <3>1. p < FileEnd
      BY <1>10 DEF p
    <3> QED
      BY ONLY <1>2, <1>p, <3>1
  <2>5. q \in Readings
    BY <1>5, <2>3, <2>4, ReadingIs DEF Errors, p
  <2>6. q = After(r, w, <<value>>)
    BY <1>1, <1>5, <2>3 DEF After
  <2> QED
    BY <1>1, <1>5, <1>6, <1>10, <2>5, <2>6 DEF Reads, w, q
<1> QED
  BY <1>3, <1>8, <1>9, <1>10

(* Rules follow one another as what they read does. *)
LEMMA Ahead ==
  ASSUME file \in Series, NEW r \in Readings,
         NEW v \in Series, NEW w \in Series, Facing(r, v \o w)
  PROVE  /\ Facing(r, v)
         /\ \A q, vs : Reads(r, q, v, vs) => Facing(q, w)
<1> DEFINE m == Len(v)
           n == Len(w)
           p == r.pos
<1>1. FileEnd \in Nat /\ m \in Nat /\ n \in Nat /\ p \in Nat
  BY LenProperties, ReadingFields DEF Series
<1>2. /\ Len(v \o w) = m + n
      /\ \A i \in 1 .. m + n : (v \o w)[i] = IF i <= m THEN v[i] ELSE w[i - m]
  BY ConcatProperties DEF Series
<1> HIDE DEF m, n, p
<1>3. ASSUME NEW i \in 1 .. m
      PROVE  i \in 1 .. m + n /\ (v \o w)[i] = v[i]
  <2>1. i \in 1 .. m + n /\ i <= m
    BY ONLY <1>1, <1>3
  <2> QED
    BY ONLY <1>2, <2>1
<1>4. Facing(r, v)
  BY <1>2, <1>3 DEF Facing, m
<1>5. ASSUME NEW q, NEW vs, Reads(r, q, v, vs), q.error = "none",
             NEW i \in 1 .. n, q.pos + i - 1 < FileEnd
      PROVE  file[q.pos + i - 1] = w[i]
  <2>1. r.error = "none" /\ q.pos = p + m
    <3>1. Fits(r, v) /\ q = After(r, v, vs)
      BY <1>5 DEF Reads
    <3> QED
      BY <3>1 DEF Fits, After, m, p
  <2>2. /\ m + i \in 1 .. m + n /\ ~(m + i <= m) /\ (m + i) - m = i
        /\ p + (m + i) - 1 = (p + m) + i - 1
    BY ONLY <1>1, i \in 1 .. n
  <2>3. (v \o w)[m + i] = w[i]
    BY ONLY <1>2, <2>2
  <2>4. file[p + (m + i) - 1] = (v \o w)[m + i]
    BY <1>2, <1>5, <2>1, <2>2 DEF Facing, p
  <2> QED
    BY <2>1, <2>2, <2>3, <2>4
<1> QED
  BY <1>4, <1>5 DEF Facing, n

LEMMA Then ==
  ASSUME file \in Series, NEW r \in Readings, NEW q, NEW s,
         NEW v, NEW w, NEW vs, NEW ws, Reads(r, q, v, vs), Reads(q, s, w, ws)
  PROVE  Reads(r, s, v \o w, vs \o ws)
<1> DEFINE m == Len(v)
           n == Len(w)
           p == r.pos
<1>1. /\ v \in Series /\ w \in Series /\ vs \in Values /\ ws \in Values
      /\ q \in Readings /\ s \in Readings
  BY DEF Reads
<1>2. /\ r.values \in Values
      /\ r.error = "none" \/ r.error = "failure"
  BY ReadingFields
<1>p. FileEnd \in Nat /\ p \in Nat
  BY ReadingFields
<1>3. m \in Nat /\ n \in Nat
  BY <1>1, LenProperties DEF Series
<1>4. v \o w \in Series /\ Len(v \o w) = m + n /\ vs \o ws \in Values
  BY <1>1, ConcatProperties DEF Series, Values
<1>5. (r.values \o vs) \o ws = r.values \o (vs \o ws)
  <2> DEFINE old == r.values
  <2>1. old \in Seq(Value) /\ vs \in Seq(Value) /\ ws \in Seq(Value)
    BY <1>1, <1>2 DEF Values
  <2> HIDE DEF old
  <2>2. (old \o vs) \o ws = old \o (vs \o ws)
    BY <2>1, ConcatAssociative
  <2> QED
    BY <2>2 DEF old
<1> HIDE DEF m, n, p
<1>6. CASE Fits(r, v)
  <2>1. q.error = "none" /\ q.pos = p + m /\ q.values = r.values \o vs
    <3>1. q = After(r, v, vs)
      BY <1>6 DEF Reads
    <3> QED
      BY <3>1 DEF After, m, p
  <2>2. (p + m) + n = p + (m + n)
    BY ONLY <1>p, <1>3
  <2>3. Fits(q, w) <=> Fits(r, v \o w)
    BY <1>4, <1>6, <2>1, <2>2 DEF Fits, n, p
  <2>4. After(q, w, ws) = After(r, v \o w, vs \o ws)
    BY <1>4, <1>5, <2>1, <2>2 DEF After, n, p
  <2> QED
    BY <1>1, <1>4, <2>3, <2>4 DEF Reads
<1>7. CASE ~Fits(r, v)
  <2>1. q.error = "failure"
    BY <1>7 DEF Reads
  <2>2. s.error = "failure"
    BY <2>1 DEF Reads, Fits
  <2>3. ~Fits(r, v \o w)
    <3>1. r.error = "none" => ~(p + m <= FileEnd)
      BY <1>7 DEF Fits, m, p
    <3>2. p + (m + n) <= FileEnd => p + m <= FileEnd
      BY ONLY <1>p, <1>3
    <3> QED
      BY <1>4, <3>1, <3>2 DEF Fits, p
  <2> QED
    BY <1>1, <1>4, <2>2, <2>3 DEF Reads
<1> QED
  BY <1>6, <1>7

LEMMA OneValue ==
  ASSUME NEW v \in Value
  PROVE  <<v>> \in Values /\ Len(<<v>>) = 1 /\ <<v>>[1] = v
BY DEF Values

LEMMA ValueKinds ==
  /\ Nat \subseteq Value /\ BOOLEAN \subseteq Value /\ Names \subseteq Value
  /\ Numbers \subseteq Value /\ Args \subseteq Value /\ Userfuncs \subseteq Value
  /\ Instructions \subseteq Value /\ ArgTypes \subseteq Value
  /\ MAGICNUMBER \in Value /\ "assign" \in Value
BY DEF Value

LEMMA Slice ==
  ASSUME NEW all, NEW from \in Int, NEW to \in Int, \A i \in from .. to : all[i] \in Value,
         NEW part \in Values, to - from + 1 = Len(part),
         \A i \in 1 .. Len(part) : all[from + i - 1] = part[i]
  PROVE  SubSeq(all, from, to) = part
<1> DEFINE sub == SubSeq(all, from, to)
<1>1. /\ sub \in Seq(Value)
      /\ Len(sub) = IF from <= to THEN to - from + 1 ELSE 0
      /\ \A i \in 1 .. to - from + 1 : sub[i] = all[from + i - 1]
  BY SubSeqProperties
<1> HIDE DEF sub
<1>2. Len(part) \in Nat
  BY LenProperties DEF Values
<1>3. (IF from <= to THEN to - from + 1 ELSE 0) = to - from + 1
  BY <1>2
<1>4. Len(sub) = Len(part) /\ \A i \in 1 .. Len(sub) : sub[i] = part[i]
  BY <1>1, <1>3
<1> QED
  BY <1>1, <1>4, SeqEqual DEF sub, Values

LEMMA Oldest ==
  ASSUME NEW old \in Values, NEW vs \in Values, NEW all, all = old \o vs
  PROVE  SubSeq(all, 1, Len(all) - Len(vs)) = old
<1> DEFINE m == Len(old)
           n == Len(vs)
<1>1. m \in Nat /\ n \in Nat /\ DOMAIN old = 1 .. m
  BY LenProperties DEF Values
<1>2. /\ all \in Values /\ Len(all) = m + n
      /\ \A i \in 1 .. m + n : all[i] = IF i <= m THEN old[i] ELSE vs[i - m]
  BY ConcatProperties DEF Values
<1> HIDE DEF m, n
<1>3. (m + n) - n = m
  BY <1>1
<1>4. all \in Seq(Value) /\ \A i \in 1 .. m + n : all[i] \in Value
  BY <1>2, ElementOfSeq DEF Values
<1>5. SubSeq(all, 1, m) = old
  <2>1. /\ 1 \in Int /\ m \in Int /\ m - 1 + 1 = m
        /\ \A i \in 1 .. m : i \in 1 .. m + n /\ 1 + i - 1 = i /\ i <= m
    BY <1>1
  <2>2. \A i \in 1 .. m : all[1 + i - 1] = old[i]
    BY <1>2, <2>1
  <2> QED
    BY <1>1, <1>2, <1>4, <2>1, <2>2, Slice DEF m
<1> QED
  BY <1>2, <1>3, <1>5 DEF n

(* The values that a rule left are the newest.                             *)
LEMMA Newest ==
  ASSUME NEW old \in Values, NEW vs \in Values, NEW x \in Value, NEW all, all = old \o vs
  PROVE  LET kept == Len(all) - Len(vs)
         IN  /\ SubSeq(all, kept + 1, Len(all)) = vs
             /\ Append(SubSeq(all, 1, kept), x) = old \o <<x>>
             /\ old \o <<x>> \in Values
<1> DEFINE m == Len(old)
           n == Len(vs)
<1>1. m \in Nat /\ n \in Nat /\ DOMAIN vs = 1 .. n /\ DOMAIN old = 1 .. m
  BY LenProperties DEF Values
<1>2. /\ all \in Values /\ Len(all) = m + n
      /\ \A i \in 1 .. m + n : all[i] = IF i <= m THEN old[i] ELSE vs[i - m]
  BY ConcatProperties DEF Values
<1> HIDE DEF m, n
<1>3. (m + n) - n = m
  BY <1>1
<1>all. all \in Seq(Value) /\ \A i \in 1 .. m + n : all[i] \in Value
  BY <1>2, ElementOfSeq DEF Values
<1>4. SubSeq(all, m + 1, m + n) = vs
  <2> DEFINE from == m + 1
             to   == m + n
  <2>1. /\ from \in Int /\ to \in Int /\ to - from + 1 = n /\ n \in Nat
        /\ \A i \in from .. to : i \in 1 .. m + n
        /\ \A i \in 1 .. n : /\ from + i - 1 \in 1 .. m + n
                            /\ ~(from + i - 1 <= m) /\ (from + i - 1) - m = i
    BY <1>1
  <2> HIDE DEF from, to
  <2>2. \A i \in 1 .. n : all[from + i - 1] = vs[i]
    BY <1>2, <2>1
  <2> QED
    BY <1>1, <1>2, <1>all, <2>1, <2>2, Slice DEF from, to, n
<1>5. SubSeq(all, 1, m) = old
  <2>1. SubSeq(all, 1, Len(all) - Len(vs)) = old
    BY Oldest
  <2> QED
    BY <1>2, <1>3, <2>1 DEF n
<1>6. Append(old, x) = old \o <<x>> /\ Append(old, x) \in Values
  BY AppendIsConcat, AppendProperties DEF Values
<1> QED
  BY <1>2, <1>3, <1>4, <1>5, <1>6 DEF m, n

LEMMA Reduced ==
  ASSUME file \in Series, NEW r \in Readings, NEW q, NEW w, NEW vs, Reads(r, q, w, vs),
         NEW n, n = Len(vs), NEW x \in Value, NEW s,
         q.error # "none" => s = q,
         q.error = "none" => s = [q EXCEPT !.values = Append(SubSeq(@, 1, Len(@) - n), x)]
  PROVE  Reads(r, s, w, <<x>>)
<1>1. /\ w \in Series /\ vs \in Values /\ q \in Readings /\ <<x>> \in Values
  BY OneValue DEF Reads
<1> DEFINE old == r.values
           all == q.values
<1>2. old \in Values
  BY ReadingFields
<1>3. CASE Fits(r, w)
  <2>1. q = After(r, w, vs)
    BY <1>3 DEF Reads
  <2>2. q.error = "none" /\ all = old \o vs /\ q.pos = r.pos + Len(w)
    BY <2>1 DEF After
  <2>3. s = [q EXCEPT !.values = Append(SubSeq(all, 1, Len(all) - Len(vs)), x)]
    BY <2>2
  <2> HIDE DEF old, all
  <2>4. Append(SubSeq(all, 1, Len(all) - Len(vs)), x) = old \o <<x>> /\ old \o <<x>> \in Values
    BY <1>1, <1>2, <2>2, Newest
  <2>5. s = [q EXCEPT !.values = old \o <<x>>]
    BY <2>3, <2>4
  <2>6. s = [pos |-> q.pos, values |-> old \o <<x>>, error |-> "none"]
    <3>1. q = [pos |-> q.pos, values |-> q.values, error |-> "none"]
      BY <1>1, <2>2, ReadingFields
    <3> DEFINE new == old \o <<x>>
               pos == q.pos
               was == q.values
    <3>2. s = [q EXCEPT !.values = new]
      BY <2>5
    <3>3. q = [pos |-> pos, values |-> was, error |-> "none"]
      BY <3>1
    <3> HIDE DEF new, pos, was
    <3>4. s = [pos |-> pos, values |-> new, error |-> "none"]
      BY ONLY <3>2, <3>3
    <3> QED
      BY <3>4 DEF new, pos
  <2>7. s \in Readings
    <3>1. q.pos \in Nat /\ 1 <= q.pos /\ q.pos <= FileEnd
      BY <1>1, ReadingFields
    <3> QED
      BY <2>4, <2>6, <3>1, ReadingIs DEF Errors
  <2>8. s = After(r, w, <<x>>)
    BY <2>2, <2>6 DEF After, old
  <2> QED
    BY <1>1, <1>3, <2>7, <2>8 DEF Reads
<1>4. CASE ~Fits(r, w)
  BY <1>1, <1>4 DEF Reads
<1> QED
  BY <1>3, <1>4

LEMMA Writes ==
  ASSUME NEW v \in Value
  PROVE  /\ WriteUInt(v) \in Series /\ WriteUShort(v) \in Series
         /\ WriteDouble(v) \in Series /\ WriteBoolean(v) \in Series
         /\ \A n \in Nat : Token("char", n, v) \in Series
BY OneToken DEF TokenTypes, WriteUInt, WriteUShort, WriteDouble, WriteBoolean

LEMMA ReadsBack ==
  ASSUME file \in Series, NEW r \in Readings, NEW v \in Value
  PROVE  /\ Facing(r, WriteUInt(v)) => Reads(r, UInt(r), WriteUInt(v), <<v>>)
         /\ Facing(r, WriteUShort(v)) => Reads(r, UShort(r), WriteUShort(v), <<v>>)
         /\ Facing(r, WriteDouble(v)) => Reads(r, Double(r), WriteDouble(v), <<v>>)
         /\ Facing(r, WriteBoolean(v)) => Reads(r, Boolean(r), WriteBoolean(v), <<v>>)
         /\ \A n \in Nat : Facing(r, Token("char", n, v))
                             => Reads(r, Consume(r, "char", n), Token("char", n, v), <<v>>)
BY Consumes
   DEF TokenTypes, UInt, UShort, Double, Boolean, WriteUInt, WriteUShort, WriteDouble, WriteBoolean

(* One more rule after others. *)
LEMMA Next1 ==
  ASSUME file \in Series, NEW r \in Readings, NEW q, NEW v \in Series, NEW w \in Series, NEW vs,
         Facing(r, v \o w), Reads(r, q, v, vs)
  PROVE  q \in Readings /\ Facing(q, w)
BY Ahead DEF Reads

LEMMA TwoValues ==
  ASSUME NEW a \in Value, NEW b \in Value
  PROVE  /\ <<a>> \o <<b>> \in Values /\ Len(<<a>> \o <<b>>) = 2
         /\ (<<a>> \o <<b>>)[1] = a /\ (<<a>> \o <<b>>)[2] = b
<1>1. <<a>> \in Seq(Value) /\ Len(<<a>>) = 1 /\ <<a>>[1] = a
  OBVIOUS
<1>2. <<a>> \o <<b>> = Append(<<a>>, b)
  BY <1>1, AppendIsConcat
<1> QED
  BY <1>1, <1>2, AppendProperties DEF Values

LEMMA AfterIs ==
  ASSUME NEW r, NEW q, NEW w, NEW vs, Reads(r, q, w, vs), q.error = "none"
  PROVE  q.values = r.values \o vs /\ q.pos = r.pos + Len(w) /\ Fits(r, w) /\ r.error = "none"
<1>1. Fits(r, w) /\ q = After(r, w, vs)
  BY DEF Reads
<1> QED
  BY <1>1 DEF After, Fits

LEMMA WritesOneString ==
  ASSUME NEW s \in Names
  PROVE  /\ StrLen[s] \in Nat /\ StrLen[s] + 1 \in Nat /\ UpToNul[s] \in Names
         /\ WriteUInt(StrLen[s]) \in Series
         /\ Token("char", StrLen[s] + 1, s) \in Series
         /\ WriteOneString(s) = WriteUInt(StrLen[s]) \o Token("char", StrLen[s] + 1, s)
         /\ WriteOneString(s) \in Series
<1>1. StrLen[s] \in Nat /\ UpToNul[s] \in Names
  BY BinaryFileAssumption
<1>2. StrLen[s] + 1 \in Nat
  BY <1>1
<1>3. WriteUInt(StrLen[s]) \in Series /\ Token("char", StrLen[s] + 1, s) \in Series
  BY <1>1, <1>2, Writes, ValueKinds
<1>4. WriteOneString(s) = WriteUInt(StrLen[s]) \o Token("char", StrLen[s] + 1, s)
  BY DEF WriteOneString
<1>5. WriteOneString(s) \in Series
  BY <1>3, <1>4, ConcatProperties DEF Series
<1> QED
  BY <1>1, <1>2, <1>3, <1>4, <1>5

LEMMA StringRule ==
  ASSUME file \in Series, NEW r \in Readings, NEW s \in Names, Facing(r, WriteOneString(s))
  PROVE  Reads(r, RuleOneString(r), WriteOneString(s), <<UpToNul[s]>>)
<1> DEFINE n     == StrLen[s]
           v     == WriteUInt(n)
           w     == Token("char", n + 1, s)
           size  == UInt(r)
           chars == Consume(size, "char", n + 1)
           rule  == RuleOneString(r)
<1>1. /\ n \in Nat /\ n + 1 \in Nat /\ v \in Series /\ w \in Series
      /\ WriteOneString(s) = v \o w /\ UpToNul[s] \in Value
      /\ n \in Value /\ s \in Value
  BY WritesOneString, ValueKinds
<1>2. Facing(r, v \o w)
  BY <1>1
<1> HIDE DEF n, v, w
<1>3. Reads(r, size, v, <<n>>)
  <2>1. Facing(r, v)
    BY <1>1, <1>2, Ahead
  <2> QED
    BY <1>1, <2>1, ReadsBack DEF v
<1>4. size \in Readings /\ Facing(size, w)
  BY <1>1, <1>2, <1>3, Next1
<1>5. Reads(size, chars, w, <<s>>)
  BY <1>1, <1>4, ReadsBack DEF w
<1>6. Reads(r, chars, v \o w, <<n>> \o <<s>>)
  BY <1>3, <1>5, Then
<1>7. size.error = "none" => Last(size.values) = n
  <2>1. ASSUME size.error = "none" PROVE size.values = r.values \o <<n>>
    BY <1>3, <2>1, AfterIs
  <2> DEFINE old == r.values
  <2>2. old \in Values
    BY ReadingFields
  <2> HIDE DEF old
  <2>3. Last(old \o <<n>>) = n
    <3>1. old \o <<n>> = Append(old, n)
      BY <1>1, <2>2, AppendIsConcat DEF Values
    <3>2. Len(old) \in Nat /\ Len(Append(old, n)) = Len(old) + 1 /\ Append(old, n)[Len(old) + 1] = n
      BY <1>1, <2>2, AppendProperties, LenProperties DEF Values
    <3> QED
      BY <3>1, <3>2 DEF Last
  <2> QED
    BY <2>1, <2>3 DEF old
<1>8. rule = Reduce(chars, 2, LAMBDA x : UpToNul[x[2]])
  <2>1. CASE size.error = "none"
    BY <1>7, <2>1 DEF RuleOneString
  <2>2. CASE size.error # "none"
    <3>1. rule = size /\ chars = size
      BY <2>2 DEF RuleOneString, Consume
    <3> QED
      BY <2>2, <3>1 DEF Reduce
  <2> QED
    BY <2>1, <2>2
<1> HIDE DEF size, chars
<1> DEFINE both == <<n>> \o <<s>>
<1>9. both \in Values /\ Len(both) = 2 /\ both[2] = s
  BY <1>1, TwoValues
<1> HIDE DEF both
<1>10. chars.error # "none" => rule = chars
  BY <1>8 DEF Reduce
<1>11. ASSUME chars.error = "none"
       PROVE  rule = [chars EXCEPT !.values = Append(SubSeq(@, 1, Len(@) - 2), UpToNul[s])]
  <2> DEFINE old == r.values
             all == chars.values
  <2>1. old \in Values /\ all = old \o both
    BY <1>6, <1>11, ReadingFields, AfterIs DEF both
  <2> HIDE DEF old, all
  <2>2. SubSeq(all, (Len(all) - Len(both)) + 1, Len(all)) = both
    BY <1>1, <1>9, <2>1, Newest
  <2> QED
    BY <1>8, <1>9, <1>11, <2>2 DEF Reduce, all
<1> HIDE DEF rule
<1>12. Reads(r, rule, v \o w, <<UpToNul[s]>>)
  <2>1. Reads(r, chars, v \o w, both)
    BY <1>6 DEF both
  <2> DEFINE x == UpToNul[s]
  <2>2. x \in Value
    BY <1>1
  <2>3. chars.error = "none" => rule = [chars EXCEPT !.values = Append(SubSeq(@, 1, Len(@) - 2), x)]
    BY <1>11
  <2> HIDE DEF x
  <2>4. Reads(r, rule, v \o w, <<x>>)
    BY <1>9, <1>10, <2>1, <2>2, <2>3, Reduced
  <2> QED
    BY <2>4 DEF x
<1> QED
  BY <1>1, <1>12 DEF rule

(* One more rule after those that turned r into q.                         *)
LEMMA Step ==
  ASSUME file \in Series, NEW r \in Readings, NEW q, NEW v \in Series, NEW w \in Series,
         NEW vs, NEW ws, NEW s,
         Facing(r, v \o w), Reads(r, q, v, vs),
         q \in Readings /\ Facing(q, w) => Reads(q, s, w, ws)
  PROVE  Reads(r, s, v \o w, vs \o ws)
BY Next1, Then

LEMMA ReducesTo ==
  ASSUME file \in Series, NEW r \in Readings, NEW q, NEW w, NEW vs, Reads(r, q, w, vs),
         NEW n, n = Len(vs), NEW x \in Value, NEW s,
         q.error # "none" => s = q,
         q.error = "none" /\ SubSeq(q.values, (Len(q.values) - n) + 1, Len(q.values)) = vs
           => s = [q EXCEPT !.values = Append(SubSeq(@, 1, Len(@) - n), x)]
  PROVE  Reads(r, s, w, <<x>>)
<1> DEFINE old == r.values
           all == q.values
<1>1. old \in Values /\ vs \in Values /\ x \in Value
  BY ReadingFields DEF Reads
<1>2. ASSUME q.error = "none" PROVE all = old \o vs
  BY <1>2, AfterIs
<1> HIDE DEF old, all
<1>3. q.error = "none" => SubSeq(all, (Len(all) - Len(vs)) + 1, Len(all)) = vs
  BY ONLY <1>1, <1>2, Newest
<1>4. q.error = "none" => s = [q EXCEPT !.values = Append(SubSeq(@, 1, Len(@) - n), x)]
  BY <1>3 DEF all
<1> QED
  BY <1>4, Reduced

LEMMA OneMore ==
  ASSUME NEW s \in Values, NEW n \in Nat, Len(s) = n, NEW x \in Value
  PROVE  /\ s \o <<x>> \in Values /\ Len(s \o <<x>>) = n + 1 /\ (s \o <<x>>)[n + 1] = x
         /\ \A i \in 1 .. n : (s \o <<x>>)[i] = s[i]
<1>1. s \o <<x>> = Append(s, x)
  BY AppendIsConcat DEF Values
<1> QED
  BY <1>1, AppendProperties DEF Values

LEMMA ThreeValues ==
  ASSUME NEW a \in Value, NEW b \in Value, NEW c \in Value
  PROVE  LET v == (<<a>> \o <<b>>) \o <<c>>
         IN  v \in Values /\ Len(v) = 3 /\ v[1] = a /\ v[2] = b /\ v[3] = c
<1> DEFINE two == <<a>> \o <<b>>
           three == two \o <<c>>
<1>1. two \in Values /\ Len(two) = 2 /\ two[1] = a /\ two[2] = b
  BY TwoValues
<1> HIDE DEF two
<1>2. /\ three \in Values /\ Len(three) = 2 + 1 /\ three[2 + 1] = c
      /\ \A i \in 1 .. 2 : three[i] = two[i]
  BY <1>1, 2 \in Nat, OneMore, Zenon
<1> HIDE DEF three
<1>3. three \in Values /\ Len(three) = 3 /\ three[1] = a /\ three[2] = b /\ three[3] = c
  BY <1>1, <1>2
<1> QED
  BY <1>3 DEF three, two

LEMMA FiveValues ==
  ASSUME NEW a \in Value, NEW b \in Value, NEW c \in Value, NEW d \in Value, NEW e \in Value
  PROVE  LET v == ((((<<a>> \o <<b>>) \o <<c>>) \o <<d>>) \o <<e>>)
         IN  v \in Values /\ Len(v) = 5 /\ v[1] = a /\ v[2] = b /\ v[3] = c /\ v[4] = d /\ v[5] = e
<1> DEFINE three == (<<a>> \o <<b>>) \o <<c>>
           four == three \o <<d>>
           five == four \o <<e>>
<1>1. three \in Values /\ Len(three) = 3 /\ three[1] = a /\ three[2] = b /\ three[3] = c
  BY ThreeValues
<1> HIDE DEF three
<1>2. /\ four \in Values /\ Len(four) = 3 + 1 /\ four[3 + 1] = d
      /\ \A i \in 1 .. 3 : four[i] = three[i]
  BY <1>1, 3 \in Nat, OneMore, Zenon
<1> HIDE DEF four
<1>3. /\ four \in Values /\ Len(four) = 4 /\ four[1] = a /\ four[2] = b /\ four[3] = c /\ four[4] = d
  BY <1>1, <1>2
<1>4. /\ five \in Values /\ Len(five) = 4 + 1 /\ five[4 + 1] = e
      /\ \A i \in 1 .. 4 : five[i] = four[i]
  BY <1>3, 4 \in Nat, OneMore, Zenon
<1> HIDE DEF five
<1>5. /\ five \in Values /\ Len(five) = 5
      /\ five[1] = a /\ five[2] = b /\ five[3] = c /\ five[4] = d /\ five[5] = e
  BY <1>3, <1>4
<1> QED
  BY <1>5 DEF five, four, three

LEMMA WritesUserfunc ==
  ASSUME NEW f \in Userfuncs
  PROVE  /\ f.address \in Nat /\ f.nr_locals \in Nat /\ f.name \in Names
         /\ f = [address |-> f.address, nr_locals |-> f.nr_locals, name |-> f.name]
         /\ UpToNul[f.name] = f.name
<1>1. PICK g \in UserFuncs : f = Userfunc(g)
  BY DEF Userfuncs
<1>2. f = [address |-> Address[g], nr_locals |-> NrLocals[g], name |-> g]
  BY <1>1 DEF Userfunc
<1>3. /\ Address[g] \in Nat /\ NrLocals[g] \in Nat /\ g \in Names /\ UpToNul[g] = g
  BY BinaryFileAssumption DEF Names
<1> QED
  BY <1>2, <1>3

LEMMA Joins == \A v, w \in Series : v \o w \in Series
BY ConcatProperties DEF Series

LEMMA UserfuncRule ==
  ASSUME file \in Series, NEW r \in Readings, NEW f \in Userfuncs, Facing(r, WriteUserfunc(f))
  PROVE  Reads(r, RuleOneUserfunc(r), WriteUserfunc(f), <<f>>)
<1> DEFINE a == f.address
           l == f.nr_locals
           n == f.name
           u == WriteUInt(a)
           v == WriteUInt(l)
           w == WriteOneString(n)
           first  == UInt(r)
           second == UInt(first)
           third  == RuleOneString(second)
           rule   == RuleOneUserfunc(r)
<1>1. /\ a \in Nat /\ l \in Nat /\ n \in Names /\ UpToNul[n] = n
      /\ f = [address |-> a, nr_locals |-> l, name |-> n]
  BY WritesUserfunc
<1>2. /\ a \in Value /\ l \in Value /\ n \in Value /\ f \in Value
  BY <1>1, ValueKinds
<1>3. u \in Series /\ v \in Series /\ w \in Series /\ u \o v \in Series
  BY <1>1, <1>2, Writes, WritesOneString, Joins
<1>4. WriteUserfunc(f) = (u \o v) \o w
  BY DEF WriteUserfunc
<1> HIDE DEF a, l, n
<1>5. Facing(r, (u \o v) \o w)
  BY <1>4
<1>6. Facing(r, u \o v)
  BY <1>3, <1>5, Ahead
<1>7. Reads(r, first, u, <<a>>)
  <2>1. Facing(r, u)
    BY <1>3, <1>6, Ahead
  <2> QED
    BY <1>2, <2>1, ReadsBack
<1>8. Reads(r, second, u \o v, <<a>> \o <<l>>)
  <2>1. first \in Readings /\ Facing(first, v) => Reads(first, second, v, <<l>>)
    BY <1>2, ReadsBack
  <2> HIDE DEF first, second, u, v
  <2> QED
    BY <1>3, <1>6, <1>7, <2>1, Step
<1>9. Reads(r, third, (u \o v) \o w, (<<a>> \o <<l>>) \o <<n>>)
  <2>1. second \in Readings /\ Facing(second, w) => Reads(second, third, w, <<n>>)
    <3>1. ASSUME second \in Readings, Facing(second, w)
          PROVE  Reads(second, third, w, <<UpToNul[n]>>)
      BY <1>1, <3>1, StringRule
    <3> QED
      BY <1>1, <3>1
  <2> HIDE DEF second, third, u, v, w
  <2> QED
    BY <1>3, <1>5, <1>8, <2>1, Step
<1> DEFINE all == (<<a>> \o <<l>>) \o <<n>>
<1>10. all \in Values /\ Len(all) = 3 /\ all[1] = a /\ all[2] = l /\ all[3] = n
  BY <1>2, ThreeValues
<1>11. rule = Reduce(third, 3, LAMBDA x : [address |-> x[1], nr_locals |-> x[2], name |-> x[3]])
  BY DEF RuleOneUserfunc
<1> HIDE DEF third, all
<1>12. third.error # "none" => rule = third
  BY <1>11 DEF Reduce
<1>13. third.error = "none" /\ SubSeq(third.values, (Len(third.values) - 3) + 1, Len(third.values)) = all
         => rule = [third EXCEPT !.values = Append(SubSeq(@, 1, Len(@) - 3), f)]
  BY <1>1, <1>10, <1>11 DEF Reduce
<1> HIDE DEF rule, u, v, w
<1>14. Reads(r, rule, (u \o v) \o w, <<f>>)
  <2>1. Reads(r, third, (u \o v) \o w, all) /\ 3 = Len(all) /\ f \in Value
    BY <1>2, <1>9, <1>10 DEF all
  <2> QED
    BY <1>12, <1>13, <2>1, ReducesTo, Zenon
<1> QED
  BY <1>4, <1>14 DEF rule

(* An argument is three tokens, whatever it is.                            *)
LEMMA VMargTokens ==
  ASSUME file \in Series, NEW r \in Readings, NEW arg \in Args,
         NEW b \in BOOLEAN, NEW type \in Value, NEW value \in Value,
         arg = IF b THEN VMarg(type, value) ELSE NullArg,
         NEW w, w = (WriteBoolean(b) \o WriteUShort(type)) \o WriteUInt(value),
         Facing(r, w)
  PROVE  w \in Series /\ Reads(r, RuleVMarg(r), w, <<arg>>)
<1> DEFINE u == WriteBoolean(b)
           v == WriteUShort(type)
           z == WriteUInt(value)
           first  == Boolean(r)
           second == UShort(first)
           third  == UInt(second)
           rule   == RuleVMarg(r)
<1>1. b \in Value /\ arg \in Value
  BY ValueKinds
<1>2. u \in Series /\ v \in Series /\ z \in Series /\ u \o v \in Series /\ (u \o v) \o z \in Series
  BY <1>1, Writes, Joins
<1>3. Facing(r, (u \o v) \o z) /\ w = (u \o v) \o z
  OBVIOUS
<1>4. Facing(r, u \o v)
  BY <1>2, <1>3, Ahead
<1>5. Reads(r, first, u, <<b>>)
  <2>1. Facing(r, u)
    BY <1>2, <1>4, Ahead
  <2> QED
    BY <1>1, <2>1, ReadsBack
<1>6. Reads(r, second, u \o v, <<b>> \o <<type>>)
  <2>1. first \in Readings /\ Facing(first, v) => Reads(first, second, v, <<type>>)
    BY ReadsBack
  <2> HIDE DEF first, second, u, v
  <2> QED
    BY <1>2, <1>4, <1>5, <2>1, Step
<1>7. Reads(r, third, (u \o v) \o z, (<<b>> \o <<type>>) \o <<value>>)
  <2>1. second \in Readings /\ Facing(second, z) => Reads(second, third, z, <<value>>)
    BY ReadsBack
  <2> HIDE DEF second, third, u, v, z
  <2> QED
    BY <1>2, <1>3, <1>6, <2>1, Step
<1> DEFINE all == (<<b>> \o <<type>>) \o <<value>>
<1>8. all \in Values /\ Len(all) = 3 /\ all[1] = b /\ all[2] = type /\ all[3] = value
  BY <1>1, ThreeValues
<1>9. rule = Reduce(third, 3, LAMBDA x : IF x[1] THEN VMarg(x[2], x[3]) ELSE NullArg)
  BY DEF RuleVMarg
<1> HIDE DEF third, all
<1>10. third.error # "none" => rule = third
  BY <1>9 DEF Reduce
<1>11. third.error = "none" /\ SubSeq(third.values, (Len(third.values) - 3) + 1, Len(third.values)) = all
         => rule = [third EXCEPT !.values = Append(SubSeq(@, 1, Len(@) - 3), arg)]
  BY <1>8, <1>9 DEF Reduce
<1> HIDE DEF rule, u, v, z
<1>12. Reads(r, rule, (u \o v) \o z, <<arg>>)
  <2>1. Reads(r, third, (u \o v) \o z, all) /\ 3 = Len(all)
    BY <1>7, <1>8 DEF all
  <2>2. file \in Series /\ r \in Readings /\ arg \in Value
    BY <1>1
  <2> QED
    BY ONLY <1>10, <1>11, <2>1, <2>2, ReducesTo, Zenon
<1> QED
  BY <1>2, <1>3, <1>12 DEF rule

LEMMA VMargRule ==
  ASSUME file \in Series, NEW r \in Readings, NEW arg \in Args, Len(vm_instructions) \in Nat
  PROVE  /\ WriteVMarg(arg) \in Series
         /\ Facing(r, WriteVMarg(arg)) => Reads(r, RuleVMarg(r), WriteVMarg(arg), <<arg>>)
<1>1. CASE arg = NullArg
  <2> DEFINE n == Len(vm_instructions)
  <2>1. /\ FALSE \in BOOLEAN /\ "label" \in Value /\ n \in Value /\ FALSE \in Value
        /\ arg = IF FALSE THEN VMarg("label", n) ELSE NullArg
        /\ WriteVMarg(arg) = (WriteBoolean(FALSE) \o WriteUShort("label")) \o WriteUInt(n)
    BY <1>1, ValueKinds DEF WriteVMarg, ArgTypes
  <2> HIDE DEF n
  <2>2. WriteVMarg(arg) \in Series
    <3>1. /\ WriteBoolean(FALSE) \in Series /\ WriteUShort("label") \in Series
          /\ WriteUInt(n) \in Series
      BY <2>1, Writes
    <3> QED
      BY <2>1, <3>1, Joins
  <2> QED
    BY <2>1, <2>2, VMargTokens
<1>2. CASE arg # NullArg
  <2> DEFINE type  == arg.type
             value == arg.value
  <2>1. arg \in [type : ArgTypes, value : Nat]
    BY <1>2 DEF Args
  <2>2. type \in ArgTypes /\ value \in Nat /\ arg = [type |-> type, value |-> value]
    BY <2>1
  <2>3. /\ TRUE \in BOOLEAN /\ type \in Value /\ value \in Value /\ TRUE \in Value
        /\ arg = IF TRUE THEN VMarg(type, value) ELSE NullArg
        /\ WriteVMarg(arg) = (WriteBoolean(TRUE) \o WriteUShort(type)) \o WriteUInt(value)
    BY <1>2, <2>2, ValueKinds DEF WriteVMarg, VMarg
  <2> HIDE DEF type, value
  <2>4. WriteVMarg(arg) \in Series
    <3>1. /\ WriteBoolean(TRUE) \in Series /\ WriteUShort(type) \in Series
          /\ WriteUInt(value) \in Series
      BY <2>3, Writes
    <3> QED
      BY <2>3, <3>1, Joins
  <2> QED
    BY <2>3, <2>4, VMargTokens
<1> QED
  BY <1>1, <1>2

LEMMA InstructionParts ==
  ASSUME NEW ins \in Instructions
  PROVE  /\ ins.opcode = "assign" /\ ins.source_line \in Nat
         /\ ins.args[1] \in Args /\ ins.args[2] \in Args /\ ins.args[3] \in Args
         /\ ins = [opcode |-> ins.opcode, args |-> <<ins.args[1], ins.args[2], ins.args[3]>>,
                   source_line |-> ins.source_line]
<1>1. /\ ins.opcode = "assign" /\ ins.source_line \in Nat /\ ins.args \in [1 .. 3 -> Args]
      /\ ins = [opcode |-> ins.opcode, args |-> ins.args, source_line |-> ins.source_line]
  BY DEF Instructions, Args
<1> DEFINE args == ins.args
<1>2. args = <<args[1], args[2], args[3]>>
  <2>1. args \in [1 .. 3 -> Args]
    BY <1>1
  <2> HIDE DEF args
  <2> QED
    BY <2>1
<1>3. args[1] \in Args /\ args[2] \in Args /\ args[3] \in Args
  <2>1. args \in [1 .. 3 -> Args]
    BY <1>1
  <2> HIDE DEF args
  <2> QED
    BY <2>1
<1> QED
  BY <1>1, <1>2, <1>3

LEMMA InstructionRule ==
  ASSUME file \in Series, NEW r \in Readings, NEW ins \in Instructions,
         Len(vm_instructions) \in Nat
  PROVE  /\ WriteInstruction(ins) \in Series
         /\ Facing(r, WriteInstruction(ins))
              => Reads(r, RuleOneInstruction(r), WriteInstruction(ins), <<ins>>)
<1> DEFINE o == ins.opcode
           a == ins.args[1]
           b == ins.args[2]
           c == ins.args[3]
           l == ins.source_line
           u == WriteUShort(o)
           v == WriteVMarg(a)
           w == WriteVMarg(b)
           x == WriteVMarg(c)
           y == WriteUInt(l)
           first  == UShort(r)
           second == RuleVMarg(first)
           third  == RuleVMarg(second)
           fourth == RuleVMarg(third)
           fifth  == UInt(fourth)
           rule   == RuleOneInstruction(r)
<1>1. /\ a \in Args /\ b \in Args /\ c \in Args /\ l \in Nat /\ o = "assign"
      /\ ins = [opcode |-> o, args |-> <<a, b, c>>, source_line |-> l]
  BY InstructionParts
<1>2. o \in Value /\ a \in Value /\ b \in Value /\ c \in Value /\ l \in Value /\ ins \in Value
  BY <1>1, ValueKinds
<1>3. u \in Series /\ v \in Series /\ w \in Series /\ x \in Series /\ y \in Series
  BY <1>1, <1>2, Writes, VMargRule
<1>4. WriteInstruction(ins) = (((u \o v) \o w) \o x) \o y
  BY DEF WriteInstruction
<1>5. \A q \in Readings :
        /\ Facing(q, u) => Reads(q, UShort(q), u, <<o>>)
        /\ Facing(q, v) => Reads(q, RuleVMarg(q), v, <<a>>)
        /\ Facing(q, w) => Reads(q, RuleVMarg(q), w, <<b>>)
        /\ Facing(q, x) => Reads(q, RuleVMarg(q), x, <<c>>)
        /\ Facing(q, y) => Reads(q, UInt(q), y, <<l>>)
  BY <1>1, <1>2, ReadsBack, VMargRule
<1> HIDE DEF o, a, b, c, l, u, v, w, x, y
<1>6. /\ u \o v \in Series /\ (u \o v) \o w \in Series /\ ((u \o v) \o w) \o x \in Series
      /\ (((u \o v) \o w) \o x) \o y \in Series
  BY <1>3, Joins
<1>7. SUFFICES ASSUME Facing(r, (((u \o v) \o w) \o x) \o y)
               PROVE  Reads(r, rule, (((u \o v) \o w) \o x) \o y, <<ins>>)
  BY <1>4, <1>6
<1>8. Facing(r, ((u \o v) \o w) \o x)
  BY <1>3, <1>6, <1>7, Ahead
<1>9. Facing(r, (u \o v) \o w)
  BY <1>3, <1>6, <1>8, Ahead
<1>10. Facing(r, u \o v)
  BY <1>3, <1>6, <1>9, Ahead
<1>11. Facing(r, u)
  BY <1>3, <1>10, Ahead
<1>12. Reads(r, first, u, <<o>>)
  BY <1>5, <1>11
<1>13. Reads(r, second, u \o v, <<o>> \o <<a>>)
  <2>1. first \in Readings /\ Facing(first, v) => Reads(first, second, v, <<a>>)
    BY <1>5
  <2> HIDE DEF first, second
  <2> QED
    BY <1>3, <1>10, <1>12, <2>1, Step
<1>14. Reads(r, third, (u \o v) \o w, (<<o>> \o <<a>>) \o <<b>>)
  <2>1. second \in Readings /\ Facing(second, w) => Reads(second, third, w, <<b>>)
    BY <1>5
  <2> HIDE DEF second, third
  <2> QED
    BY <1>3, <1>6, <1>9, <1>13, <2>1, Step
<1>15. Reads(r, fourth, ((u \o v) \o w) \o x, ((<<o>> \o <<a>>) \o <<b>>) \o <<c>>)
  <2>1. third \in Readings /\ Facing(third, x) => Reads(third, fourth, x, <<c>>)
    BY <1>5
  <2> HIDE DEF third, fourth
  <2> QED
    BY <1>3, <1>6, <1>8, <1>14, <2>1, Step
<1> DEFINE all == (((<<o>> \o <<a>>) \o <<b>>) \o <<c>>) \o <<l>>
<1>16. Reads(r, fifth, (((u \o v) \o w) \o x) \o y, all)
  <2>1. fourth \in Readings /\ Facing(fourth, y) => Reads(fourth, fifth, y, <<l>>)
    BY <1>5
  <2> HIDE DEF fourth, fifth
  <2> QED
    BY <1>3, <1>6, <1>7, <1>15, <2>1, Step
<1>17. /\ all \in Values /\ Len(all) = 5
       /\ all[1] = o /\ all[2] = a /\ all[3] = b /\ all[4] = c /\ all[5] = l
  BY <1>2, FiveValues
<1>18. rule = Reduce(fifth, 5, LAMBDA z : [opcode |-> z[1], args |-> <<z[2], z[3], z[4]>>,
                                           source_line |-> z[5]])
  BY DEF RuleOneInstruction
<1> HIDE DEF fifth, all
<1>19. fifth.error # "none" => rule = fifth
  BY <1>18 DEF Reduce
<1>20. fifth.error = "none" /\ SubSeq(fifth.values, (Len(fifth.values) - 5) + 1, Len(fifth.values)) = all
         => rule = [fifth EXCEPT !.values = Append(SubSeq(@, 1, Len(@) - 5), ins)]
  BY <1>1, <1>17, <1>18 DEF Reduce
<1> HIDE DEF rule
<1> DEFINE tokens == (((u \o v) \o w) \o x) \o y
<1>21. /\ file \in Series /\ r \in Readings /\ ins \in Value
       /\ Reads(r, fifth, tokens, all) /\ 5 = Len(all)
  BY <1>2, <1>16, <1>17
<1> HIDE DEF tokens
<1>22. Reads(r, rule, tokens, <<ins>>)
  BY ONLY <1>19, <1>20, <1>21, ReducesTo, Zenon
<1> QED
  BY <1>22 DEF tokens

-----------------------------------------------------------------------------
(* The sections of the file: their items, and what is left of them.        *)
Sections == {"strings", "numbers", "userfunctions", "libfunctions", "code"}

Items(section) ==
  CASE section = "strings" -> Strings
    [] section = "numbers" -> Numbers
    [] section = "userfunctions" -> Userfuncs
    [] section = "libfunctions"  -> LibFuncs
    [] section = "code" -> Instructions

Left(section, item) == IF section = "strings" THEN UpToNul[item] ELSE item

LEMMA OneRule ==
  ASSUME file \in Series, NEW r \in Readings, Len(vm_instructions) \in Nat,
         NEW section \in Sections, NEW item \in Items(section)
  PROVE  /\ WriteOne(section, item) \in Series
         /\ Left(section, item) \in Value
         /\ Facing(r, WriteOne(section, item))
              => Reads(r, RuleOne(section, r), WriteOne(section, item), <<Left(section, item)>>)
<1>1. CASE section \in {"strings", "libfunctions"}
  <2>1. item \in Names /\ (section = "libfunctions" => UpToNul[item] = item)
    BY <1>1, BinaryFileAssumption DEF Items, Names
  <2>2. UpToNul[item] = Left(section, item)
    BY <1>1, <2>1 DEF Left
  <2>3. /\ WriteOne(section, item) = WriteOneString(item)
        /\ RuleOne(section, r) = RuleOneString(r)
    BY <1>1 DEF WriteOne, RuleOne
  <2>4. WriteOneString(item) \in Series /\ UpToNul[item] \in Value
    BY <2>1, WritesOneString, ValueKinds
  <2> DEFINE left == UpToNul[item]
  <2>5. Facing(r, WriteOneString(item)) => Reads(r, RuleOneString(r), WriteOneString(item), <<left>>)
    BY <2>1, StringRule
  <2> HIDE DEF left
  <2>6. Left(section, item) = left
    BY <2>2 DEF left
  <2> QED
    BY <2>2, <2>3, <2>4, <2>5, <2>6
<1>2. CASE section = "numbers"
  <2>1. item \in Value /\ Left(section, item) = item
    BY <1>2, ValueKinds DEF Items, Left
  <2>2. WriteOne(section, item) = WriteDouble(item) /\ RuleOne(section, r) = Double(r)
    BY <1>2 DEF WriteOne, RuleOne
  <2> QED
    BY <2>1, <2>2, Writes, ReadsBack
<1>3. CASE section = "userfunctions"
  <2>1. item \in Userfuncs /\ item \in Value /\ Left(section, item) = item
    BY <1>3, ValueKinds DEF Items, Left
  <2>2. WriteOne(section, item) = WriteUserfunc(item) /\ RuleOne(section, r) = RuleOneUserfunc(r)
    BY <1>3 DEF WriteOne, RuleOne
  <2>3. WriteUserfunc(item) \in Series
    <3>1. item.address \in Value /\ item.nr_locals \in Value /\ item.name \in Names
      BY <2>1, WritesUserfunc, ValueKinds
    <3>2. /\ WriteUInt(item.address) \in Series /\ WriteUInt(item.nr_locals) \in Series
          /\ WriteOneString(item.name) \in Series
      BY <3>1, Writes, WritesOneString
    <3> QED
      BY <3>2, Joins DEF WriteUserfunc
  <2> QED
    BY <2>1, <2>2, <2>3, UserfuncRule
<1>4. CASE section = "code"
  <2>1. item \in Instructions /\ item \in Value /\ Left(section, item) = item
    BY <1>4, ValueKinds DEF Items, Left
  <2>2. WriteOne(section, item) = WriteInstruction(item) /\ RuleOne(section, r) = RuleOneInstruction(r)
    BY <1>4 DEF WriteOne, RuleOne
  <2> QED
    BY <2>1, <2>2, InstructionRule
<1> QED
  BY <1>1, <1>2, <1>3, <1>4 DEF Sections

(* What FlattenSeq computes, one block of tokens at a time.                *)
Joined(blocks, N, f) ==
  /\ f \in [Nat -> Series] /\ f[0] = << >>
  /\ \A n \in 0 .. N - 1 : f[n + 1] = f[n] \o blocks[n + 1]
  /\ FlattenSeq(blocks) = f[N]

LEMMA Flattening ==
  ASSUME NEW N \in Nat, NEW blocks \in [1 .. N -> Series]
  PROVE  \E f : Joined(blocks, N, f)
<1> DEFINE More(n, x) == IF n + 1 \in 1 .. N THEN x \o blocks[n + 1] ELSE x
           step == [n \in Nat |-> [x \in Series |-> More(n, x)]]
<1>1. << >> \in Series /\ \A n \in Nat, x \in Series : More(n, x) \in Series
  <2>1. << >> \in Series
    BY DEF Series
  <2>2. ASSUME NEW n \in Nat, NEW x \in Series PROVE More(n, x) \in Series
    BY Joins
  <2> QED
    BY <2>1, <2>2
<1>2. NumberedStepping(Series, << >>, step)
  BY <1>1 DEF NumberedStepping
<1>3. \A n \in Nat, x \in Series : step[n][x] = More(n, x)
  OBVIOUS
<1> HIDE DEF step
<1>pick. PICK f : NumberedIterates(f, Series, << >>, step)
  BY <1>2, NumberedIteration
<1>4. f \in [Nat -> Series] /\ f[0] = << >> /\ \A n \in Nat : f[n + 1] = step[n][f[n]]
  BY <1>pick DEF NumberedIterates
<1>5. ASSUME NEW n \in 0 .. N - 1
      PROVE  f[n + 1] = f[n] \o blocks[n + 1]
  <2>1. n \in Nat /\ n + 1 \in 1 .. N
    OBVIOUS
  <2> QED
    BY <1>3, <1>4, <2>1
<1>6. Len(blocks) = N /\ (N = 0 => blocks = << >>)
  BY EmptySeq
<1>7. FlattenSeq(blocks) = f[N]
  <2>1. CASE N = 0
    BY <1>4, <1>6, <2>1 DEF FlattenSeq
  <2>2. CASE N # 0
    <3> DEFINE P(c) == c = [i \in 1 .. N |-> IF i = 1 THEN blocks[i] ELSE c[i - 1] \o blocks[i]]
               flat == CHOOSE c : P(c)
               g    == [i \in 1 .. N |-> f[i]]
    <3>1. P(g)
      <4>1. ASSUME NEW i \in 1 .. N
            PROVE  f[i] = IF i = 1 THEN blocks[i] ELSE g[i - 1] \o blocks[i]
        <5> DEFINE n == i - 1
        <5>1. n \in 0 .. N - 1 /\ n + 1 = i /\ (i # 1 => n \in 1 .. N)
          OBVIOUS
        <5>2. f[n + 1] = f[n] \o blocks[n + 1]
          BY <1>5, <5>1
        <5>3. CASE i = 1
          <6>0. n = 0 /\ 1 \in 1 .. N /\ 0 + 1 = 1
            BY <5>3
          <6>1. f[1] = << >> \o blocks[1] /\ blocks[1] \in Series
            BY <1>4, <5>2, <6>0
          <6> QED
            BY <5>3, <6>1, ConcatEmptySeq DEF Series
        <5>4. CASE i # 1
          BY <5>1, <5>2, <5>4
        <5> QED
          BY <5>3, <5>4
      <4> QED
        BY <4>1
    <3>2. P(flat)
      <4> HIDE DEF P
      <4> QED
        BY <3>1
    <3>3. FlattenSeq(blocks) = flat[N]
      BY <1>6, <2>2 DEF FlattenSeq
    <3> HIDE DEF flat
    <3>4. \A i \in 1 .. N : flat[i] = IF i = 1 THEN blocks[i] ELSE flat[i - 1] \o blocks[i]
      BY <3>2
    <3>5. \A i \in 1 .. N : g[i] = IF i = 1 THEN blocks[i] ELSE g[i - 1] \o blocks[i]
      <4> HIDE DEF g
      <4> QED
        BY <3>1
    <3> DEFINE Same == {n \in Nat : n + 1 <= N => flat[n + 1] = g[n + 1]}
    <3>6. 0 \in Same
      BY <3>4, <3>5
    <3>7. ASSUME NEW n \in Nat, n \in Same
          PROVE  n + 1 \in Same
      <4>1. SUFFICES ASSUME (n + 1) + 1 <= N PROVE flat[(n + 1) + 1] = g[(n + 1) + 1]
        OBVIOUS
      <4> DEFINE i == (n + 1) + 1
      <4>2. i \in 1 .. N /\ i # 1 /\ i - 1 = n + 1 /\ flat[n + 1] = g[n + 1]
        BY <3>7, <4>1
      <4> HIDE DEF i, g
      <4>3. flat[i] = flat[n + 1] \o blocks[i] /\ g[i] = g[n + 1] \o blocks[i]
        BY <3>4, <3>5, <4>2
      <4> QED
        BY <4>2, <4>3 DEF i
    <3>8. N - 1 \in Same
      <4>1. N - 1 \in Nat
        BY <2>2
      <4> HIDE DEF Same
      <4>2. Nat \subseteq Same
        BY <3>6, <3>7, SetInduction
      <4> QED
        BY <4>1, <4>2
    <3>9. flat[N] = f[N]
      <4>1. (N - 1) + 1 = N /\ N \in 1 .. N /\ N <= N
        BY <2>2
      <4> QED
        BY <3>8, <4>1
    <3> QED
      BY <3>3, <3>9
  <2> QED
    BY <2>1, <2>2
<1> QED
  BY <1>4, <1>5, <1>7 DEF Joined

LEMMA LastRead ==
  ASSUME file \in Series, NEW r \in Readings, NEW q, NEW w, NEW n \in Value,
         Reads(r, q, w, <<n>>), q.error = "none"
  PROVE  Last(q.values) = n /\ Front(q.values) = r.values
<1> DEFINE old == r.values
           all == q.values
<1>1. old \in Values /\ all = old \o <<n>>
  BY ReadingFields, AfterIs
<1> HIDE DEF old, all
<1>2. all = Append(old, n)
  BY <1>1, AppendIsConcat DEF Values
<1>3. /\ Len(old) \in Nat /\ Len(all) = Len(old) + 1 /\ all[Len(old) + 1] = n
      /\ all \in Seq(Value) /\ \A i \in 1 .. Len(old) : all[i] = old[i]
  BY <1>1, <1>2, AppendProperties, LenProperties DEF Values
<1>4. Last(all) = n
  BY <1>3 DEF Last
<1>5. SubSeq(all, 1, Len(all) - 1) = old
  <2>1. <<n>> \in Values /\ Len(<<n>>) = 1
    BY OneValue
  <2> DEFINE one == <<n>>
  <2>2. one \in Values /\ Len(one) = 1 /\ all = old \o one
    BY <1>1, <2>1
  <2> HIDE DEF one
  <2>3. SubSeq(all, 1, Len(all) - Len(one)) = old
    BY <1>1, <2>2, Oldest
  <2> QED
    BY <2>2, <2>3
<1> QED
  BY <1>4, <1>5 DEF Front, old, all

(* The count that rule_total read is taken from the values.                *)
LEMMA Popped ==
  ASSUME file \in Series, NEW r \in Readings, NEW q, NEW w, NEW n \in Value,
         Reads(r, q, w, <<n>>), q.error = "none"
  PROVE  LET start == [q EXCEPT !.values = Front(@)]
         IN  Reads(r, start, w, << >>) /\ start \in Readings /\ start.error = "none"
<1> DEFINE start == [q EXCEPT !.values = Front(@)]
           old   == r.values
           pos   == q.pos
<1>1. /\ q.values = old \o <<n>> /\ q.pos = r.pos + Len(w) /\ Fits(r, w)
      /\ Front(q.values) = old /\ q \in Readings /\ w \in Series
  <2>1. q.values = old \o <<n>> /\ q.pos = r.pos + Len(w) /\ Fits(r, w)
    BY AfterIs
  <2>2. Front(q.values) = old
    BY LastRead
  <2>3. q \in Readings /\ w \in Series
    BY DEF Reads
  <2> QED
    BY <2>1, <2>2, <2>3
<1>2. /\ q = [pos |-> pos, values |-> q.values, error |-> "none"]
      /\ pos \in Nat /\ 1 <= pos /\ pos <= FileEnd /\ old \in Values
  BY <1>1, ReadingFields
<1>3. start = [pos |-> pos, values |-> old, error |-> "none"]
  BY <1>1, <1>2
<1>4. old \o << >> = old /\ << >> \in Values
  BY <1>2, ConcatEmptySeq, EmptySeq DEF Values
<1> HIDE DEF start, old, pos
<1>5. start \in Readings
  BY <1>2, <1>3, ReadingIs DEF Errors
<1>6. start = After(r, w, << >>)
  BY <1>1, <1>3, <1>4 DEF After, old, pos
<1>7. start.error = "none"
  BY <1>3
<1> QED
  BY <1>1, <1>4, <1>5, <1>6, <1>7 DEF Reads, start

FirstOf(values, n) == [i \in 1 .. n |-> values[i]]

(* The first values of a sequence. *)
LEMMA OneMoreFirst ==
  ASSUME NEW S, NEW values \in Seq(S), NEW n \in 0 .. Len(values) - 1
  PROVE  /\ FirstOf(values, n) \in Seq(S) /\ Len(FirstOf(values, n)) = n
         /\ n \in Nat /\ n + 1 \in 1 .. Len(values)
         /\ \A i \in 1 .. n : FirstOf(values, n)[i] = values[i] /\ i \in 1 .. Len(values) /\ i < n + 1
         /\ FirstOf(values, n + 1) = Append(FirstOf(values, n), values[n + 1])
<1> DEFINE x == values[n + 1]
           s == FirstOf(values, n)
           t == FirstOf(values, n + 1)
<1>1. /\ Len(values) \in Nat /\ n \in Nat /\ n + 1 \in 1 .. Len(values)
      /\ \A i \in 1 .. n : i \in 1 .. Len(values) /\ i < n + 1
  BY LenProperties
<1>2. \A i \in 1 .. n + 1 : values[i] \in S
  BY <1>1, ElementOfSeq
<1>3. s \in [1 .. n -> S] /\ t \in [1 .. n + 1 -> S] /\ x \in S
  BY <1>1, <1>2 DEF FirstOf
<1>4. t[n + 1] = x /\ \A i \in 1 .. n : t[i] = s[i] /\ s[i] = values[i]
  <2>1. n + 1 \in 1 .. n + 1 /\ \A i \in 1 .. n : i \in 1 .. n + 1
    BY <1>1
  <2> QED
    BY <2>1 DEF FirstOf
<1> HIDE DEF s, t, x
<1>5. s \in Seq(S) /\ Len(s) = n /\ t \in Seq(S) /\ Len(t) = n + 1
  BY <1>1, <1>3
<1>6. /\ Append(s, x) \in Seq(S) /\ Len(Append(s, x)) = n + 1
      /\ Append(s, x)[n + 1] = x /\ \A i \in 1 .. n : Append(s, x)[i] = s[i]
  BY <1>3, <1>5, AppendProperties
<1>7. \A i \in 1 .. n + 1 : Append(s, x)[i] = t[i]
  <2>1. \A i \in 1 .. n + 1 : i \in 1 .. n \/ i = n + 1
    BY <1>1
  <2> QED
    BY <1>4, <1>6, <2>1
<1>8. Append(s, x) = t
  BY <1>5, <1>6, <1>7, SeqEqual
<1> QED
  BY <1>1, <1>4, <1>5, <1>8 DEF s, t, x

LEMMA AllFirst ==
  ASSUME NEW S, NEW values \in Seq(S)
  PROVE  FirstOf(values, 0) = << >> /\ FirstOf(values, Len(values)) = values /\ Len(values) \in Nat
<1>1. DOMAIN values = 1 .. Len(values) /\ Len(values) \in Nat
  BY LenProperties
<1>2. FirstOf(values, 0) = << >>
  BY DEF FirstOf
<1>3. FirstOf(values, Len(values)) = values
  BY <1>1 DEF FirstOf
<1> QED
  BY <1>1, <1>2, <1>3

LEMMA OneMoreOf ==
  ASSUME NEW N \in Nat, NEW values \in [1 .. N -> Value]
  PROVE  /\ FirstOf(values, 0) = << >> /\ FirstOf(values, N) = values /\ values \in Values
         /\ \A n \in 0 .. N - 1 :
              FirstOf(values, n + 1) = FirstOf(values, n) \o <<values[n + 1]>>
<1>1. values \in Seq(Value) /\ Len(values) = N
  OBVIOUS
<1>2. ASSUME NEW n \in 0 .. N - 1
      PROVE  FirstOf(values, n + 1) = FirstOf(values, n) \o <<values[n + 1]>>
  <2> DEFINE x == values[n + 1]
             s == FirstOf(values, n)
  <2>1. s \in Seq(Value) /\ FirstOf(values, n + 1) = Append(s, x)
    BY <1>1, OneMoreFirst
  <2>2. x \in Value
    BY <1>2
  <2> HIDE DEF s, x
  <2>3. Append(s, x) = s \o <<x>>
    BY <2>1, <2>2, AppendIsConcat
  <2> QED
    BY <2>1, <2>3 DEF s, x
<1> QED
  BY <1>1, <1>2, AllFirst DEF Values

LEMMA FacingFirst ==
  ASSUME file \in Series, NEW r \in Readings, NEW N \in Nat,
         NEW blocks \in [1 .. N -> Series], NEW f, Joined(blocks, N, f), Facing(r, f[N])
  PROVE  \A n \in 0 .. N : Facing(r, f[n])
<1> DEFINE Faced == {k \in Nat : k <= N => Facing(r, f[N - k])}
<1>1. 0 \in Faced
  OBVIOUS
<1>2. ASSUME NEW k \in Nat, k \in Faced
      PROVE  k + 1 \in Faced
  <2>1. SUFFICES ASSUME k + 1 <= N PROVE Facing(r, f[N - (k + 1)])
    OBVIOUS
  <2> DEFINE n == N - (k + 1)
  <2>2. n \in 0 .. N - 1 /\ n \in Nat /\ n + 1 = N - k /\ n + 1 \in 1 .. N /\ k <= N
    BY <2>1
  <2>3. Facing(r, f[n + 1])
    BY <1>2, <2>2
  <2> HIDE DEF n
  <2>4. f[n] \in Series /\ blocks[n + 1] \in Series /\ f[n + 1] = f[n] \o blocks[n + 1]
    BY <2>2 DEF Joined
  <2>5. Facing(r, f[n])
    BY <2>3, <2>4, Ahead
  <2> QED
    BY <2>5 DEF n
<1>3. Nat \subseteq Faced
  <2> HIDE DEF Faced
  <2> QED
    BY <1>1, <1>2, SetInduction
<1>4. ASSUME NEW n \in 0 .. N
      PROVE  Facing(r, f[n])
  <2> DEFINE k == N - n
  <2>1. k \in Nat /\ k <= N /\ N - k = n
    OBVIOUS
  <2> QED
    BY <1>3, <2>1
<1> QED
  BY <1>4

(* The loop over an array leaves what is left of each of its items.        *)
LEMMA LoopRule ==
  ASSUME file \in Series, Len(vm_instructions) \in Nat,
         NEW start \in Readings, start.error = "none",
         NEW section \in Sections, NEW N \in Nat, NEW array \in [1 .. N -> Items(section)],
         NEW blocks, blocks = [i \in 1 .. N |-> WriteOne(section, array[i])],
         NEW left, left = [i \in 1 .. N |-> Left(section, array[i])],
         Facing(start, FlattenSeq(blocks)),
         NEW loop,
         loop = CHOOSE c : c = [i \in 0 .. N |-> IF i = 0 THEN start ELSE RuleOne(section, c[i - 1])]
  PROVE  Reads(start, loop[N], FlattenSeq(blocks), left)
<1>1. blocks \in [1 .. N -> Series] /\ left \in [1 .. N -> Value]
  <2>1. ASSUME NEW i \in 1 .. N
        PROVE  WriteOne(section, array[i]) \in Series /\ Left(section, array[i]) \in Value
    <3>1. array[i] \in Items(section)
      OBVIOUS
    <3> QED
      BY <3>1, OneRule
  <2> QED
    BY <2>1
<1>2. \A i \in 1 .. N, r \in Readings :
        Facing(r, blocks[i]) => Reads(r, RuleOne(section, r), blocks[i], <<left[i]>>)
  <2>1. ASSUME NEW i \in 1 .. N, NEW r \in Readings, Facing(r, blocks[i])
        PROVE  Reads(r, RuleOne(section, r), blocks[i], <<left[i]>>)
    <3> DEFINE item == array[i]
               x    == Left(section, item)
    <3>1. item \in Items(section) /\ blocks[i] = WriteOne(section, item) /\ left[i] = x
      OBVIOUS
    <3> HIDE DEF item
    <3>2. Reads(r, RuleOne(section, r), WriteOne(section, item), <<x>>)
      BY <2>1, <3>1, OneRule
    <3> HIDE DEF x
    <3> QED
      BY <3>1, <3>2
  <2> QED
    BY <2>1
<1>3. PICK f : Joined(blocks, N, f)
  BY <1>1, Flattening
<1>4. /\ f \in [Nat -> Series] /\ f[0] = << >>
      /\ \A n \in 0 .. N - 1 : f[n + 1] = f[n] \o blocks[n + 1]
      /\ FlattenSeq(blocks) = f[N]
  BY <1>3 DEF Joined
<1>5. \A n \in 0 .. N : Facing(start, f[n])
  BY <1>1, <1>3, <1>4, FacingFirst
<1> DEFINE Rule(r) == RuleOne(section, r)
           More(r) == IF Rule(r) \in Readings THEN Rule(r) ELSE r
           step == [r \in Readings |-> More(r)]
<1>6. Stepping(Readings, start, step)
  BY DEF Stepping
<1>7. \A r \in Readings : Rule(r) \in Readings => step[r] = Rule(r)
  OBVIOUS
<1> HIDE DEF step, More, Rule
<1>8. PICK g : Iterates(g, Readings, start, step)
  BY <1>6, Iteration
<1>9. g \in [Nat -> Readings] /\ g[0] = start /\ \A n \in Nat : g[n + 1] = step[g[n]]
  BY <1>8 DEF Iterates
<1>10. /\ FirstOf(left, 0) = << >> /\ FirstOf(left, N) = left
       /\ \A n \in 0 .. N - 1 : FirstOf(left, n + 1) = FirstOf(left, n) \o <<left[n + 1]>>
  BY <1>1, OneMoreOf
<1> DEFINE Read(n) == Reads(start, g[n], f[n], FirstOf(left, n))
           Done == {n \in Nat : n <= N => Read(n) /\ (n # 0 => g[n] = Rule(g[n - 1]))}
<1>11. 0 \in Done
  <2>1. Reads(start, start, << >>, << >>)
    <3> DEFINE old == start.values
               pos == start.pos
    <3>1. << >> \in Series /\ << >> \in Values /\ Len(<< >>) = 0 /\ old \in Values
          /\ pos \in Nat /\ pos <= FileEnd
          /\ start = [pos |-> pos, values |-> old, error |-> "none"]
      BY EmptySeq, ReadingFields DEF Series, Values
    <3>2. old \o << >> = old /\ pos + 0 = pos
      <4> HIDE DEF old, pos
      <4> QED
        BY <3>1, ConcatEmptySeq DEF Values
    <3>3. Fits(start, << >>)
      BY <3>1, <3>2 DEF Fits
    <3>4. start = After(start, << >>, << >>)
      BY <3>1, <3>2 DEF After
    <3> QED
      BY <3>1, <3>3, <3>4 DEF Reads
  <2> QED
    BY <1>4, <1>9, <1>10, <2>1
<1>12. ASSUME NEW n \in Nat, n \in Done
       PROVE  n + 1 \in Done
  <2>1. SUFFICES ASSUME n + 1 <= N PROVE Read(n + 1) /\ g[n + 1] = Rule(g[n])
    OBVIOUS
  <2>2. n <= N /\ n \in 0 .. N - 1 /\ n + 1 \in 1 .. N /\ n + 1 \in 0 .. N
    BY <2>1
  <2> DEFINE q == g[n]
             v == f[n]
             w == blocks[n + 1]
             vs == FirstOf(left, n)
             x  == left[n + 1]
  <2>3. q \in Readings /\ v \in Series /\ w \in Series /\ f[n + 1] = v \o w
        /\ FirstOf(left, n + 1) = vs \o <<x>>
    BY <1>1, <1>4, <1>9, <1>10, <2>2
  <2>4. Reads(start, q, v, vs)
    BY <1>12, <2>2
  <2>5. Facing(start, v \o w)
    BY <1>5, <2>2, <2>3
  <2>6. \A r \in Readings : Facing(r, w) => Reads(r, Rule(r), w, <<x>>)
    BY <1>2, <2>2 DEF Rule
  <2>7. g[n + 1] = step[q]
    BY <1>9
  <2> HIDE DEF q, v, w, vs, x
  <2>8. Reads(start, Rule(q), v \o w, vs \o <<x>>)
    <3>1. q \in Readings /\ Facing(q, w) => Reads(q, Rule(q), w, <<x>>)
      BY <2>6
    <3> QED
      BY <2>3, <2>4, <2>5, <3>1, Step
  <2>9. Rule(q) \in Readings
    BY <2>8 DEF Reads
  <2>10. g[n + 1] = Rule(q)
    BY <1>7, <2>3, <2>7, <2>9
  <2>11. Reads(start, g[n + 1], f[n + 1], FirstOf(left, n + 1))
    BY <2>3, <2>8, <2>10
  <2> QED
    BY <2>10, <2>11 DEF q
<1>13. \A n \in 0 .. N : Read(n) /\ (n # 0 => g[n] = Rule(g[n - 1]))
  <2>1. Nat \subseteq Done
    <3> HIDE DEF Done
    <3> QED
      BY <1>11, <1>12, SetInduction
  <2>2. ASSUME NEW n \in 0 .. N
        PROVE  Read(n) /\ (n # 0 => g[n] = Rule(g[n - 1]))
    <3>1. n \in Nat /\ n <= N
      OBVIOUS
    <3>2. n \in Done
      BY <2>1, <3>1
    <3> HIDE DEF Read
    <3> QED
      BY <3>1, <3>2
  <2> HIDE DEF Read
  <2> QED
    BY <2>2
<1>14. loop[N] = g[N]
  <2> DEFINE P(c) == c = [i \in 0 .. N |-> IF i = 0 THEN start ELSE Rule(c[i - 1])]
             h    == [i \in 0 .. N |-> g[i]]
  <2>1. P(h)
    <3>1. ASSUME NEW i \in 0 .. N
          PROVE  g[i] = IF i = 0 THEN start ELSE Rule(h[i - 1])
      <4>1. i # 0 => i - 1 \in 0 .. N
        OBVIOUS
      <4> QED
        BY <1>9, <1>13, <4>1
    <3> QED
      BY <3>1
  <2>2. loop = CHOOSE c : P(c)
    BY DEF Rule
  <2>3. P(loop)
    <3> HIDE DEF P
    <3> QED
      BY <2>1, <2>2
  <2>4. \A i \in 0 .. N : loop[i] = IF i = 0 THEN start ELSE Rule(loop[i - 1])
    <3>1. loop = [i \in 0 .. N |-> IF i = 0 THEN start ELSE Rule(loop[i - 1])]
      BY <2>3
    <3> QED
      BY ONLY <3>1
  <2> HIDE DEF P, h
  <2> DEFINE Same == {n \in Nat : n <= N => loop[n] = g[n]}
  <2>5. 0 \in Same
    <3>1. loop[0] = start
      BY <2>4
    <3> QED
      BY <1>9, <3>1
  <2>6. ASSUME NEW n \in Nat, n \in Same
        PROVE  n + 1 \in Same
    <3>1. SUFFICES ASSUME n + 1 <= N PROVE loop[n + 1] = g[n + 1]
      OBVIOUS
    <3>2. n + 1 \in 0 .. N /\ n + 1 # 0 /\ (n + 1) - 1 = n /\ loop[n] = g[n]
      BY <2>6, <3>1
    <3>3. loop[n + 1] = Rule(loop[n])
      BY <2>4, <3>2
    <3>4. g[n + 1] = Rule(g[n])
      BY <1>13, <3>2
    <3> QED
      BY <3>2, <3>3, <3>4
  <2>7. Nat \subseteq Same
    <3> HIDE DEF Same
    <3> QED
      BY <2>5, <2>6, SetInduction
  <2> QED
    BY <2>7
<1>15. Reads(start, g[N], f[N], FirstOf(left, N))
  BY <1>13
<1> QED
  BY <1>4, <1>10, <1>14, <1>15

(* What a rule leaves of an array: its items, its strings cut.             *)
Lefts(section, array) == [i \in DOMAIN array |-> Left(section, array[i])]

LEMMA ArrayRule ==
  ASSUME file \in Series, Len(vm_instructions) \in Nat, NEW r \in Readings,
         NEW section \in Sections, NEW array \in Seq(Items(section))
  PROVE  /\ WriteArray(section, array) \in Series
         /\ Facing(r, WriteArray(section, array))
              => Reads(r, RuleArray(section, r), WriteArray(section, array), Lefts(section, array))
<1> DEFINE N      == Len(array)
           blocks == [i \in 1 .. N |-> WriteOne(section, array[i])]
           left   == [i \in 1 .. N |-> Left(section, array[i])]
           flat   == FlattenSeq(blocks)
           w      == WriteUInt(N)
           total  == UInt(r)
           rule   == RuleArray(section, r)
<1>1. N \in Nat /\ DOMAIN array = 1 .. N /\ array \in [1 .. N -> Items(section)]
  BY LenProperties
<1>2. N \in Value
  BY <1>1, ValueKinds
<1>3. WriteArray(section, array) = w \o flat
  BY <1>1 DEF WriteArray
<1>4. left = Lefts(section, array)
  BY <1>1 DEF Lefts
<1>5. blocks \in [1 .. N -> Series] /\ left \in [1 .. N -> Value]
  <2>1. ASSUME NEW i \in 1 .. N
        PROVE  WriteOne(section, array[i]) \in Series /\ Left(section, array[i]) \in Value
    <3>1. array[i] \in Items(section)
      BY <1>1
    <3> QED
      BY <3>1, OneRule
  <2> QED
    BY <2>1
<1>6. w \in Series /\ flat \in Series /\ left \in Values
  <2>1. PICK f : Joined(blocks, N, f)
    BY <1>1, <1>5, Flattening
  <2>2. flat \in Series
    BY <1>1, <2>1 DEF Joined
  <2>3. left \in Values
    BY <1>1, <1>5, OneMoreOf
  <2> QED
    BY <1>2, <2>2, <2>3, Writes
<1>7. w \o flat \in Series
  BY <1>6, Joins
<1>8. SUFFICES ASSUME Facing(r, w \o flat) PROVE Reads(r, rule, w \o flat, left)
  BY <1>3, <1>4, <1>7
<1>9. Reads(r, total, w, <<N>>)
  <2>1. Facing(r, w)
    BY <1>6, <1>8, Ahead
  <2> QED
    BY <1>2, <2>1, ReadsBack
<1>10. CASE total.error # "none"
  <2>1. rule = total
    BY <1>10 DEF RuleArray
  <2>2. total \in Readings /\ total.error = "failure"
    BY <1>9, <1>10, ReadingFields DEF Reads
  <2>3. Reads(total, total, flat, left)
    BY <1>6, <2>2 DEF Reads, Fits
  <2> HIDE DEF total, rule
  <2>4. ~Fits(r, w)
    BY <1>9, <1>10 DEF Reads, After
  <2>5. ~Fits(r, w \o flat)
    <3> DEFINE a == Len(w)
               b == Len(flat)
               p == r.pos
    <3>1. Len(w \o flat) = a + b /\ a \in Nat /\ b \in Nat /\ p \in Nat /\ FileEnd \in Nat
      BY <1>6, ConcatProperties, LenProperties, ReadingFields DEF Series
    <3>2. r.error = "none" => ~(p + a <= FileEnd)
      BY <2>4 DEF Fits
    <3> HIDE DEF a, b, p, w, flat
    <3>3. r.error = "none" => ~(p + (a + b) <= FileEnd)
      BY <3>1, <3>2
    <3> QED
      BY <3>1, <3>3 DEF Fits, p
  <2> QED
    BY <1>6, <1>7, <2>1, <2>2, <2>5 DEF Reads
<1>11. CASE total.error = "none"
  <2> DEFINE start == [total EXCEPT !.values = Front(@)]
             loop  == CHOOSE c : c = [i \in 0 .. N |-> IF i = 0 THEN start ELSE RuleOne(section, c[i - 1])]
  <2>1. Last(total.values) = N
    BY <1>2, <1>9, <1>11, LastRead
  <2>2. Reads(r, start, w, << >>) /\ start \in Readings /\ start.error = "none"
    BY <1>2, <1>9, <1>11, Popped
  <2>3. rule = loop[N]
    BY <1>11, <2>1 DEF RuleArray
  <2> HIDE DEF start, total, rule
  <2>4. Facing(start, flat)
    BY <1>6, <1>8, <2>2, Ahead
  <2>5. Reads(start, loop[N], flat, left)
    BY <1>1, <2>2, <2>4, LoopRule
  <2> HIDE DEF loop, left, flat, w
  <2>6. Reads(r, loop[N], w \o flat, << >> \o left)
    BY <2>2, <2>5, Then
  <2>7. << >> \o left = left
    BY <1>6, ConcatEmptySeq DEF Values
  <2> QED
    BY <2>3, <2>6, <2>7
<1> QED
  BY <1>10, <1>11

-----------------------------------------------------------------------------
(* What the file still has for the rule of a phase and those after it.     *)
ArrayOf(section) ==
  CASE section = "strings" -> const_pool.strings
    [] section = "numbers" -> const_pool.numbers
    [] section = "userfunctions" -> const_pool.userfuncs
    [] section = "libfunctions"  -> const_pool.libfuncs
    [] section = "code" -> vm_instructions

Written(section) == WriteArray(section, ArrayOf(section))

After5 == Written("code") \o WriteUInt(TotalVars)
After4 == Written("libfunctions") \o After5
After3 == Written("userfunctions") \o After4
After2 == Written("numbers") \o After3
After1 == Written("strings") \o After2

Rest(p) ==
  CASE p = "magicnumber"     -> WriteUInt(MAGICNUMBER) \o After1
    [] p = "strings"         -> After1
    [] p = "numbers"         -> After2
    [] p = "userfunctions"   -> After3
    [] p = "libfunctions"    -> After4
    [] p = "code"            -> After5
    [] p = "nr_program_vars" -> WriteUInt(TotalVars)
    [] p = "loaded"          -> << >>

Following(section) ==
  CASE section = "strings" -> "numbers"
    [] section = "numbers" -> "userfunctions"
    [] section = "userfunctions" -> "libfunctions"
    [] section = "libfunctions"  -> "code"
    [] section = "code" -> "nr_program_vars"

Regroups(x, y, z) == (x \o y) \o z = x \o (y \o z)

LEMMA Regrouping ==
  ASSUME NEW x \in Series, NEW y \in Series, NEW z \in Series
  PROVE  Regroups(x, y, z)
<1>1. x \in Seq(Tokens) /\ y \in Seq(Tokens) /\ z \in Seq(Tokens)
  BY DEF Series
<1> QED
  BY <1>1, ConcatAssociative DEF Regroups

AllRegroup(a, b, c, d, e, f, g) ==
  /\ (((((a \o b) \o c) \o d) \o e) \o f) \o g = a \o (b \o (c \o (d \o (e \o (f \o g)))))
  /\ a \o (b \o (c \o (d \o (e \o (f \o g))))) \in Series

LEMMA Concatenations ==
  ASSUME NEW a \in Series, NEW b \in Series, NEW c \in Series, NEW d \in Series,
         NEW e \in Series, NEW f \in Series, NEW g \in Series
  PROVE  AllRegroup(a, b, c, d, e, f, g)
<1> DEFINE fg == f \o g
           efg == e \o fg
           defg == d \o efg
           cdefg == c \o defg
           bcdefg == b \o cdefg
           ab == a \o b
           abc == ab \o c
           abcd == abc \o d
           abcde == abcd \o e
<1>1. fg \in Series /\ ab \in Series
  BY Joins
<1> HIDE DEF fg, ab
<1>2. efg \in Series /\ abc \in Series
  BY <1>1, Joins
<1> HIDE DEF efg, abc
<1>3. defg \in Series /\ abcd \in Series
  BY <1>2, Joins
<1> HIDE DEF defg, abcd
<1>4. cdefg \in Series /\ abcde \in Series
  BY <1>3, Joins
<1> HIDE DEF cdefg, abcde
<1>5. bcdefg \in Series
  BY <1>4, Joins
<1>6. a \o bcdefg \in Series
  BY <1>5, Joins
<1>7. (abcde \o f) \o g = abcde \o fg
  <2>1. Regroups(abcde, f, g)
    BY <1>4, Regrouping
  <2> QED
    BY <2>1 DEF Regroups, fg
<1>8. abcde \o fg = abcd \o efg
  <2>1. Regroups(abcd, e, fg)
    BY <1>1, <1>3, Regrouping
  <2> QED
    BY <2>1 DEF Regroups, abcde, efg
<1>9. abcd \o efg = abc \o defg
  <2>1. Regroups(abc, d, efg)
    BY <1>2, Regrouping
  <2> QED
    BY <2>1 DEF Regroups, abcd, defg
<1>10. abc \o defg = ab \o cdefg
  <2>1. Regroups(ab, c, defg)
    BY <1>1, <1>3, Regrouping
  <2> QED
    BY <2>1 DEF Regroups, abc, cdefg
<1>11. ab \o cdefg = a \o bcdefg
  <2>1. Regroups(a, b, cdefg)
    BY <1>4, Regrouping
  <2> QED
    BY <2>1 DEF Regroups, ab, bcdefg
<1> HIDE DEF bcdefg
<1>12. (abcde \o f) \o g = a \o bcdefg
  BY <1>7, <1>8, <1>9, <1>10, <1>11
<1> QED
  BY <1>6, <1>12 DEF AllRegroup, abcde, abcd, abc, ab, bcdefg, cdefg, defg, efg, fg

LEMMA StartsReading ==
  ASSUME file \in Series, NEW pos \in 1 .. FileEnd
  PROVE  /\ Reading(pos) \in Readings /\ Reading(pos).error = "none"
         /\ Reading(pos).pos = pos /\ Reading(pos).values = << >>
<1>1. FileEnd \in Nat /\ pos \in Nat /\ 1 <= pos /\ pos <= FileEnd
  BY FileLength
<1>2. << >> \in Values
  BY EmptySeq DEF Values
<1>3. Reading(pos) \in Readings
  BY <1>1, <1>2, ReadingIs DEF Reading, Errors
<1> QED
  BY <1>3 DEF Reading

LEMMA SectionsWritten ==
  ASSUME IInv, file \in Series
  PROVE  /\ Len(vm_instructions) \in Nat
         /\ \A section \in Sections :
              ArrayOf(section) \in Seq(Items(section)) /\ Written(section) \in Series
<1>1. Len(vm_instructions) \in Nat
  BY LenProperties DEF IInv
<1>2. ASSUME NEW section \in Sections
      PROVE  ArrayOf(section) \in Seq(Items(section))
  <2>1. /\ const_pool.strings \in Seq(Strings) /\ const_pool.numbers \in Seq(Numbers)
        /\ const_pool.userfuncs \in Seq(Userfuncs) /\ const_pool.libfuncs \in Seq(LibFuncs)
        /\ vm_instructions \in Seq(Instructions)
    BY DEF IInv, Pool
  <2> QED
    BY <2>1 DEF Sections, ArrayOf, Items
<1>3. ASSUME NEW section \in Sections
      PROVE  Written(section) \in Series
  <2>1. 1 \in 1 .. FileEnd
    BY FileLength
  <2>2. Reading(1) \in Readings
    BY <2>1, StartsReading
  <2>3. ArrayOf(section) \in Seq(Items(section))
    BY <1>2
  <2> QED
    BY <1>1, <2>2, <2>3, ArrayRule DEF Written
<1> QED
  BY <1>1, <1>2, <1>3

LEMMA Rests ==
  ASSUME IInv, file \in Series
  PROVE  /\ BinaryFile = Rest("magicnumber")
         /\ Rest("magicnumber") = WriteUInt(MAGICNUMBER) \o Rest("strings")
         /\ \A section \in Sections : Rest(section) = Written(section) \o Rest(Following(section))
         /\ Rest("nr_program_vars") = WriteUInt(TotalVars) \o Rest("loaded")
         /\ WriteUInt(MAGICNUMBER) \in Series /\ WriteUInt(TotalVars) \in Series
         /\ BinaryFile \in Series
         /\ \A p \in Sections \cup {"magicnumber", "nr_program_vars", "loaded"} : Rest(p) \in Series
<1> DEFINE m == WriteUInt(MAGICNUMBER)
           t == WriteUInt(TotalVars)
           a == Written("strings")
           b == Written("numbers")
           c == Written("userfunctions")
           d == Written("libfunctions")
           e == Written("code")
<1>1. m \in Series /\ t \in Series
  BY Writes, ValueKinds, BinaryFileAssumption
<1>2. a \in Series /\ b \in Series /\ c \in Series /\ d \in Series /\ e \in Series
  BY SectionsWritten DEF Sections
<1>3. BinaryFile = (((((m \o a) \o b) \o c) \o d) \o e) \o t
  BY DEF BinaryFile, Written, ArrayOf
<1> HIDE DEF m, t, a, b, c, d, e
<1>4. /\ After5 = e \o t /\ After4 = d \o (e \o t) /\ After3 = c \o (d \o (e \o t))
      /\ After2 = b \o (c \o (d \o (e \o t))) /\ After1 = a \o (b \o (c \o (d \o (e \o t))))
  BY DEF After1, After2, After3, After4, After5, m, t, a, b, c, d, e
<1>5. /\ After5 \in Series /\ After4 \in Series /\ After3 \in Series
      /\ After2 \in Series /\ After1 \in Series
  <2>1. After5 \in Series
    BY <1>1, <1>2, Joins DEF After5, t, e
  <2>2. After4 \in Series
    BY <1>2, <2>1, Joins DEF After4, d
  <2>3. After3 \in Series
    BY <1>2, <2>2, Joins DEF After3, c
  <2>4. After2 \in Series
    BY <1>2, <2>3, Joins DEF After2, b
  <2>5. After1 \in Series
    BY <1>2, <2>4, Joins DEF After1, a
  <2> QED
    BY <2>1, <2>2, <2>3, <2>4, <2>5
<1>6. BinaryFile = m \o After1 /\ BinaryFile \in Series
  <2>1. AllRegroup(m, a, b, c, d, e, t)
    BY <1>1, <1>2, Concatenations
  <2> QED
    BY <1>3, <1>4, <2>1 DEF AllRegroup
<1>7. t \o << >> = t /\ << >> \in Series
  BY <1>1, ConcatEmptySeq, EmptySeq DEF Series
<1>8. \A section \in Sections : Rest(section) = Written(section) \o Rest(Following(section))
  BY DEF Sections, Rest, Following, After1, After2, After3, After4, After5
<1>9. /\ BinaryFile = Rest("magicnumber")
      /\ Rest("magicnumber") = m \o Rest("strings")
      /\ Rest("nr_program_vars") = t \o Rest("loaded")
  BY <1>6, <1>7 DEF Rest, m, t
<1>10. \A p \in Sections \cup {"magicnumber", "nr_program_vars", "loaded"} : Rest(p) \in Series
  BY <1>1, <1>5, <1>6, <1>7, <1>9 DEF Rest, Sections, t
<1> QED
  BY <1>1, <1>6, <1>8, <1>9, <1>10 DEF m, t

(* A file that was written in part.                                        *)
LEMMA PartOf ==
  ASSUME NEW b \in Series, NEW f \in Prefixes(b)
  PROVE  /\ f \in Series /\ Len(f) <= Len(b) /\ Len(f) \in Nat /\ Len(b) \in Nat
         /\ \A i \in 1 .. Len(f) : f[i] = b[i]
         /\ Len(f) = Len(b) => f = b
<1>1. Len(b) \in Nat /\ b \in Seq(Tokens) /\ DOMAIN b = 1 .. Len(b)
  BY LenProperties DEF Series
<1>2. PICK l \in 0 .. Len(b) : f = SubSeq(b, 1, l)
  BY DEF Prefixes
<1>3. l \in Nat /\ l <= Len(b) /\ 1 \in Int /\ l \in Int /\ l - 1 + 1 = l
  BY <1>1
<1>4. \A i \in 1 .. l : i \in 1 .. Len(b) /\ 1 + i - 1 = i
  BY <1>1, <1>3
<1>5. \A i \in 1 .. l : b[i] \in Tokens
  BY <1>1, <1>4, ElementOfSeq
<1>6. /\ f \in Seq(Tokens) /\ Len(f) = (IF 1 <= l THEN l - 1 + 1 ELSE 0)
      /\ \A i \in 1 .. l - 1 + 1 : f[i] = b[1 + i - 1]
  BY <1>2, <1>3, <1>5, SubSeqProperties
<1>7. Len(f) = l
  BY <1>3, <1>6
<1>8. \A i \in 1 .. l : f[i] = b[i]
  BY <1>3, <1>4, <1>6
<1>9. Len(f) = Len(b) => f = b
  BY <1>1, <1>6, <1>7, <1>8, SeqEqual
<1> QED
  BY <1>1, <1>3, <1>6, <1>7, <1>8, <1>9 DEF Series

(* The reader is where the tokens w begin, and w is the rest of the file   *)
(* that was to be written.                                                 *)
ReadsFrom(pos, w) ==
  /\ pos \in 1 .. FileEnd
  /\ Facing(Reading(pos), w)
  /\ (pos - 1) + Len(w) = Len(BinaryFile)

RulePhases == Sections \cup {"magicnumber", "nr_program_vars"}

PartlyWritten == BinaryFile \in Series /\ file \in Prefixes(BinaryFile)

LEMMA Advance ==
  ASSUME PartlyWritten, NEW pos, NEW w \in Series, NEW rest \in Series,
         ReadsFrom(pos, w \o rest), NEW q, NEW vs, Reads(Reading(pos), q, w, vs)
  PROVE  /\ q.error = "none" => ReadsFrom(q.pos, rest) /\ q.values = vs
         /\ q.error # "none" => q.error = "failure" /\ file # BinaryFile
<1>1. file \in Series /\ pos \in 1 .. FileEnd
  BY PartOf DEF PartlyWritten, ReadsFrom
<1>2. /\ Reading(pos) \in Readings /\ Reading(pos).error = "none"
      /\ Reading(pos).pos = pos /\ Reading(pos).values = << >>
  BY <1>1, StartsReading
<1> DEFINE a == Len(w)
           b == Len(rest)
           n == Len(BinaryFile)
<1>3. /\ FileEnd \in Nat /\ FileEnd = Len(file) + 1 /\ Len(file) \in Nat
      /\ Len(file) <= n /\ n \in Nat /\ a \in Nat /\ b \in Nat /\ Len(w \o rest) = a + b
      /\ file = BinaryFile => Len(file) = n
  <2>1. Len(w \o rest) = a + b /\ a \in Nat /\ b \in Nat
    BY ConcatProperties, LenProperties DEF Series
  <2>2. Len(file) \in Nat /\ Len(file) <= n /\ n \in Nat
    BY PartOf DEF PartlyWritten
  <2>3. FileEnd \in Nat /\ FileEnd = Len(file) + 1
    BY <1>1, FileLength
  <2> QED
    BY <2>1, <2>2, <2>3
<1>4. pos \in Nat /\ 1 <= pos /\ pos <= FileEnd
  BY <1>1, <1>3
<1>5. (pos - 1) + (a + b) = n
  BY <1>3 DEF ReadsFrom
<1>6. q \in Readings
  BY DEF Reads
<1> HIDE DEF a, b, n
<1>7. ASSUME q.error = "none"
      PROVE  ReadsFrom(q.pos, rest) /\ q.values = vs
  <2>1. q.values = << >> \o vs /\ q.pos = pos + a /\ vs \in Values
    <3>1. q.values = Reading(pos).values \o vs /\ q.pos = Reading(pos).pos + Len(w)
      BY <1>7, AfterIs
    <3> QED
      BY <1>2, <3>1 DEF a, Reads
  <2>2. q.values = vs
    BY <2>1, ConcatEmptySeq DEF Values
  <2>3. q.pos \in 1 .. FileEnd
    BY <1>1, <1>6, ReadingFields
  <2>4. Facing(q, rest)
    BY <1>1, <1>2, Ahead DEF ReadsFrom
  <2>5. Facing(Reading(q.pos), rest)
    BY <1>7, <2>4 DEF Facing, Reading
  <2>6. (pos + a - 1) + b = n
    BY <1>3, <1>4, <1>5
  <2>7. (q.pos - 1) + b = n
    <3> DEFINE pq == q.pos
    <3>1. pq = pos + a
      BY <2>1
    <3> HIDE DEF pq
    <3>2. pos \in Nat /\ a \in Nat /\ b \in Nat /\ n \in Nat
      BY <1>3, <1>4
    <3>3. (pq - 1) + b = n
      BY ONLY <2>6, <3>1, <3>2
    <3> QED
      BY <3>3 DEF pq
  <2> QED
    BY <2>2, <2>3, <2>5, <2>7 DEF ReadsFrom, b, n
<1>8. ASSUME q.error # "none"
      PROVE  q.error = "failure" /\ file # BinaryFile
  <2>1. q.error = "failure"
    BY <1>1, <1>6, <1>8, ReadingFields
  <2>2. ~Fits(Reading(pos), w)
    BY <1>8 DEF Reads, After
  <2>3. ~(pos + a <= FileEnd)
    BY <1>2, <2>2 DEF Fits, a
  <2>4. Len(file) # n
    BY <1>3, <1>4, <1>5, <2>3
  <2> QED
    BY <1>3, <2>1, <2>4
<1> QED
  BY <1>7, <1>8

LEMMA Finished ==
  ASSUME PartlyWritten, NEW pos, ReadsFrom(pos, << >>)
  PROVE  file = BinaryFile
<1>1. /\ Len(file) \in Nat /\ Len(BinaryFile) \in Nat /\ Len(file) <= Len(BinaryFile)
      /\ Len(file) = Len(BinaryFile) => file = BinaryFile
      /\ file \in Series
  BY PartOf DEF PartlyWritten
<1>2. FileEnd = Len(file) + 1 /\ FileEnd \in Nat
  BY <1>1, FileLength
<1>3. Len(<< >>) = 0
  OBVIOUS
<1> DEFINE n == Len(BinaryFile)
           m == Len(file)
<1>4. pos \in 1 .. FileEnd /\ (pos - 1) + 0 = n
  BY <1>3 DEF ReadsFrom
<1>5. m \in Nat /\ n \in Nat /\ m <= n /\ FileEnd = m + 1 /\ FileEnd \in Nat
  BY <1>1, <1>2
<1> HIDE DEF n, m
<1>6. m = n
  BY <1>4, <1>5
<1> QED
  BY <1>1, <1>6 DEF m, n

(* Where the reader begins. *)
LEMMA Begins ==
  ASSUME NEW b \in Series, NEW f \in Prefixes(b)
  PROVE  /\ 1 \in 1 .. Len(f) + 1
         /\ \A i \in 1 .. Len(b) : 1 + i - 1 < Len(f) + 1 => f[1 + i - 1] = b[i]
         /\ (1 - 1) + Len(b) = Len(b)
<1>1. /\ Len(f) \in Nat /\ Len(b) \in Nat /\ \A i \in 1 .. Len(f) : f[i] = b[i]
  BY PartOf
<1>2. ASSUME NEW i \in 1 .. Len(b), 1 + i - 1 < Len(f) + 1
      PROVE  f[1 + i - 1] = b[i]
  <2>1. i \in 1 .. Len(f) /\ 1 + i - 1 = i
    BY <1>1, <1>2
  <2> QED
    BY <1>1, <2>1
<1> QED
  BY <1>1, <1>2

-----------------------------------------------------------------------------
(* The reader's part of the invariant. *)
RdpShape ==
  rdp = [pos |-> rdp.pos, const_pool |-> rdp.const_pool, instructions |-> rdp.instructions,
         total_program_vars |-> rdp.total_program_vars]

Reads1 ==
  /\ phase \in RulePhases \cup {"generate", "loaded", "failure"}
  /\ RdpShape
  /\ file \in Series
  /\ rdp.pos \in 1 .. FileEnd
  /\ phase = "generate" => file = << >> /\ rdp = Reader
  /\ phase # "generate" => PartlyWritten
  /\ phase \in RulePhases => ReadsFrom(rdp.pos, Rest(phase))
  /\ phase = "loaded" => file = BinaryFile
  /\ phase = "failure" => file # BinaryFile

SameFile == UNCHANGED <<const_pool, vm_instructions, file>>

LEMMA OutputStays ==
  ASSUME const_pool' = const_pool, vm_instructions' = vm_instructions
  PROVE  BinaryFile' = BinaryFile /\ \A p : Rest(p)' = Rest(p)
<1>1. BinaryFile' = BinaryFile
  BY DEF BinaryFile, WriteArray, WriteOne, WriteInstruction, WriteVMarg
<1>2. ASSUME NEW s PROVE Written(s)' = Written(s)
  BY DEF Written, ArrayOf, WriteArray, WriteOne, WriteInstruction, WriteVMarg
<1>3. ASSUME NEW p PROVE Rest(p)' = Rest(p)
  BY <1>2 DEF Rest, After1, After2, After3, After4, After5
<1> QED
  BY <1>1, <1>3

LEMMA FileStays ==
  ASSUME SameFile
  PROVE  /\ BinaryFile' = BinaryFile /\ FileEnd' = FileEnd /\ (PartlyWritten' <=> PartlyWritten)
         /\ \A p : Rest(p)' = Rest(p)
         /\ \A pos, w : ReadsFrom(pos, w)' <=> ReadsFrom(pos, w)
<1>1. const_pool' = const_pool /\ vm_instructions' = vm_instructions /\ file' = file
  BY DEF SameFile
<1>3. BinaryFile' = BinaryFile /\ \A p : Rest(p)' = Rest(p)
  BY <1>1, OutputStays
<1>4. FileEnd' = FileEnd /\ (PartlyWritten' <=> PartlyWritten)
  BY <1>1, <1>3 DEF FileEnd, PartlyWritten
<1>7. ASSUME NEW pos, NEW w PROVE ReadsFrom(pos, w)' <=> ReadsFrom(pos, w)
  BY <1>1, <1>3, <1>4 DEF ReadsFrom, Facing
<1> QED
  BY <1>3, <1>4, <1>7

(* A rule reads the tokens w, the first of the rest of its phase, and      *)
(* leaves the values vs.                                                   *)
RuleOf(p, next, q, w, vs) ==
  /\ p \in RulePhases /\ next \in RulePhases \cup {"loaded"}
  /\ w \in Series /\ Rest(p) = w \o Rest(next) /\ Rest(next) \in Series
  /\ Facing(Reading(rdp.pos), w) => Reads(Reading(rdp.pos), q, w, vs)

Loads(loaded, pool, instructions, total) ==
  loaded = [pos |-> rdp.pos, const_pool |-> pool, instructions |-> instructions,
            total_program_vars |-> total]

(* What a rule does to the reader: it is at the rule that follows, with    *)
(* what was read, or it has failed.                                        *)
Reaches(next, pool, instructions, total) ==
  \/ /\ phase' = next
     /\ rdp'.const_pool = pool /\ rdp'.instructions = instructions
     /\ rdp'.total_program_vars = total
  \/ phase' = "failure" /\ UNCHANGED rdp

(* A rule takes the reader to the rest that the next one expects, or ends  *)
(* where the file does.                                                    *)
LEMMA RuleKeeps ==
  ASSUME Reads1, NEW p, NEW next, NEW q, NEW w, NEW vs, RuleOf(p, next, q, w, vs),
         NEW pool, NEW instructions, NEW total, NEW loaded,
         Loads(loaded, pool, instructions, total),
         Parse(p, q, loaded, next)
  PROVE  /\ Reads1' /\ Reaches(next, pool, instructions, total)
         /\ phase' = next => q.error = "none" /\ q.values = vs
<1>0. /\ p \in RulePhases /\ next \in RulePhases \cup {"loaded"}
      /\ w \in Series /\ Rest(p) = w \o Rest(next) /\ Rest(next) \in Series
      /\ Facing(Reading(rdp.pos), w) => Reads(Reading(rdp.pos), q, w, vs)
      /\ loaded = [pos |-> rdp.pos, const_pool |-> pool, instructions |-> instructions,
                   total_program_vars |-> total]
  BY DEF RuleOf, Loads
<1>1. /\ phase = p /\ PartlyWritten /\ ReadsFrom(rdp.pos, Rest(p))
      /\ p # "loaded" /\ p # "failure" /\ p # "generate" /\ next # "generate" /\ next # "failure"
  BY <1>0 DEF Parse, Reads1, RulePhases, Sections
<1>2. SameFile
  BY DEF Parse, SameFile
<1>3. /\ BinaryFile' = BinaryFile /\ FileEnd' = FileEnd /\ PartlyWritten'
      /\ \A s : Rest(s)' = Rest(s)
      /\ \A pos, x : ReadsFrom(pos, x)' <=> ReadsFrom(pos, x)
  BY <1>1, <1>2, FileStays
<1>4. file' = file /\ file' \in Series
  BY <1>2 DEF SameFile, Reads1
<1>5. Facing(Reading(rdp.pos), w)
  <2>1. Reading(rdp.pos) \in Readings
    BY StartsReading DEF Reads1
  <2>2. Facing(Reading(rdp.pos), w \o Rest(next))
    BY <1>0, <1>1 DEF ReadsFrom
  <2> QED
    BY <1>0, <2>1, <2>2, Ahead DEF Reads1
<1>6. /\ q.error = "none" => ReadsFrom(q.pos, Rest(next)) /\ q.values = vs
      /\ q.error # "none" => q.error = "failure" /\ file # BinaryFile
  <2> DEFINE rest == Rest(next)
             pos  == rdp.pos
  <2>1. /\ ReadsFrom(pos, w \o rest) /\ Reads(Reading(pos), q, w, vs)
        /\ rest \in Series /\ w \in Series
    BY <1>0, <1>1, <1>5
  <2> HIDE DEF rest, pos
  <2>2. /\ q.error = "none" => ReadsFrom(q.pos, rest) /\ q.values = vs
        /\ q.error # "none" => q.error = "failure" /\ file # BinaryFile
    BY <1>1, <2>1, Advance
  <2> QED
    BY <2>2 DEF rest
<1>7. CASE q.error = "none"
  <2>1. phase' = next /\ rdp' = [loaded EXCEPT !.pos = q.pos]
    BY <1>7 DEF Parse
  <2>2. rdp' = [pos |-> q.pos, const_pool |-> pool, instructions |-> instructions,
                total_program_vars |-> total]
    BY <1>0, <2>1
  <2>3. rdp'.pos = q.pos /\ RdpShape'
    BY <2>2 DEF RdpShape
  <2>4. ReadsFrom(q.pos, Rest(next)) /\ q.values = vs
    BY <1>6, <1>7
  <2>5. q.pos \in 1 .. FileEnd
    BY <2>4 DEF ReadsFrom
  <2>6. next = "loaded" => file = BinaryFile
    <3>1. ASSUME next = "loaded" PROVE ReadsFrom(q.pos, << >>)
      BY <2>4, <3>1 DEF Rest
    <3> QED
      BY <1>1, <3>1, Finished
  <2>7. ReadsFrom(rdp.pos, Rest(next))'
    <3> DEFINE x == Rest(next)
    <3>1. x' = x
      BY <1>3
    <3>2. ReadsFrom(q.pos, x)
      BY <2>4
    <3> HIDE DEF x
    <3>3. ReadsFrom(rdp.pos, x)'
      BY <1>3, <1>4, <2>3, <3>1, <3>2 DEF ReadsFrom, Facing, Reading
    <3> QED
      BY <3>3 DEF x
  <2>8. rdp'.pos \in 1 .. FileEnd'
    BY <1>3, <2>3, <2>5
  <2>9. phase' \in RulePhases => ReadsFrom(rdp.pos, Rest(phase))'
    BY <2>1, <2>7
  <2>10. phase' = "loaded" => file' = BinaryFile'
    BY <1>3, <1>4, <2>1, <2>6
  <2>11. Reads1'
    <3>1. phase' \in RulePhases \cup {"loaded"} /\ phase' # "generate" /\ phase' # "failure"
      BY <1>0, <1>1, <2>1
    <3> QED
      BY <1>3, <1>4, <2>3, <2>8, <2>9, <2>10, <3>1 DEF Reads1
  <2>12. Reaches(next, pool, instructions, total)
    BY <2>1, <2>2 DEF Reaches
  <2> QED
    BY <1>7, <2>4, <2>11, <2>12
<1>8. CASE q.error # "none"
  <2>1. phase' = "failure" /\ rdp' = rdp /\ file # BinaryFile
    BY <1>6, <1>8 DEF Parse
  <2>2. Reads1'
    <3>1. RdpShape' /\ rdp'.pos \in 1 .. FileEnd'
      BY <1>3, <2>1 DEF Reads1, RdpShape
    <3>2. phase' \notin RulePhases /\ phase' # "generate" /\ phase' # "loaded"
      BY <2>1 DEF RulePhases, Sections
    <3>3. file' # BinaryFile'
      BY <1>3, <1>4, <2>1
    <3> QED
      BY <1>3, <1>4, <2>1, <3>1, <3>2, <3>3 DEF Reads1
  <2>3. Reaches(next, pool, instructions, total)
    BY <2>1 DEF Reaches
  <2> QED
    BY <1>1, <2>1, <2>2, <2>3
<1> QED
  BY <1>7, <1>8

-----------------------------------------------------------------------------
ConstantSections == {"strings", "numbers", "userfunctions", "libfunctions"}

LEMMA SectionRule ==
  ASSUME Reads1, IInv, NEW section \in Sections
  PROVE  RuleOf(section, Following(section), RuleArray(section, Reading(rdp.pos)),
                Written(section), Lefts(section, ArrayOf(section)))
<1>1. file \in Series /\ rdp.pos \in 1 .. FileEnd
  BY DEF Reads1
<1>2. section \in RulePhases /\ Following(section) \in RulePhases
  BY DEF Sections, Following, RulePhases
<1>3. /\ Rest(section) = Written(section) \o Rest(Following(section))
      /\ Rest(Following(section)) \in Series
  BY <1>1, <1>2, Rests DEF RulePhases
<1>4. /\ Written(section) \in Series /\ Len(vm_instructions) \in Nat
      /\ ArrayOf(section) \in Seq(Items(section))
  BY <1>1, SectionsWritten
<1>5. Reading(rdp.pos) \in Readings
  BY <1>1, StartsReading
<1>6. Facing(Reading(rdp.pos), Written(section))
              => Reads(Reading(rdp.pos), RuleArray(section, Reading(rdp.pos)), Written(section),
                       Lefts(section, ArrayOf(section)))
  <2> DEFINE r == Reading(rdp.pos)
             a == ArrayOf(section)
  <2>1. r \in Readings /\ a \in Seq(Items(section))
    BY <1>4, <1>5
  <2> HIDE DEF r, a
  <2>2. Facing(r, WriteArray(section, a))
          => Reads(r, RuleArray(section, r), WriteArray(section, a), Lefts(section, a))
    BY <1>1, <1>4, <2>1, ArrayRule
  <2> QED
    BY <2>2 DEF Written, r, a
<1> QED
  BY <1>2, <1>3, <1>4, <1>6 DEF RuleOf

LEMMA ConstantsRule ==
  ASSUME Reads1, IInv, NEW section \in ConstantSections,
         RuleConstants(section, Following(section))
  PROVE  /\ Reads1'
         /\ Reaches(Following(section), RegisterAll(section, Lefts(section, ArrayOf(section))),
                    rdp.instructions, rdp.total_program_vars)
<1> DEFINE next   == Following(section)
           q      == RuleArray(section, Reading(rdp.pos))
           pool   == RegisterAll(section, q.values)
           loaded == [rdp EXCEPT !.const_pool = pool]
           w      == Written(section)
           vs     == Lefts(section, ArrayOf(section))
<1>1. section \in Sections /\ Parse(section, q, loaded, next)
  BY DEF ConstantSections, Sections, RuleConstants
<1>2. RuleOf(section, next, q, w, vs)
  BY <1>1, SectionRule
<1>3. Loads(loaded, pool, rdp.instructions, rdp.total_program_vars)
  BY DEF Reads1, RdpShape, Loads
<1>4. pool = RegisterAll(section, q.values)
  OBVIOUS
<1> HIDE DEF next, q, pool, loaded, w, vs
<1>5. /\ Reads1' /\ Reaches(next, pool, rdp.instructions, rdp.total_program_vars)
      /\ phase' = next => q.error = "none" /\ q.values = vs
  BY <1>1, <1>2, <1>3, RuleKeeps
<1>6. phase' = next => pool = RegisterAll(section, vs)
  BY <1>4, <1>5
<1> QED
  BY <1>5, <1>6 DEF Reaches, next, vs

LEMMA CodeRule ==
  ASSUME Reads1, IInv, RuleCode
  PROVE  /\ Reads1'
         /\ Reaches("nr_program_vars", rdp.const_pool, Lefts("code", vm_instructions),
                    rdp.total_program_vars)
<1> DEFINE next   == "nr_program_vars"
           q      == RuleArray("code", Reading(rdp.pos))
           code   == q.values
           loaded == [rdp EXCEPT !.instructions = code]
           w      == Written("code")
           vs     == Lefts("code", vm_instructions)
<1>1. Parse("code", q, loaded, next) /\ Following("code") = next
  BY DEF RuleCode, Following
<1>2. RuleOf("code", next, q, w, vs)
  BY <1>1, SectionRule DEF Sections, ArrayOf
<1>3. Loads(loaded, rdp.const_pool, code, rdp.total_program_vars)
  BY DEF Reads1, RdpShape, Loads
<1>4. code = q.values
  OBVIOUS
<1> HIDE DEF next, q, code, loaded, w, vs
<1>5. /\ Reads1' /\ Reaches(next, rdp.const_pool, code, rdp.total_program_vars)
      /\ phase' = next => q.error = "none" /\ q.values = vs
  BY <1>1, <1>2, <1>3, RuleKeeps
<1> QED
  BY <1>4, <1>5 DEF Reaches, next, vs

LEMMA MagicRule ==
  ASSUME Reads1, IInv, RuleMagicNumber
  PROVE  /\ Reads1'
         /\ Reaches("strings", rdp.const_pool, rdp.instructions, rdp.total_program_vars)
<1> DEFINE r == Reading(rdp.pos)
           u == UInt(r)
           invalid == u.error = "none" /\ Last(u.values) # MAGICNUMBER
           q == IF invalid THEN [u EXCEPT !.error = "failure"] ELSE u
           w == WriteUInt(MAGICNUMBER)
           vs == <<MAGICNUMBER>>
<1>1. file \in Series /\ rdp.pos \in 1 .. FileEnd
  BY DEF Reads1
<1>2. Parse("magicnumber", q, rdp, "strings")
  BY DEF RuleMagicNumber
<1>3. Rest("magicnumber") = w \o Rest("strings") /\ Rest("strings") \in Series /\ w \in Series
  BY <1>1, Rests DEF Sections
<1>4. r \in Readings /\ MAGICNUMBER \in Value
  BY <1>1, StartsReading, ValueKinds
<1>5. Facing(r, w) => Reads(r, q, w, vs)
  <2> HIDE DEF r
  <2>1. Facing(r, w) => Reads(r, u, w, vs)
    BY <1>1, <1>4, ReadsBack
  <2> HIDE DEF u, w
  <2>2. Facing(r, w) => ~invalid
    BY <1>1, <1>4, <2>1, LastRead
  <2> QED
    BY <2>1, <2>2
<1>6. RuleOf("magicnumber", "strings", q, w, vs)
  BY <1>3, <1>5 DEF RuleOf, RulePhases, Sections
<1>7. Loads(rdp, rdp.const_pool, rdp.instructions, rdp.total_program_vars)
  BY DEF Reads1, RdpShape, Loads
<1> HIDE DEF r, q, w, vs
<1> QED
  BY <1>2, <1>6, <1>7, RuleKeeps

LEMMA NrProgramVarsRule ==
  ASSUME Reads1, IInv, RuleNrProgramVars
  PROVE  /\ Reads1'
         /\ Reaches("loaded", rdp.const_pool, rdp.instructions, TotalVars)
<1> DEFINE r == Reading(rdp.pos)
           q == UInt(r)
           total == Last(q.values)
           loaded == [rdp EXCEPT !.total_program_vars = total]
           w == WriteUInt(TotalVars)
           vs == <<TotalVars>>
<1>1. file \in Series /\ rdp.pos \in 1 .. FileEnd
  BY DEF Reads1
<1>2. Parse("nr_program_vars", q, loaded, "loaded")
  BY DEF RuleNrProgramVars
<1>3. Rest("nr_program_vars") = w \o Rest("loaded") /\ Rest("loaded") \in Series /\ w \in Series
  BY <1>1, Rests
<1>4. r \in Readings /\ TotalVars \in Value
  BY <1>1, StartsReading, ValueKinds, BinaryFileAssumption
<1>5. Facing(r, w) => Reads(r, q, w, vs)
  <2> HIDE DEF r
  <2> QED
    BY <1>1, <1>4, ReadsBack
<1>6. RuleOf("nr_program_vars", "loaded", q, w, vs)
  BY <1>3, <1>5 DEF RuleOf, RulePhases
<1>7. Loads(loaded, rdp.const_pool, rdp.instructions, total)
  BY DEF Reads1, RdpShape, Loads
<1>8. vs[Len(vs)] = TotalVars /\ total = Last(q.values)
  OBVIOUS
<1> HIDE DEF r, q, w, vs, total, loaded
<1>9. /\ Reads1' /\ Reaches("loaded", rdp.const_pool, rdp.instructions, total)
      /\ phase' = "loaded" => q.error = "none" /\ q.values = vs
  BY <1>2, <1>6, <1>7, RuleKeeps
<1>10. phase' = "loaded" => total = TotalVars
  BY <1>8, <1>9 DEF Last
<1> QED
  BY <1>9, <1>10 DEF Reaches

-----------------------------------------------------------------------------
(* The invariant of the file and its reader. *)
CodeLoaded ==
  /\ rdp.instructions \in {<< >>, vm_instructions}
  /\ phase \in {"nr_program_vars", "loaded"} => rdp.instructions = vm_instructions
  /\ rdp.total_program_vars \in {0, TotalVars}
  /\ phase = "loaded" => rdp.total_program_vars = TotalVars

FileInv == IInv /\ Reads1 /\ CodeLoaded

LEMMA InstructionKeepsFile ==
  ASSUME FileInv, NEW operands \in Shapes, GenerateInstruction(operands)
  PROVE  Reads1' /\ CodeLoaded'
<1>1. /\ phase = "generate" /\ phase' = "generate" /\ file' = file /\ rdp' = rdp
      /\ file = << >> /\ rdp = Reader /\ file \in Series /\ rdp.pos \in 1 .. FileEnd /\ RdpShape
  BY DEF GenerateInstruction, FileInv, Reads1
<1>2. FileEnd' = FileEnd
  BY <1>1 DEF FileEnd
<1>3. phase' \notin RulePhases /\ phase' # "loaded" /\ phase' # "failure"
  BY <1>1 DEF RulePhases, Sections
<1>4. Reads1'
  BY <1>1, <1>2, <1>3 DEF Reads1, RdpShape
<1>5. rdp'.instructions = << >> /\ rdp'.total_program_vars = 0
  BY <1>1 DEF Reader
<1>6. CodeLoaded'
  BY <1>1, <1>5 DEF CodeLoaded
<1> QED
  BY <1>4, <1>6

LEMMA BinaryFileWritten ==
  ASSUME FileInv, GenerateBinaryFile
  PROVE  Reads1' /\ CodeLoaded'
<1>1. /\ phase = "generate" /\ phase' = "magicnumber" /\ rdp' = rdp /\ rdp = Reader
      /\ file' \in Prefixes(BinaryFile) /\ file \in Series
      /\ const_pool' = const_pool /\ vm_instructions' = vm_instructions
  BY DEF GenerateBinaryFile, FileInv, Reads1
<1>2. /\ BinaryFile \in Series /\ BinaryFile = Rest("magicnumber")
  BY <1>1, Rests DEF FileInv
<1>3. BinaryFile' = BinaryFile /\ Rest("magicnumber")' = Rest("magicnumber")
  BY <1>1, OutputStays
<1>4. file' \in Series /\ PartlyWritten'
  BY <1>1, <1>2, <1>3, PartOf DEF PartlyWritten
<1>5. FileEnd' = Len(file') + 1
  BY DEF FileEnd
<1>6. rdp'.pos = 1 /\ rdp'.instructions = << >> /\ rdp'.total_program_vars = 0 /\ RdpShape'
  BY <1>1 DEF Reader, RdpShape
<1>7. ReadsFrom(rdp.pos, Rest("magicnumber"))'
  <2> DEFINE b == BinaryFile
             f == file'
  <2>1. b \in Series /\ f \in Prefixes(b)
    BY <1>1, <1>2
  <2>2. /\ Rest("magicnumber")' = b /\ BinaryFile' = b /\ FileEnd' = Len(f) + 1
    BY <1>2, <1>3, <1>5
  <2> HIDE DEF b, f
  <2>3. /\ 1 \in 1 .. Len(f) + 1
        /\ \A i \in 1 .. Len(b) : 1 + i - 1 < Len(f) + 1 => f[1 + i - 1] = b[i]
        /\ (1 - 1) + Len(b) = Len(b)
    BY <2>1, Begins
  <2>4. \A i \in 1 .. Len(b) : 1 + i - 1 < FileEnd' => file'[1 + i - 1] = b[i]
    BY <2>2, <2>3 DEF f
  <2> QED
    BY <1>6, <2>2, <2>3, <2>4 DEF ReadsFrom, Facing, Reading
<1>8. rdp'.pos \in 1 .. FileEnd'
  BY <1>7 DEF ReadsFrom
<1>9. Reads1'
  BY <1>1, <1>4, <1>6, <1>7, <1>8 DEF Reads1, RulePhases
<1>10. CodeLoaded'
  BY <1>1, <1>6 DEF CodeLoaded
<1> QED
  BY <1>9, <1>10

LEMMA CodeIsItself ==
  IInv => Lefts("code", vm_instructions) = vm_instructions
BY DEF IInv, Lefts, Left

LEMMA RulesKeep ==
  ASSUME FileInv, RuleBinaryFile
  PROVE  Reads1' /\ CodeLoaded'
<1>1. IInv /\ Reads1 /\ CodeLoaded
  BY DEF FileInv
<1>2. vm_instructions' = vm_instructions
  BY DEF RuleBinaryFile, RuleMagicNumber, RuleStrings, RuleNumbers, RuleUserfunctions,
         RuleLibfunctions, RuleConstants, RuleCode, RuleNrProgramVars, Parse
<1>3. ASSUME phase' = "failure", UNCHANGED rdp
      PROVE  CodeLoaded'
  BY <1>1, <1>2, <1>3 DEF CodeLoaded
<1>4. CASE RuleMagicNumber
  <2>1. Reads1' /\ Reaches("strings", rdp.const_pool, rdp.instructions, rdp.total_program_vars)
    BY <1>1, <1>4, MagicRule
  <2> QED
    BY <1>1, <1>2, <1>3, <2>1 DEF Reaches, CodeLoaded
<1>5. ASSUME NEW section \in ConstantSections, RuleConstants(section, Following(section))
      PROVE  Reads1' /\ CodeLoaded'
  <2> DEFINE pool == RegisterAll(section, Lefts(section, ArrayOf(section)))
  <2>1. Reads1' /\ Reaches(Following(section), pool, rdp.instructions, rdp.total_program_vars)
    BY <1>1, <1>5, ConstantsRule
  <2> HIDE DEF pool
  <2>2. Following(section) \notin {"nr_program_vars", "loaded"}
    BY DEF ConstantSections, Following
  <2> QED
    BY <1>1, <1>2, <1>3, <2>1, <2>2 DEF Reaches, CodeLoaded
<1>6. CASE RuleStrings \/ RuleNumbers \/ RuleUserfunctions \/ RuleLibfunctions
  <2>1. PICK section \in ConstantSections : RuleConstants(section, Following(section))
    BY <1>6 DEF RuleStrings, RuleNumbers, RuleUserfunctions, RuleLibfunctions, ConstantSections,
                Following
  <2> QED
    BY <1>5, <2>1
<1>7. CASE RuleCode
  <2>1. Reads1' /\ Reaches("nr_program_vars", rdp.const_pool, vm_instructions,
                           rdp.total_program_vars)
    BY <1>1, <1>7, CodeRule, CodeIsItself
  <2> QED
    BY <1>1, <1>2, <1>3, <2>1 DEF Reaches, CodeLoaded
<1>8. CASE RuleNrProgramVars
  <2>1. Reads1' /\ Reaches("loaded", rdp.const_pool, rdp.instructions, TotalVars)
    BY <1>1, <1>8, NrProgramVarsRule
  <2>2. phase = "nr_program_vars"
    BY <1>8 DEF RuleNrProgramVars, Parse
  <2> QED
    BY <1>1, <1>2, <1>3, <2>1, <2>2 DEF Reaches, CodeLoaded
<1> QED
  BY <1>4, <1>6, <1>7, <1>8 DEF RuleBinaryFile

LEMMA NothingRead ==
  ASSUME FileInv, UNCHANGED vars
  PROVE  Reads1' /\ CodeLoaded'
<1>1. /\ SameFile /\ phase' = phase /\ rdp' = rdp /\ file' = file
      /\ vm_instructions' = vm_instructions /\ Reads1 /\ CodeLoaded
  BY DEF vars, SameFile, FileInv
<1>2. /\ BinaryFile' = BinaryFile /\ FileEnd' = FileEnd /\ (PartlyWritten' <=> PartlyWritten)
      /\ \A p : Rest(p)' = Rest(p)
      /\ \A pos, w : ReadsFrom(pos, w)' <=> ReadsFrom(pos, w)
  BY <1>1, FileStays
<1>3. phase' \in RulePhases => ReadsFrom(rdp.pos, Rest(phase))'
  <2> DEFINE x == Rest(phase)
  <2>1. x' = x
    BY <1>1, OutputStays DEF SameFile
  <2> HIDE DEF x
  <2>2. ReadsFrom(rdp.pos, x)' <=> ReadsFrom(rdp.pos, x)
    BY <1>1, <1>2, <2>1 DEF ReadsFrom, Facing, Reading
  <2> QED
    BY <1>1, <2>2 DEF Reads1, x
<1>4. Reads1'
  BY <1>1, <1>2, <1>3 DEF Reads1, RdpShape
<1>5. CodeLoaded'
  BY <1>1 DEF CodeLoaded
<1> QED
  BY <1>4, <1>5

LEMMA FileKept ==
  ASSUME FileInv, [Next]_vars
  PROVE  FileInv'
<1>1. IInv'
  BY NextKeeps DEF FileInv
<1>2. Reads1' /\ CodeLoaded'
  BY InstructionKeepsFile, BinaryFileWritten, RulesKeep, NothingRead DEF Next, Generator
<1> QED
  BY <1>1, <1>2 DEF FileInv

LEMMA FileStarts == Init => FileInv
<1> SUFFICES ASSUME Init PROVE Reads1 /\ CodeLoaded
  BY InitHolds DEF FileInv
<1>1. file = << >> /\ rdp = Reader /\ phase = "generate"
  BY DEF Init
<1>2. file \in Series /\ Len(file) = 0
  BY <1>1, EmptySeq DEF Series
<1>3. rdp.pos \in 1 .. FileEnd
  BY <1>1, <1>2 DEF Reader, FileEnd
<1>4. phase \notin RulePhases /\ phase # "loaded" /\ phase # "failure"
  BY <1>1 DEF RulePhases, Sections
<1>5. Reads1
  BY <1>1, <1>2, <1>3, <1>4 DEF Reads1, RdpShape, Reader
<1>6. CodeLoaded
  BY <1>1 DEF CodeLoaded, Reader
<1> QED
  BY <1>5, <1>6

-----------------------------------------------------------------------------
(* The pool that the reader registers what it read in.  If h follows what  *)
(* registering one value after the other does, RegisterAll ends where h    *)
(* does.                                                                   *)
RegistersEach(section, values, h) ==
  /\ h = [i \in 0 .. Len(values) |-> h[i]] /\ h[0] = rdp.const_pool
  /\ \A i \in 0 .. Len(values) - 1 : h[i + 1] = RegisterOne(section, h[i], values[i + 1]).pool

LEMMA RegistersAll ==
  ASSUME NEW section, NEW values, Len(values) \in Nat, NEW h, RegistersEach(section, values, h)
  PROVE  RegisterAll(section, values) = h[Len(values)]
<1> DEFINE N == Len(values)
<1>0. /\ N \in Nat /\ h = [i \in 0 .. N |-> h[i]] /\ h[0] = rdp.const_pool
      /\ \A i \in 0 .. N - 1 : h[i + 1] = RegisterOne(section, h[i], values[i + 1]).pool
  BY DEF RegistersEach
<1> DEFINE More(p, i) == RegisterOne(section, p, values[i]).pool
           P(c) == c = [i \in 0 .. N |-> IF i = 0 THEN rdp.const_pool ELSE More(c[i - 1], i)]
           pools == CHOOSE c : P(c)
<1>1. RegisterAll(section, values) = pools[N]
  BY DEF RegisterAll
<1> HIDE DEF N
<1>2. P(h)
  <2>1. ASSUME NEW i \in 0 .. N
        PROVE  h[i] = IF i = 0 THEN rdp.const_pool ELSE More(h[i - 1], i)
    <3>1. CASE i = 0
      BY <1>0, <3>1
    <3>2. CASE i # 0
      <4>1. i - 1 \in 0 .. N - 1 /\ (i - 1) + 1 = i
        BY <1>0, <3>2
      <4>2. h[(i - 1) + 1] = More(h[i - 1], (i - 1) + 1)
        BY <1>0, <4>1
      <4> HIDE DEF More
      <4> QED
        BY <3>2, <4>1, <4>2
    <3> QED
      BY <3>1, <3>2
  <2> HIDE DEF More
  <2> QED
    BY <1>0, <2>1
<1>3. P(pools)
  <2> HIDE DEF P
  <2> QED
    BY <1>2
<1>4. \A i \in 0 .. N : pools[i] = IF i = 0 THEN rdp.const_pool ELSE More(pools[i - 1], i)
  <2> HIDE DEF More
  <2>1. pools = [i \in 0 .. N |-> IF i = 0 THEN rdp.const_pool ELSE More(pools[i - 1], i)]
    BY <1>3
  <2> HIDE DEF pools
  <2> QED
    BY ONLY <2>1
<1> HIDE DEF P, pools
<1> DEFINE Same == {n \in Nat : n <= N => pools[n] = h[n]}
<1>5. 0 \in Same
  BY <1>0, <1>4
<1>6. ASSUME NEW n \in Nat, n \in Same
      PROVE  n + 1 \in Same
  <2>1. SUFFICES ASSUME n + 1 <= N PROVE pools[n + 1] = h[n + 1]
    OBVIOUS
  <2>2. n + 1 \in 0 .. N /\ n + 1 # 0 /\ (n + 1) - 1 = n /\ pools[n] = h[n] /\ n \in 0 .. N - 1
    BY <1>0, <1>6, <2>1
  <2>3. h[n + 1] = More(h[n], n + 1)
    BY <1>0, <2>2
  <2> HIDE DEF More
  <2>4. pools[n + 1] = More(pools[n], n + 1)
    BY <1>4, <2>2
  <2> QED
    BY <2>2, <2>3, <2>4
<1>7. Nat \subseteq Same
  <2> HIDE DEF Same
  <2> QED
    BY <1>5, <1>6, SetInduction
<1> QED
  BY <1>0, <1>1, <1>7 DEF N

(* A value that none of an array's items equals is appended. *)
LEMMA RegisterNew ==
  ASSUME NEW array, NEW value
  PROVE  /\ (\A i \in 1 .. Len(array) : ~EqualStrings(array[i], value))
              => Register(array, value, EqualStrings) = Registered(Append(array, value), Len(array))
         /\ (\A i \in 1 .. Len(array) : ~EqualNumbers(array[i], value))
              => Register(array, value, EqualNumbers) = Registered(Append(array, value), Len(array))
         /\ (\A i \in 1 .. Len(array) : ~EqualUserfuncs(array[i], value))
              => Register(array, value, EqualUserfuncs)
                   = Registered(Append(array, value), Len(array))
<1>1. ASSUME \A i \in 1 .. Len(array) : ~EqualStrings(array[i], value)
      PROVE  Register(array, value, EqualStrings) = Registered(Append(array, value), Len(array))
  <2>1. {i \in 1 .. Len(array) : EqualStrings(array[i], value)} = {}
    BY <1>1
  <2> QED
    BY <2>1 DEF Register, SelectInSeq
<1>2. ASSUME \A i \in 1 .. Len(array) : ~EqualNumbers(array[i], value)
      PROVE  Register(array, value, EqualNumbers) = Registered(Append(array, value), Len(array))
  <2>1. {i \in 1 .. Len(array) : EqualNumbers(array[i], value)} = {}
    BY <1>2
  <2> QED
    BY <2>1 DEF Register, SelectInSeq
<1>3. ASSUME \A i \in 1 .. Len(array) : ~EqualUserfuncs(array[i], value)
      PROVE  Register(array, value, EqualUserfuncs) = Registered(Append(array, value), Len(array))
  <2>1. {i \in 1 .. Len(array) : EqualUserfuncs(array[i], value)} = {}
    BY <1>3
  <2> QED
    BY <2>1 DEF Register, SelectInSeq
<1> QED
  BY <1>1, <1>2, <1>3

PoolOf(numbers, strings, libfuncs, userfuncs, links) ==
  [numbers |-> numbers, strings |-> strings, libfuncs |-> libfuncs, userfuncs |-> userfuncs,
   addr_to_userfuncs |-> links]

(* What registering one value does to a pool. *)
StringIn(array, value)   == Register(array, value, EqualStrings)
NumberIn(array, value)   == Register(array, value, EqualNumbers)
UserfuncIn(array, value) == Register(array, value, EqualUserfuncs)

Becomes(pool, section, value, larger) == RegisterOne(section, pool, value).pool = larger

LEMMA OneString ==
  ASSUME NEW n, NEW s, NEW l, NEW u, NEW a, NEW v
  PROVE  Becomes(PoolOf(n, s, l, u, a), "strings", v,
                 PoolOf(n, StringIn(s, v).array, l, u, a))
<1> DEFINE p == PoolOf(n, s, l, u, a)
           r == StringIn(s, v)
           q == [p EXCEPT !.strings = r.array]
<1>1. p = [numbers |-> n, strings |-> s, libfuncs |-> l, userfuncs |-> u, addr_to_userfuncs |-> a]
      /\ p.strings = s
  BY DEF PoolOf
<1> HIDE DEF p
<1>2. RegisterOne("strings", p, v) = RegisterString(p, v)
  BY DEF RegisterOne
<1>3. RegisterString(p, v) = [pool |-> q, key |-> r.key]
  BY <1>1 DEF RegisterString, StringIn
<1> HIDE DEF r
<1>4. q = PoolOf(n, r.array, l, u, a)
  BY <1>1 DEF PoolOf
<1> HIDE DEF q
<1> QED
  BY <1>2, <1>3, <1>4 DEF p, r, Becomes

LEMMA OneNumber ==
  ASSUME NEW n, NEW s, NEW l, NEW u, NEW a, NEW v
  PROVE  Becomes(PoolOf(n, s, l, u, a), "numbers", v,
                 PoolOf(NumberIn(n, v).array, s, l, u, a))
<1> DEFINE p == PoolOf(n, s, l, u, a)
           r == NumberIn(n, v)
           q == [p EXCEPT !.numbers = r.array]
<1>1. p = [numbers |-> n, strings |-> s, libfuncs |-> l, userfuncs |-> u, addr_to_userfuncs |-> a]
      /\ p.numbers = n
  BY DEF PoolOf
<1> HIDE DEF p
<1>2. RegisterOne("numbers", p, v) = RegisterNumber(p, v)
  BY DEF RegisterOne
<1>3. RegisterNumber(p, v) = [pool |-> q, key |-> r.key]
  BY <1>1 DEF RegisterNumber, NumberIn
<1> HIDE DEF r
<1>4. q = PoolOf(r.array, s, l, u, a)
  BY <1>1 DEF PoolOf
<1> HIDE DEF q
<1> QED
  BY <1>2, <1>3, <1>4 DEF p, r, Becomes

LEMMA OneLibfunc ==
  ASSUME NEW n, NEW s, NEW l, NEW u, NEW a, NEW v
  PROVE  Becomes(PoolOf(n, s, l, u, a), "libfunctions", v,
                 PoolOf(n, s, StringIn(l, v).array, u, a))
<1> DEFINE p == PoolOf(n, s, l, u, a)
           r == StringIn(l, v)
           q == [p EXCEPT !.libfuncs = r.array]
<1>1. p = [numbers |-> n, strings |-> s, libfuncs |-> l, userfuncs |-> u, addr_to_userfuncs |-> a]
      /\ p.libfuncs = l
  BY DEF PoolOf
<1> HIDE DEF p
<1>2. RegisterOne("libfunctions", p, v) = RegisterLibfunc(p, v)
  BY DEF RegisterOne
<1>3. RegisterLibfunc(p, v) = [pool |-> q, key |-> r.key]
  BY <1>1 DEF RegisterLibfunc, StringIn
<1> HIDE DEF r
<1>4. q = PoolOf(n, s, r.array, u, a)
  BY <1>1 DEF PoolOf
<1> HIDE DEF q
<1> QED
  BY <1>2, <1>3, <1>4 DEF p, r, Becomes

LEMMA OneUserfunc ==
  ASSUME NEW n, NEW s, NEW l, NEW u, NEW a, NEW v, NEW b,
         b = [address \in DOMAIN a \cup {v.address} |->
                IF address = v.address THEN UserfuncIn(u, v).key ELSE a[address]]
  PROVE  Becomes(PoolOf(n, s, l, u, a), "userfunctions", v,
                 PoolOf(n, s, l, UserfuncIn(u, v).array, b))
<1> DEFINE p == PoolOf(n, s, l, u, a)
           r == UserfuncIn(u, v)
           o == [p EXCEPT !.userfuncs = r.array]
           q == [o EXCEPT !.addr_to_userfuncs = b]
<1>1. /\ p = [numbers |-> n, strings |-> s, libfuncs |-> l, userfuncs |-> u,
              addr_to_userfuncs |-> a]
      /\ p.userfuncs = u /\ p.addr_to_userfuncs = a
  BY DEF PoolOf
<1> HIDE DEF p
<1>2. RegisterOne("userfunctions", p, v) = RegisterUserfunc(p, v)
  BY DEF RegisterOne
<1>3. RegisterUserfunc(p, v) = [pool |-> q, key |-> r.key]
  BY <1>1 DEF RegisterUserfunc, UserfuncIn
<1> HIDE DEF r
<1>4. o = [numbers |-> n, strings |-> s, libfuncs |-> l, userfuncs |-> r.array,
           addr_to_userfuncs |-> a]
  BY <1>1
<1> HIDE DEF o
<1>5. q = PoolOf(n, s, l, r.array, b)
  BY <1>4 DEF PoolOf
<1> HIDE DEF q
<1> QED
  BY <1>2, <1>3, <1>5 DEF p, r, Becomes

LEMMA StringsRegistered ==
  ASSUME NEW S, NEW values \in Seq(S), EachOnce(values),
         NEW n, NEW l, NEW u, NEW a, rdp.const_pool = PoolOf(n, << >>, l, u, a)
  PROVE  RegisterAll("strings", values) = PoolOf(n, values, l, u, a)
<1> DEFINE N == Len(values)
           h == [i \in 0 .. N |-> PoolOf(n, FirstOf(values, i), l, u, a)]
<1>1. /\ N \in Nat /\ h = [i \in 0 .. N |-> h[i]]
      /\ h[0] = rdp.const_pool /\ h[N] = PoolOf(n, values, l, u, a)
  BY AllFirst
<1>2. ASSUME NEW i \in 0 .. N - 1
      PROVE  h[i + 1] = RegisterOne("strings", h[i], values[i + 1]).pool
  <2> DEFINE f == FirstOf(values, i)
             v == values[i + 1]
             p == PoolOf(n, f, l, u, a)
  <2>1. /\ i \in 0 .. N /\ i + 1 \in 0 .. N /\ h[i] = p
        /\ h[i + 1] = PoolOf(n, FirstOf(values, i + 1), l, u, a)
    BY <1>1
  <2>2. Len(f) = i /\ FirstOf(values, i + 1) = Append(f, v)
    BY OneMoreFirst
  <2>3. \A j \in 1 .. Len(f) : ~EqualStrings(f[j], v)
    BY <2>2, OneMoreFirst DEF EachOnce, EqualStrings
  <2> HIDE DEF f, v, h
  <2>4. StringIn(f, v) = Registered(Append(f, v), Len(f))
    BY <2>3, RegisterNew DEF StringIn, NumberIn
  <2>5. RegisterOne("strings", p, v).pool = PoolOf(n, Append(f, v), l, u, a)
    <3>1. Becomes(p, "strings", v, PoolOf(n, StringIn(f, v).array, l, u, a))
      BY OneString, Zenon
    <3>2. StringIn(f, v).array = Append(f, v)
      BY <2>4 DEF Registered
    <3> QED
      BY <3>1, <3>2 DEF Becomes
  <2> HIDE DEF p
  <2> QED
    BY <2>1, <2>2, <2>5 DEF v
<1>3. RegistersEach("strings", values, h)
  <2> HIDE DEF h
  <2> QED
    BY <1>1, <1>2 DEF RegistersEach
<1> HIDE DEF h
<1> QED
  BY <1>1, <1>3, RegistersAll

LEMMA NumbersRegistered ==
  ASSUME NEW S, NEW values \in Seq(S), NumbersOnce(values),
         NEW s, NEW l, NEW u, NEW a, rdp.const_pool = PoolOf(<< >>, s, l, u, a)
  PROVE  RegisterAll("numbers", values) = PoolOf(values, s, l, u, a)
<1> DEFINE N == Len(values)
           h == [i \in 0 .. N |-> PoolOf(FirstOf(values, i), s, l, u, a)]
<1>1. /\ N \in Nat /\ h = [i \in 0 .. N |-> h[i]]
      /\ h[0] = rdp.const_pool /\ h[N] = PoolOf(values, s, l, u, a)
  BY AllFirst
<1>2. ASSUME NEW i \in 0 .. N - 1
      PROVE  h[i + 1] = RegisterOne("numbers", h[i], values[i + 1]).pool
  <2> DEFINE f == FirstOf(values, i)
             v == values[i + 1]
             p == PoolOf(f, s, l, u, a)
  <2>1. /\ i \in 0 .. N /\ i + 1 \in 0 .. N /\ h[i] = p
        /\ h[i + 1] = PoolOf(FirstOf(values, i + 1), s, l, u, a)
    BY <1>1
  <2>2. Len(f) = i /\ FirstOf(values, i + 1) = Append(f, v)
    BY OneMoreFirst
  <2>3. \A j \in 1 .. Len(f) : ~EqualNumbers(f[j], v)
    BY <2>2, OneMoreFirst DEF NumbersOnce
  <2> HIDE DEF f, v, h
  <2>4. NumberIn(f, v) = Registered(Append(f, v), Len(f))
    BY <2>3, RegisterNew DEF StringIn, NumberIn
  <2>5. RegisterOne("numbers", p, v).pool = PoolOf(Append(f, v), s, l, u, a)
    <3>1. Becomes(p, "numbers", v, PoolOf(NumberIn(f, v).array, s, l, u, a))
      BY OneNumber, Zenon
    <3>2. NumberIn(f, v).array = Append(f, v)
      BY <2>4 DEF Registered
    <3> QED
      BY <3>1, <3>2 DEF Becomes
  <2> HIDE DEF p
  <2> QED
    BY <2>1, <2>2, <2>5 DEF v
<1>3. RegistersEach("numbers", values, h)
  <2> HIDE DEF h
  <2> QED
    BY <1>1, <1>2 DEF RegistersEach
<1> HIDE DEF h
<1> QED
  BY <1>1, <1>3, RegistersAll

LEMMA LibfuncsRegistered ==
  ASSUME NEW S, NEW values \in Seq(S), EachOnce(values),
         NEW n, NEW s, NEW u, NEW a, rdp.const_pool = PoolOf(n, s, << >>, u, a)
  PROVE  RegisterAll("libfunctions", values) = PoolOf(n, s, values, u, a)
<1> DEFINE N == Len(values)
           h == [i \in 0 .. N |-> PoolOf(n, s, FirstOf(values, i), u, a)]
<1>1. /\ N \in Nat /\ h = [i \in 0 .. N |-> h[i]]
      /\ h[0] = rdp.const_pool /\ h[N] = PoolOf(n, s, values, u, a)
  BY AllFirst
<1>2. ASSUME NEW i \in 0 .. N - 1
      PROVE  h[i + 1] = RegisterOne("libfunctions", h[i], values[i + 1]).pool
  <2> DEFINE f == FirstOf(values, i)
             v == values[i + 1]
             p == PoolOf(n, s, f, u, a)
  <2>1. /\ i \in 0 .. N /\ i + 1 \in 0 .. N /\ h[i] = p
        /\ h[i + 1] = PoolOf(n, s, FirstOf(values, i + 1), u, a)
    BY <1>1
  <2>2. Len(f) = i /\ FirstOf(values, i + 1) = Append(f, v)
    BY OneMoreFirst
  <2>3. \A j \in 1 .. Len(f) : ~EqualStrings(f[j], v)
    BY <2>2, OneMoreFirst DEF EachOnce, EqualStrings
  <2> HIDE DEF f, v, h
  <2>4. StringIn(f, v) = Registered(Append(f, v), Len(f))
    BY <2>3, RegisterNew DEF StringIn, NumberIn
  <2>5. RegisterOne("libfunctions", p, v).pool = PoolOf(n, s, Append(f, v), u, a)
    <3>1. Becomes(p, "libfunctions", v, PoolOf(n, s, StringIn(f, v).array, u, a))
      BY OneLibfunc, Zenon
    <3>2. StringIn(f, v).array = Append(f, v)
      BY <2>4 DEF Registered
    <3> QED
      BY <3>1, <3>2 DEF Becomes
  <2> HIDE DEF p
  <2> QED
    BY <2>1, <2>2, <2>5 DEF v
<1>3. RegistersEach("libfunctions", values, h)
  <2> HIDE DEF h
  <2> QED
    BY <1>1, <1>2 DEF RegistersEach
<1> HIDE DEF h
<1> QED
  BY <1>1, <1>3, RegistersAll

(* The keys of the addresses of the first n functions. *)
Addresses(values, n) == {values[j].address : j \in 1 .. n}
PositionOf(values, address) == CHOOSE j \in 1 .. Len(values) : values[j].address = address
Links(values, n) == [address \in Addresses(values, n) |-> PositionOf(values, address) - 1]

LEMMA Positions ==
  ASSUME NEW values, Len(values) \in Nat, AddressesOnce(values), NEW j \in 1 .. Len(values)
  PROVE  PositionOf(values, values[j].address) = j
<1> DEFINE k == PositionOf(values, values[j].address)
<1>1. k \in 1 .. Len(values) /\ values[k].address = values[j].address
  BY DEF PositionOf
<1> HIDE DEF k
<1>2. ~(k < j) /\ ~(j < k)
  BY <1>1 DEF AddressesOnce
<1>3. k = j
  BY <1>1, <1>2
<1> QED
  BY <1>3 DEF k

LEMMA UserfuncsRegistered ==
  ASSUME NEW S, NEW values \in Seq(S), AddressesOnce(values),
         NEW n, NEW s, NEW l, rdp.const_pool = PoolOf(n, s, l, << >>, << >>)
  PROVE  RegisterAll("userfunctions", values) = PoolOf(n, s, l, values, Links(values, Len(values)))
<1> DEFINE N == Len(values)
           h == [i \in 0 .. N |-> PoolOf(n, s, l, FirstOf(values, i), Links(values, i))]
<1>1. Links(values, 0) = << >>
  <2>1. Addresses(values, 0) = {}
    BY DEF Addresses
  <2> QED
    BY <2>1 DEF Links
<1>2. /\ N \in Nat /\ h = [i \in 0 .. N |-> h[i]]
      /\ h[0] = rdp.const_pool /\ h[N] = PoolOf(n, s, l, values, Links(values, N))
  BY <1>1, AllFirst
<1>3. ASSUME NEW i \in 0 .. N - 1
      PROVE  h[i + 1] = RegisterOne("userfunctions", h[i], values[i + 1]).pool
  <2> DEFINE f == FirstOf(values, i)
             v == values[i + 1]
             a == Links(values, i)
             b == Links(values, i + 1)
             p == PoolOf(n, s, l, f, a)
  <2>1. /\ i \in 0 .. N /\ i + 1 \in 0 .. N /\ h[i] = p
        /\ h[i + 1] = PoolOf(n, s, l, FirstOf(values, i + 1), b)
    BY <1>2
  <2>2. Len(f) = i /\ FirstOf(values, i + 1) = Append(f, v)
    BY OneMoreFirst
  <2>3. \A j \in 1 .. Len(f) : ~EqualUserfuncs(f[j], v)
    BY <2>2, OneMoreFirst DEF AddressesOnce, EqualUserfuncs
  <2>4. b = [address \in DOMAIN a \cup {v.address} |-> IF address = v.address THEN i ELSE a[address]]
    <3>1. i \in Nat /\ i + 1 \in 1 .. N /\ (i + 1) - 1 = i
      BY <1>2
    <3>2. PositionOf(values, v.address) = i + 1
      BY <1>2, <3>1, Positions
    <3>3. Addresses(values, i + 1) = Addresses(values, i) \cup {v.address}
      <4>1. 1 .. i + 1 = 1 .. i \cup {i + 1}
        BY <3>1
      <4> QED
        BY <4>1 DEF Addresses
    <3>4. DOMAIN a = Addresses(values, i)
      BY DEF Links
    <3>5. ASSUME NEW address \in Addresses(values, i + 1)
          PROVE  b[address] = IF address = v.address THEN i ELSE a[address]
      BY <3>1, <3>2, <3>3 DEF Links
    <3>6. b = [address \in Addresses(values, i + 1) |-> b[address]]
      BY DEF Links
    <3> HIDE DEF a, b, v
    <3> QED
      BY <3>3, <3>4, <3>5, <3>6
  <2> HIDE DEF f, v, h, a, b
  <2>5. UserfuncIn(f, v) = Registered(Append(f, v), i)
    BY <2>2, <2>3, RegisterNew DEF UserfuncIn
  <2>6. RegisterOne("userfunctions", p, v).pool = PoolOf(n, s, l, Append(f, v), b)
    <3>1. /\ UserfuncIn(f, v).array = Append(f, v)
          /\ UserfuncIn(f, v).key = i
      BY <2>5 DEF Registered
    <3>2. b = [address \in DOMAIN a \cup {v.address} |->
                 IF address = v.address THEN UserfuncIn(f, v).key ELSE a[address]]
      BY <2>4, <3>1
    <3>3. Becomes(p, "userfunctions", v, PoolOf(n, s, l, UserfuncIn(f, v).array, b))
      BY <3>2, OneUserfunc, Zenon
    <3> QED
      BY <3>1, <3>3 DEF Becomes
  <2> HIDE DEF p
  <2> QED
    BY <2>1, <2>2, <2>6 DEF v
<1>4. RegistersEach("userfunctions", values, h)
  <2> HIDE DEF h
  <2> QED
    BY <1>2, <1>3 DEF RegistersEach
<1> HIDE DEF h
<1> QED
  BY <1>2, <1>4, RegistersAll

-----------------------------------------------------------------------------
(* The reader's pool while it is read: if no two strings become equal by   *)
(* being cut, it is the generator's, section by section.                   *)
CutsDiffer ==
  \A s, t \in ToSet(const_pool.strings) : UpToNul[s] = UpToNul[t] => s = t

CutStrings == Lefts("strings", const_pool.strings)
AllLinks   == Links(const_pool.userfuncs, Len(const_pool.userfuncs))

ReadPool(p) ==
  CASE p \in {"generate", "magicnumber", "strings"} ->
         PoolOf(<< >>, << >>, << >>, << >>, << >>)
    [] p = "numbers" -> PoolOf(<< >>, CutStrings, << >>, << >>, << >>)
    [] p = "userfunctions" -> PoolOf(const_pool.numbers, CutStrings, << >>, << >>, << >>)
    [] p = "libfunctions" ->
         PoolOf(const_pool.numbers, CutStrings, << >>, const_pool.userfuncs, AllLinks)
    [] p \in {"code", "nr_program_vars", "loaded"} ->
         PoolOf(const_pool.numbers, CutStrings, const_pool.libfuncs, const_pool.userfuncs, AllLinks)

PoolRead == CutsDiffer /\ phase # "failure" => rdp.const_pool = ReadPool(phase)

LEMMA ReadArrays ==
  ASSUME IInv
  PROVE  /\ const_pool.numbers \in Seq(Numbers) /\ NumbersOnce(const_pool.numbers)
         /\ Lefts("numbers", const_pool.numbers) = const_pool.numbers
         /\ const_pool.libfuncs \in Seq(LibFuncs) /\ EachOnce(const_pool.libfuncs)
         /\ Lefts("libfunctions", const_pool.libfuncs) = const_pool.libfuncs
         /\ const_pool.userfuncs \in Seq(Userfuncs) /\ AddressesOnce(const_pool.userfuncs)
         /\ Lefts("userfunctions", const_pool.userfuncs) = const_pool.userfuncs
         /\ CutStrings \in Seq(Names) /\ Len(CutStrings) = Len(const_pool.strings)
         /\ \A i \in 1 .. Len(const_pool.strings) :
              const_pool.strings[i] \in Names /\ CutStrings[i] = UpToNul[const_pool.strings[i]]
         /\ CutsDiffer => EachOnce(CutStrings)
<1> DEFINE a == const_pool.strings
           c == CutStrings
<1>1. /\ const_pool.numbers \in Seq(Numbers) /\ const_pool.libfuncs \in Seq(LibFuncs)
      /\ const_pool.userfuncs \in Seq(Userfuncs) /\ a \in Seq(Strings)
      /\ NumbersOnce(const_pool.numbers) /\ EachOnce(const_pool.libfuncs)
      /\ AddressesOnce(const_pool.userfuncs) /\ EachOnce(a)
  BY DEF IInv, Pool, AllOnce
<1>2. ASSUME NEW S, NEW x \in Seq(S), NEW section, section # "strings"
      PROVE  Lefts(section, x) = x
  BY <1>2 DEF Lefts, Left
<1>3. /\ Lefts("numbers", const_pool.numbers) = const_pool.numbers
      /\ Lefts("libfunctions", const_pool.libfuncs) = const_pool.libfuncs
      /\ Lefts("userfunctions", const_pool.userfuncs) = const_pool.userfuncs
  BY <1>1, <1>2
<1>4. Len(a) \in Nat /\ DOMAIN a = 1 .. Len(a) /\ \A i \in 1 .. Len(a) : a[i] \in Strings
  BY <1>1, LenProperties, ElementOfSeq
<1>5. c = [i \in 1 .. Len(a) |-> UpToNul[a[i]]]
  BY <1>4 DEF Lefts, Left, CutStrings
<1> HIDE DEF c
<1>6. \A i \in 1 .. Len(a) : a[i] \in Names /\ UpToNul[a[i]] \in Names /\ c[i] = UpToNul[a[i]]
  BY <1>4, <1>5, BinaryFileAssumption DEF Names
<1>7. c \in Seq(Names) /\ Len(c) = Len(a)
  BY <1>4, <1>5, <1>6
<1>8. ASSUME CutsDiffer
      PROVE  EachOnce(c)
  <2>1. ASSUME NEW i \in 1 .. Len(a), NEW j \in 1 .. Len(a), i < j
        PROVE  c[i] # c[j]
    <3>1. a[i] # a[j]
      BY <1>1, <2>1 DEF EachOnce
    <3>2. a[i] \in ToSet(a) /\ a[j] \in ToSet(a)
      BY <1>4 DEF ToSet
    <3>3. UpToNul[a[i]] # UpToNul[a[j]]
      BY <1>8, <3>1, <3>2 DEF CutsDiffer
    <3> QED
      BY <1>6, <3>3
  <2> HIDE DEF a
  <2> QED
    BY <1>7, <2>1 DEF EachOnce
<1> QED
  BY <1>1, <1>3, <1>6, <1>7, <1>8 DEF c

LEMMA PoolStays ==
  ASSUME const_pool' = const_pool
  PROVE  (CutsDiffer' <=> CutsDiffer) /\ \A p : ReadPool(p)' = ReadPool(p)
BY DEF CutsDiffer, ReadPool, CutStrings, AllLinks

LEMMA RulesReadPool ==
  ASSUME FileInv, PoolRead, RuleBinaryFile
  PROVE  PoolRead'
<1>1. IInv /\ Reads1
  BY DEF FileInv
<1>2. const_pool' = const_pool
  BY DEF RuleBinaryFile, RuleMagicNumber, RuleStrings, RuleNumbers, RuleUserfunctions,
         RuleLibfunctions, RuleConstants, RuleCode, RuleNrProgramVars, Parse
<1>3. SUFFICES ASSUME CutsDiffer, phase' # "failure" PROVE rdp'.const_pool = ReadPool(phase')
  BY <1>2, PoolStays DEF PoolRead
<1>4. /\ phase # "failure" => rdp.const_pool = ReadPool(phase)
      /\ EachOnce(CutStrings) /\ CutStrings \in Seq(Names)
  BY <1>1, <1>3, ReadArrays DEF PoolRead
<1>5. CASE RuleMagicNumber
  <2>1. Reaches("strings", rdp.const_pool, rdp.instructions, rdp.total_program_vars)
    BY <1>1, <1>5, MagicRule
  <2>2. phase = "magicnumber"
    BY <1>5 DEF RuleMagicNumber, Parse
  <2> QED
    BY <1>3, <1>4, <2>1, <2>2 DEF Reaches, ReadPool
<1>6. CASE RuleStrings
  <2> DEFINE pool == PoolOf(<< >>, CutStrings, << >>, << >>, << >>)
  <2>1. phase = "strings"
    BY <1>6 DEF RuleStrings, RuleConstants, Parse
  <2>2. RegisterAll("strings", CutStrings) = pool
    BY <1>4, <2>1, StringsRegistered DEF ReadPool
  <2>3. Reaches("numbers", RegisterAll("strings", CutStrings), rdp.instructions,
                rdp.total_program_vars)
    BY <1>1, <1>6, ConstantsRule DEF RuleStrings, ConstantSections, Following, ArrayOf, CutStrings
  <2>4. ReadPool("numbers") = pool
    BY DEF ReadPool
  <2> HIDE DEF pool
  <2> QED
    BY <1>3, <2>2, <2>3, <2>4 DEF Reaches
<1>7. CASE RuleNumbers
  <2> DEFINE array == const_pool.numbers
             pool  == PoolOf(array, CutStrings, << >>, << >>, << >>)
  <2>1. phase = "numbers"
    BY <1>7 DEF RuleNumbers, RuleConstants, Parse
  <2>2. array \in Seq(Numbers) /\ NumbersOnce(array) /\ Lefts("numbers", array) = array
    BY <1>1, ReadArrays
  <2>3. RegisterAll("numbers", array) = pool
    <3>1. rdp.const_pool = PoolOf(<< >>, CutStrings, << >>, << >>, << >>)
      BY <1>4, <2>1 DEF ReadPool
    <3> QED
      BY <2>2, <3>1, NumbersRegistered
  <2>4. Reaches("userfunctions", RegisterAll("numbers", array), rdp.instructions,
                rdp.total_program_vars)
    BY <1>1, <1>7, <2>2, ConstantsRule DEF RuleNumbers, ConstantSections, Following, ArrayOf
  <2>5. ReadPool("userfunctions") = pool
    BY DEF ReadPool
  <2> HIDE DEF pool
  <2> QED
    BY <1>3, <2>3, <2>4, <2>5 DEF Reaches
<1>8. CASE RuleUserfunctions
  <2> DEFINE array == const_pool.userfuncs
             pool  == PoolOf(const_pool.numbers, CutStrings, << >>, array, AllLinks)
  <2>1. phase = "userfunctions"
    BY <1>8 DEF RuleUserfunctions, RuleConstants, Parse
  <2>2. /\ array \in Seq(Userfuncs) /\ AddressesOnce(array)
        /\ Lefts("userfunctions", array) = array
    BY <1>1, ReadArrays
  <2>3. RegisterAll("userfunctions", array) = pool
    <3>1. rdp.const_pool = PoolOf(const_pool.numbers, CutStrings, << >>, << >>, << >>)
      BY <1>4, <2>1 DEF ReadPool
    <3> QED
      BY <2>2, <3>1, UserfuncsRegistered DEF AllLinks
  <2>4. Reaches("libfunctions", RegisterAll("userfunctions", array), rdp.instructions,
                rdp.total_program_vars)
    BY <1>1, <1>8, <2>2, ConstantsRule DEF RuleUserfunctions, ConstantSections, Following, ArrayOf
  <2>5. ReadPool("libfunctions") = pool
    BY DEF ReadPool
  <2> HIDE DEF pool
  <2> QED
    BY <1>3, <2>3, <2>4, <2>5 DEF Reaches
<1>9. CASE RuleLibfunctions
  <2> DEFINE array == const_pool.libfuncs
             pool  == PoolOf(const_pool.numbers, CutStrings, array, const_pool.userfuncs, AllLinks)
  <2>1. phase = "libfunctions"
    BY <1>9 DEF RuleLibfunctions, RuleConstants, Parse
  <2>2. array \in Seq(LibFuncs) /\ EachOnce(array) /\ Lefts("libfunctions", array) = array
    BY <1>1, ReadArrays
  <2>3. RegisterAll("libfunctions", array) = pool
    <3>1. rdp.const_pool = PoolOf(const_pool.numbers, CutStrings, << >>, const_pool.userfuncs, AllLinks)
      BY <1>4, <2>1 DEF ReadPool
    <3> QED
      BY <2>2, <3>1, LibfuncsRegistered
  <2>4. Reaches("code", RegisterAll("libfunctions", array), rdp.instructions,
                rdp.total_program_vars)
    BY <1>1, <1>9, <2>2, ConstantsRule DEF RuleLibfunctions, ConstantSections, Following, ArrayOf
  <2>5. ReadPool("code") = pool
    BY DEF ReadPool
  <2> HIDE DEF pool
  <2> QED
    BY <1>3, <2>3, <2>4, <2>5 DEF Reaches
<1>10. CASE RuleCode
  <2>1. Reaches("nr_program_vars", rdp.const_pool, Lefts("code", vm_instructions),
                rdp.total_program_vars)
    BY <1>1, <1>10, CodeRule
  <2>2. phase = "code"
    BY <1>10 DEF RuleCode, Parse
  <2>3. ReadPool("code") = ReadPool("nr_program_vars")
    BY DEF ReadPool
  <2> QED
    BY <1>3, <1>4, <2>1, <2>2, <2>3 DEF Reaches
<1>11. CASE RuleNrProgramVars
  <2>1. Reaches("loaded", rdp.const_pool, rdp.instructions, TotalVars)
    BY <1>1, <1>11, NrProgramVarsRule
  <2>2. phase = "nr_program_vars"
    BY <1>11 DEF RuleNrProgramVars, Parse
  <2>3. ReadPool("nr_program_vars") = ReadPool("loaded")
    BY DEF ReadPool
  <2> QED
    BY <1>3, <1>4, <2>1, <2>2, <2>3 DEF Reaches
<1> QED
  BY <1>5, <1>6, <1>7, <1>8, <1>9, <1>10, <1>11 DEF RuleBinaryFile


LEMMA PoolReadKept ==
  ASSUME FileInv, PoolRead, [Next]_vars
  PROVE  PoolRead'
<1>1. Reads1
  BY DEF FileInv
<1>2. EmptyPool = PoolOf(<< >>, << >>, << >>, << >>, << >>)
  BY DEF EmptyPool, PoolOf
<1>3. ASSUME phase = "generate", rdp' = rdp, phase' \in {"generate", "magicnumber"}
      PROVE  PoolRead'
  <2>1. rdp'.const_pool = EmptyPool
    BY <1>1, <1>3 DEF Reads1, Reader
  <2> HIDE DEF EmptyPool
  <2> QED
    BY <1>2, <1>3, <2>1 DEF PoolRead, ReadPool
<1>4. CASE Generator
  <2>1. phase = "generate" /\ rdp' = rdp /\ phase' \in {"generate", "magicnumber"}
    BY <1>4 DEF Generator, GenerateInstruction, GenerateBinaryFile
  <2> QED
    BY <1>3, <2>1
<1>5. CASE RuleBinaryFile
  BY <1>5, RulesReadPool
<1>6. CASE UNCHANGED vars
  BY <1>6, PoolStays DEF PoolRead, vars
<1> QED
  BY <1>4, <1>5, <1>6 DEF Next

(* An operand's argument stands for it in the reader's pool as well: its   *)
(* key leads to the same number, library function and user function there, *)
(* and to the string as it was cut.                                        *)
LEMMA StandsInReadPool ==
  ASSUME IInv, NEW arg \in Args, NEW e \in Operands, StandsFor(arg, const_pool, e, Whole)
  PROVE  StandsFor(arg, ReadPool("loaded"), e, UpToNul)
<1> DEFINE pool == ReadPool("loaded")
<1>1. /\ pool.numbers = const_pool.numbers /\ pool.strings = CutStrings
      /\ pool.libfuncs = const_pool.libfuncs /\ pool.userfuncs = const_pool.userfuncs
      /\ pool.addr_to_userfuncs = AllLinks
  BY DEF ReadPool, PoolOf
<1> HIDE DEF pool
<1>2. CASE e.type \notin {"string", "number", "libfunc", "userfunc"}
  BY <1>2 DEF StandsFor, pool
<1>3. CASE e.type \in {"number", "libfunc"}
  BY <1>1, <1>3 DEF StandsFor, pool
<1>4. CASE e.type = "string"
  <2> DEFINE array == const_pool.strings
             i     == arg.value + 1
  <2>1. arg.type = "string" /\ HasKey(array, arg.value) /\ array[i] = Whole[e.of]
    BY <1>4 DEF StandsFor, At
  <2>2. /\ Len(CutStrings) = Len(array) /\ Len(array) \in Nat
        /\ \A k \in 1 .. Len(array) : array[k] \in Names /\ CutStrings[k] = UpToNul[array[k]]
    BY ReadArrays, LenProperties DEF IInv, Pool
  <2>3. i \in 1 .. Len(array) /\ HasKey(CutStrings, arg.value)
    BY <2>1, <2>2 DEF HasKey
  <2>4. e.of \in Names
    BY <1>4 DEF Operands, Names
  <2>5. Whole[e.of] = e.of
    BY <2>4 DEF Whole
  <2>6. CutStrings[i] = UpToNul[e.of]
    BY <2>1, <2>2, <2>3, <2>5
  <2> QED
    BY <1>1, <1>4, <2>1, <2>3, <2>6 DEF StandsFor, At, pool
<1>5. CASE e.type = "userfunc"
  <2> DEFINE array == const_pool.userfuncs
             u     == Userfunc(e.of)
             i     == arg.value + 1
  <2>1. arg.type = "userfunc" /\ HasKey(array, arg.value) /\ array[i] = u
    BY <1>5 DEF StandsFor, At
  <2>2. Len(array) \in Nat /\ AddressesOnce(array)
    BY ReadArrays, LenProperties DEF IInv, Pool
  <2>3. i \in 1 .. Len(array) /\ (i - 1) + 1 = i
    BY <2>1, <2>2 DEF HasKey
  <2>4. u.address = Address[e.of]
    BY DEF Userfunc
  <2> HIDE DEF array, u, i
  <2>5. PositionOf(array, Address[e.of]) = i
    BY <2>1, <2>2, <2>3, <2>4, Positions
  <2>6. Address[e.of] \in Addresses(array, Len(array))
    BY <2>1, <2>3, <2>4 DEF Addresses
  <2>7. AllLinks[Address[e.of]] = i - 1
    BY <2>5, <2>6 DEF AllLinks, Links, array
  <2>8. UserfuncOnAddress(pool, Address[e.of]) = u
    BY <1>1, <2>1, <2>3, <2>7 DEF UserfuncOnAddress, At, array
  <2> QED
    BY <1>1, <1>5, <2>1, <2>8 DEF StandsFor, At, pool, array, u, i
<1> QED
  BY <1>2, <1>3, <1>4, <1>5

(* Whatever a program's constants and code are, the reader asks for every  *)
(* token as what Binary_writer wrote it, wherever writing stopped.         *)
THEOREM NothingIsMisread == Spec => []NeverMisread
<1>1. FileInv => NeverMisread
  BY DEF FileInv, Reads1, RulePhases, Sections, NeverMisread
<1> QED
  BY <1>1, FileKept, FileStarts, PTL DEF Spec

(* RDP accepts exactly the files that generate_binary_file wrote to their  *)
(* end: a shorter one ends in an exception, a whole one never does.        *)
THEOREM WholeFilesAreAccepted == Spec => []OnlyPartialFilesRefused
<1>1. FileInv => OnlyPartialFilesRefused
  BY DEF FileInv, Reads1, OnlyPartialFilesRefused
<1> QED
  BY <1>1, FileKept, FileStarts, PTL DEF Spec

(* The generator, the file and the reader have the values that their types *)
(* allow, the truth values that VMarg's constructor asserts among them.    *)
THEOREM BinaryFileTypes == Spec => []TypeOK
<1>1. FileInv => TypeOK
  <2> SUFFICES ASSUME FileInv PROVE TypeOK
    OBVIOUS
  <2>1. IInv /\ Reads1 /\ CodeLoaded
    BY DEF FileInv
  <2>2. rdp.instructions \in Seq(Instructions) /\ vm_instructions \in Seq(Instructions)
    BY <2>1, EmptySeq DEF IInv, CodeLoaded
  <2>3. ASSUME NEW i \in DOMAIN vm_instructions, NEW k \in 1 .. 3,
               vm_instructions[i].args[k].type = "boolean"
        PROVE  vm_instructions[i].args[k].value \in {0, 1}
    <3> DEFINE arg == vm_instructions[i].args[k]
               e   == source[i][k]
    <3>1. source \in Seq(Shapes) /\ Len(vm_instructions) = Len(source)
      BY <2>1 DEF IInv, KeysStayValid, AllStandFor
    <3>2. i \in DOMAIN source /\ source[i] \in Shapes
      BY <2>1, <3>1, ElementOfSeq, LenProperties DEF IInv
    <3>3. e \in Operands
      BY <3>2, BinaryFileAssumption
    <3>4. StandsFor(arg, const_pool, e, Whole)
      BY <2>1, <3>2 DEF IInv, KeysStayValid, AllStandFor
    <3> HIDE DEF arg, e
    <3>5. arg.type = "boolean"
      BY <2>3 DEF arg
    <3>6. e.type = "boolean"
      BY <3>3, <3>4, <3>5 DEF StandsFor, VMarg, NullArg, Operands
    <3>7. arg.value \in {0, 1}
      BY <3>4, <3>6 DEF StandsFor, VMarg
    <3> QED
      BY <3>7 DEF arg
  <2>4. \A i \in DOMAIN rdp.instructions, k \in 1 .. 3 :
          rdp.instructions[i].args[k].type = "boolean"
            => rdp.instructions[i].args[k].value \in {0, 1}
    <3>1. CASE rdp.instructions = << >>
      BY <3>1
    <3>2. CASE rdp.instructions = vm_instructions
      BY <2>3, <3>2
    <3> QED
      BY <2>1, <3>1, <3>2 DEF CodeLoaded
  <2>5. source \in Seq(Shapes) /\ rdp.pos \in 1 .. Len(file) + 1 /\ rdp.total_program_vars \in Nat
    BY <2>1, BinaryFileAssumption DEF IInv, Reads1, FileEnd, CodeLoaded
  <2>6. phase \in {"generate", "magicnumber", "strings", "numbers", "userfunctions",
                   "libfunctions", "code", "nr_program_vars", "loaded", "failure", "misread"}
    BY <2>1 DEF Reads1, RulePhases, Sections
  <2> QED
    BY <2>2, <2>4, <2>5, <2>6 DEF TypeOK
<1> QED
  BY <1>1, FileKept, FileStarts, PTL DEF Spec

(* What the machine runs is what was compiled: after RDP has registered    *)
(* the constants anew, every argument of the code it read stands for the   *)
(* operand the generator translated, and it has as many program variables, *)
(* whatever the program is, provided that no two of its strings are the    *)
(* same up to their first NUL.                                             *)
THEOREM LoadedIsCompiled == Spec => []LoadedMeansCompiled
<1> DEFINE Inv == FileInv /\ PoolRead
<1>1. Init => Inv
  <2>1. Init => PoolRead
    BY DEF Init, PoolRead, ReadPool, Reader, EmptyPool, PoolOf
  <2> QED
    BY <2>1, FileStarts
<1>2. Inv /\ [Next]_vars => Inv'
  BY FileKept, PoolReadKept
<1>3. Inv => LoadedMeansCompiled
  <2> SUFFICES ASSUME Inv, phase = "loaded", CutsDiffer
               PROVE  /\ AllStandFor(rdp.instructions, rdp.const_pool, UpToNul)
                      /\ rdp.total_program_vars = TotalVars
    BY DEF LoadedMeansCompiled, CutsDiffer
  <2>1. /\ rdp.const_pool = ReadPool("loaded") /\ rdp.instructions = vm_instructions
        /\ rdp.total_program_vars = TotalVars /\ IInv
    BY DEF PoolRead, FileInv, CodeLoaded
  <2>2. /\ Len(vm_instructions) = Len(source) /\ vm_instructions \in Seq(Instructions)
        /\ source \in Seq(Shapes) /\ Len(source) \in Nat /\ DOMAIN source = 1 .. Len(source)
    BY <2>1, LenProperties DEF IInv, KeysStayValid, AllStandFor
  <2>3. ASSUME NEW i \in DOMAIN source, NEW k \in 1 .. 3
        PROVE  StandsFor(vm_instructions[i].args[k], ReadPool("loaded"), source[i][k], UpToNul)
    <3> DEFINE arg == vm_instructions[i].args[k]
               e   == source[i][k]
    <3>1. vm_instructions[i] \in Instructions /\ source[i] \in Shapes
      BY <2>2, ElementOfSeq
    <3>2. arg \in Args /\ e \in Operands
      BY <3>1, BinaryFileAssumption DEF Instructions, Args
    <3>3. StandsFor(arg, const_pool, e, Whole)
      BY <2>1, <2>3 DEF IInv, KeysStayValid, AllStandFor
    <3> HIDE DEF arg, e
    <3>4. StandsFor(arg, ReadPool("loaded"), e, UpToNul)
      BY <2>1, <3>2, <3>3, StandsInReadPool
    <3> QED
      BY <3>4 DEF arg, e
  <2> QED
    BY <2>1, <2>2, <2>3 DEF AllStandFor
<1> QED
  BY <1>1, <1>2, <1>3, PTL DEF Spec
=============================================================================
