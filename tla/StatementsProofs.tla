-------------------------- MODULE StatementsProofs --------------------------
(***************************************************************************)
(* Proofs about Statements for programs of every size and nesting: every   *)
(* jump forward is kept in one place until it is patched, the stacks of    *)
(* the loop handler follow the nesting of the source, and a jump is        *)
(* refused only where it is astray.  The inductive invariant is IInv.      *)
(*                                                                         *)
(* Each action cuts the parser's stack and puts one item on what is left   *)
(* (Cut), adds quads to the code and patches some (Grown).  The lemmas say *)
(* what such a step does to the jumps that are kept (Keepings) and to the  *)
(* open loops and functions.                                               *)
(***************************************************************************)
EXTENDS Statements, NaturalSets, SequenceTheorems, FiniteSetTheorems, TLAPS

ListSyms == {"program", "block"}

(* An item of the stack has the fields of its kind. *)
Shaped(item) ==
  CASE item.sym \in ListSyms \cup {"stmt"} -> item = [sym |-> item.sym, frag |-> item.frag]
    [] item.sym = "func" -> /\ item = [sym |-> "func", id |-> item.id, iaddress |-> item.iaddress,
                                       frag |-> item.frag]
                            /\ item.id \in Nat
    [] item.sym = "incr" -> item = [sym |-> "incr", id |-> item.id,
                                    cond_first_quadno |-> item.cond_first_quadno,
                                    comparator_quadno |-> item.comparator_quadno,
                                    exit_jmp |-> item.exit_jmp, funcs |-> item.funcs]
    [] OTHER -> item.sym \in {"if", "else", "while", "for"}

(* The quads an item knows are there, those a jump back leads to are not   *)
(* the first one unless the program begins with a while statement.         *)
KnowsQuads(item, code) ==
  LET there == 0 .. Len(code) - 1
  IN  CASE item.sym = "if"    -> item.ifprefix \in there
        [] item.sym = "else"  -> item.ifprefix \in there /\ item.elseprefix \in there
        [] item.sym = "while" -> /\ item.whilecond \in there
                                 /\ item.first_quadno \in there
                                 /\ item.first_quadno = 0 => code[1].op = "if_eq"
        [] item.sym = "incr"  -> /\ item.comparator_quadno \in there \ {0}
                                 /\ item.cond_first_quadno = item.comparator_quadno
                                 /\ item.exit_jmp \in there
        [] item.sym = "for"   -> /\ item.comparator_quadno \in there \ {0}
                                 /\ item.cond_first_quadno = item.comparator_quadno
                                 /\ item.exit_jmp \in there
                                 /\ item.cond_jmp \in there
        [] item.sym = "func"  -> item.iaddress \in there
        [] OTHER              -> TRUE

StackWellFormed ==
  /\ stack \in Seq(ToSet(stack))
  /\ \A i \in DOMAIN stack : Shaped(stack[i]) /\ KnowsQuads(stack[i], quads)
  /\ Len(stack) > 0 /\ stack[1].sym = "program"
  /\ \A i \in DOMAIN stack : stack[i].sym = "program" => i = 1

Args == {None} \cup {Place(n) : n \in Nat}

QuadSet ==
  [op : {"assign", "if_eq", "jump", "ret", "funcstart", "funcend"},
   result : {None}, arg1 : Args, arg2 : {None}, label : Nat]

HandlerTypes ==
  /\ quads \in Seq(QuadSet)
  /\ lp_handler \in [depths : Seq(Nat), breaks : Seq(SUBSET Nat), continues : Seq(SUBSET Nat)]

IInv ==
  /\ TypeOK
  /\ HandlerTypes
  /\ StackWellFormed
  /\ OneKeeperPerJump
  /\ LoopListsFollowNesting
  /\ OnlyStrayJumpsRefused

(* t is the first m - 1 items of s and a new one. *)
Cut(s, t, m, item) ==
  /\ m \in 1 .. Len(s) + 1
  /\ t \in Seq(ToSet(t))
  /\ Len(t) = m
  /\ t[m] = item
  /\ \A i \in 1 .. m - 1 : t[i] = s[i]

(* The code grows: of its quads, those whose numbers are in patched get a  *)
(* target; of the new ones, those in waiting get none.                     *)
HasTarget(code, i) == code[i].op \notin Jumps \/ code[i].label # 0 \/ code[1].op = "if_eq"

Grown(code, new, patched, waiting) ==
  /\ new \in Seq(QuadSet)
  /\ Len(code) <= Len(new)
  /\ \A i \in DOMAIN new : new[i].label \in 0 .. Len(new) + 1
  /\ \A i \in DOMAIN code :
       /\ new[i].op = code[i].op
       /\ i - 1 \notin patched => new[i].label = code[i].label
       /\ i - 1 \in patched => HasTarget(new, i)
  /\ waiting \subseteq Len(code) .. Len(new) - 1
  /\ \A i \in Len(code) + 1 .. Len(new) :
       IF i - 1 \in waiting THEN new[i].op \in Jumps /\ new[i].label = 0
                            ELSE HasTarget(new, i)

(* Those who kept the quads that are patched no longer do; those who keep  *)
(* what waits are new.                                                     *)
Exchanged(removed, added, patched, waiting) ==
  /\ \A k \in removed : k[3] \in patched
  /\ \A n \in patched : n < Len(quads) => \E k \in removed : k[3] = n
  /\ \A k \in added : k[3] \in waiting
  /\ \A n \in waiting : \E k \in added : k[3] = n
  /\ \A k, l \in added : k[3] = l[3] => k = l

-----------------------------------------------------------------------------
(* Sequences.                                                              *)

LEMMA ItemsOfSeq ==
  ASSUME NEW S, NEW s \in Seq(S)
  PROVE  /\ s \in Seq(ToSet(s))
         /\ Len(s) \in Nat
         /\ DOMAIN s = 1 .. Len(s)
         /\ \A i \in 1 .. Len(s) : s[i] \in S
<1>1. Len(s) \in Nat /\ s \in [1 .. Len(s) -> S] /\ DOMAIN s = 1 .. Len(s)
  BY LenProperties
<1>2. s \in [1 .. Len(s) -> ToSet(s)]
  BY <1>1 DEF ToSet
<1>3. s \in Seq(ToSet(s))
  BY <1>1, <1>2, SeqDef
<1> QED
  BY <1>1, <1>3

LEMMA PoppedFields ==
  ASSUME NEW S, NEW s \in Seq(S), NEW n \in Nat, n <= Len(s)
  PROVE  /\ SubSeq(s, 1, Len(s) - n) \in Seq(S)
         /\ Len(SubSeq(s, 1, Len(s) - n)) = Len(s) - n
         /\ \A i \in 1 .. Len(s) - n : SubSeq(s, 1, Len(s) - n)[i] = s[i]
<1> DEFINE m == Len(s) - n
<1>1. m \in Nat /\ 1 \in Int /\ m \in Int /\ m <= Len(s) /\ Len(s) \in Nat
  BY LenProperties
<1>2. \A i \in 1 .. m : s[i] \in S
  <2> HIDE DEF m
  <2> QED
    BY <1>1, ItemsOfSeq
<1> HIDE DEF m
<1>3. /\ SubSeq(s, 1, m) \in Seq(S)
      /\ Len(SubSeq(s, 1, m)) = IF 1 <= m THEN m - 1 + 1 ELSE 0
      /\ \A i \in 1 .. m - 1 + 1 : SubSeq(s, 1, m)[i] = s[1 + i - 1]
  BY <1>1, <1>2, SubSeqProperties
<1> QED
  BY <1>1, <1>3 DEF m

LEMMA CutFields ==
  ASSUME NEW S, NEW s \in Seq(S), NEW n \in Nat, n <= Len(s), NEW item
  PROVE  /\ Cut(s, Append(s, item), Len(s) + 1, item)
         /\ n > 0 => Cut(s, Append(SubSeq(s, 1, Len(s) - n), item), Len(s) - n + 1, item)
         /\ Len(s) > 0 => Cut(s, ReplaceTop(s, item), Len(s), item)
         /\ n < Len(s) => Cut(s, ReplaceTop(SubSeq(s, 1, Len(s) - n), item), Len(s) - n, item)
<1> DEFINE T == S \cup {item}
<1>1. ASSUME NEW t \in Seq(S), Len(t) <= Len(s), \A i \in 1 .. Len(t) : t[i] = s[i]
      PROVE  Cut(s, Append(t, item), Len(t) + 1, item)
  <2>1. t \in Seq(T) /\ Len(t) \in Nat /\ Len(s) \in Nat
    BY SeqMonotonic, LenProperties
  <2>2. /\ Append(t, item) \in Seq(T)
        /\ Len(Append(t, item)) = Len(t) + 1
        /\ Append(t, item)[Len(t) + 1] = item
        /\ \A i \in 1 .. Len(t) : Append(t, item)[i] = t[i]
    <3> HIDE DEF T
    <3>1. item \in T
      BY DEF T
    <3> QED
      BY <2>1, <3>1, AppendProperties
  <2>3. Append(t, item) \in Seq(ToSet(Append(t, item)))
    <3> HIDE DEF T
    <3> QED
      BY <2>2, ItemsOfSeq
  <2> HIDE DEF T
  <2> QED
    BY <1>1, <2>1, <2>2, <2>3 DEF Cut
<1>2. ASSUME NEW t \in Seq(S), Len(t) <= Len(s), Len(t) > 0, \A i \in 1 .. Len(t) : t[i] = s[i]
      PROVE  Cut(s, ReplaceTop(t, item), Len(t), item)
  <2>1. t \in Seq(T) /\ Len(t) \in Nat /\ Len(s) \in Nat /\ Len(t) \in 1 .. Len(t)
    BY <1>2, SeqMonotonic, LenProperties
  <2> DEFINE u == ReplaceTop(t, item)
  <2>2. /\ u \in Seq(T)
        /\ Len(u) = Len(t)
        /\ \A i \in 1 .. Len(t) : u[i] = IF i = Len(t) THEN item ELSE t[i]
    <3> HIDE DEF T
    <3>1. item \in T
      BY DEF T
    <3> QED
      BY <2>1, <3>1, ExceptSeq DEF ReplaceTop
  <2>3. u \in Seq(ToSet(u))
    <3> HIDE DEF T, u
    <3> QED
      BY <2>2, ItemsOfSeq
  <2> HIDE DEF T, u
  <2> QED
    BY <1>2, <2>1, <2>2, <2>3 DEF Cut, u
<1>3. Len(s) \in Nat
  BY LenProperties
<1>4. /\ SubSeq(s, 1, Len(s) - n) \in Seq(S)
      /\ Len(SubSeq(s, 1, Len(s) - n)) = Len(s) - n
      /\ \A i \in 1 .. Len(s) - n : SubSeq(s, 1, Len(s) - n)[i] = s[i]
  BY PoppedFields
<1> DEFINE cut == SubSeq(s, 1, Len(s) - n)
<1>5. cut \in Seq(S) /\ Len(cut) = Len(s) - n /\ \A i \in 1 .. Len(cut) : cut[i] = s[i]
  BY <1>4
<1> HIDE DEF cut
<1>6. Cut(s, Append(cut, item), Len(cut) + 1, item)
  BY <1>1, <1>3, <1>5
<1>7. n < Len(s) => Cut(s, ReplaceTop(cut, item), Len(cut), item)
  BY <1>2, <1>3, <1>5
<1>8. Cut(s, Append(s, item), Len(s) + 1, item)
  BY <1>1, <1>3
<1>9. Len(s) > 0 => Cut(s, ReplaceTop(s, item), Len(s), item)
  BY <1>2, <1>3
<1> QED
  BY <1>5, <1>6, <1>7, <1>8, <1>9 DEF cut

-----------------------------------------------------------------------------
(* Code.                                                                   *)

LEMMA EmitFields ==
  ASSUME NEW code \in Seq(QuadSet), NEW quad \in QuadSet, NEW label \in Nat
  PROVE  /\ EmitLabelled(code, quad, label) \in Seq(QuadSet)
         /\ NextQuadLabel(code) = Len(code)
         /\ Len(code) \in Nat
         /\ Len(EmitLabelled(code, quad, label)) = Len(code) + 1
         /\ EmitLabelled(code, quad, label)[Len(code) + 1].op = quad.op
         /\ EmitLabelled(code, quad, label)[Len(code) + 1].label = label
         /\ \A i \in 1 .. Len(code) : EmitLabelled(code, quad, label)[i] = code[i]
<1> DEFINE labelled == [quad EXCEPT !.label = label]
<1>1. labelled \in QuadSet /\ labelled.op = quad.op /\ labelled.label = label
  BY DEF QuadSet
<1>2. Len(code) \in Nat
  BY LenProperties
<1> HIDE DEF labelled
<1>3. /\ Append(code, labelled) \in Seq(QuadSet)
      /\ Len(Append(code, labelled)) = Len(code) + 1
      /\ Append(code, labelled)[Len(code) + 1] = labelled
      /\ \A i \in 1 .. Len(code) : Append(code, labelled)[i] = code[i]
  BY <1>1, AppendProperties
<1> QED
  BY <1>1, <1>2, <1>3 DEF EmitLabelled, labelled, NextQuadLabel

LEMMA PatchFields ==
  ASSUME NEW code \in Seq(QuadSet), NEW quadnos, NEW label \in Nat
  PROVE  /\ PatchLabel(code, quadnos, label) \in Seq(QuadSet)
         /\ Len(PatchLabel(code, quadnos, label)) = Len(code)
         /\ \A i \in 1 .. Len(code) :
              /\ PatchLabel(code, quadnos, label)[i].op = code[i].op
              /\ PatchLabel(code, quadnos, label)[i].label =
                   IF i - 1 \in quadnos THEN label ELSE code[i].label
<1> DEFINE new == PatchLabel(code, quadnos, label)
<1>1. Len(code) \in Nat /\ DOMAIN code = 1 .. Len(code) /\ \A i \in 1 .. Len(code) : code[i] \in QuadSet
  BY ItemsOfSeq
<1>2. \A i \in 1 .. Len(code) :
        /\ [code[i] EXCEPT !.label = label] \in QuadSet
        /\ [code[i] EXCEPT !.label = label].op = code[i].op
        /\ [code[i] EXCEPT !.label = label].label = label
  BY <1>1 DEF QuadSet
<1>3. new = [i \in 1 .. Len(code) |-> IF i - 1 \in quadnos THEN [code[i] EXCEPT !.label = label]
                                                         ELSE code[i]]
  BY <1>1 DEF PatchLabel
<1>4. /\ new \in [1 .. Len(code) -> QuadSet]
      /\ \A i \in 1 .. Len(code) :
           /\ new[i].op = code[i].op
           /\ new[i].label = IF i - 1 \in quadnos THEN label ELSE code[i].label
  <2> HIDE DEF new
  <2> QED
    BY <1>1, <1>2, <1>3
<1>5. new \in Seq(QuadSet) /\ Len(new) = Len(code)
  <2> HIDE DEF new
  <2> QED
    BY <1>1, <1>4, SeqDef
<1> QED
  BY <1>4, <1>5

LEMMA QuadsEmitted ==
  ASSUME NEW n \in Nat
  PROVE  /\ Perform(n) \in QuadSet /\ Perform(n).op = "assign"
         /\ Test(n) \in QuadSet /\ Test(n).op = "if_eq"
         /\ Jump \in QuadSet /\ Jump.op = "jump"
         /\ Quad("ret", None, Place(n), None) \in QuadSet
         /\ Quad("ret", None, Place(n), None).op = "ret"
         /\ Quad("funcstart", None, Place(n), None) \in QuadSet
         /\ Quad("funcstart", None, Place(n), None).op = "funcstart"
         /\ Quad("funcend", None, Place(n), None) \in QuadSet
         /\ Quad("funcend", None, Place(n), None).op = "funcend"
<1>1. Place(n) \in Args /\ None \in Args
  BY DEF Args
<1> QED
  BY <1>1 DEF QuadSet, Perform, Test, Jump, Quad

(* The code stays, or a quad is added that is no jump. *)
LEMMA PlainGrown ==
  ASSUME NEW code \in Seq(QuadSet),
         \A i \in DOMAIN code : code[i].label \in 0 .. Len(code) + 1
  PROVE  /\ Grown(code, code, {}, {})
         /\ \A quad \in QuadSet : quad.op \notin Jumps => Grown(code, Emit(code, quad), {}, {})
<1>1. Len(code) \in Nat /\ DOMAIN code = 1 .. Len(code)
  BY ItemsOfSeq
<1>2. Grown(code, code, {}, {})
  BY <1>1 DEF Grown
<1>3. ASSUME NEW quad \in QuadSet, quad.op \notin Jumps
      PROVE  Grown(code, Emit(code, quad), {}, {})
  <2> DEFINE new == EmitLabelled(code, quad, Len(code))
  <2>1. /\ new \in Seq(QuadSet)
        /\ Len(new) = Len(code) + 1
        /\ new[Len(code) + 1].op = quad.op
        /\ new[Len(code) + 1].label = Len(code)
        /\ \A i \in 1 .. Len(code) : new[i] = code[i]
    BY <1>1, ZenonT(20), EmitFields
  <2>2. Emit(code, quad) = new
    BY DEF Emit, NextQuadLabel
  <2> HIDE DEF new
  <2>3. DOMAIN new = 1 .. Len(code) + 1
    BY <2>1, ItemsOfSeq
  <2>4. \A i \in 1 .. Len(code) + 1 : i \in 1 .. Len(code) \/ i = Len(code) + 1
    BY <1>1
  <2>5. Grown(code, new, {}, {})
    BY <1>1, <1>3, <2>1, <2>3, <2>4 DEF Grown, HasTarget
  <2> QED
    BY <2>2, <2>5
<1> QED
  BY <1>2, <1>3

-----------------------------------------------------------------------------
(* Jumps that are kept.                                                    *)

LEMMA KeptInMember ==
  ASSUME NEW keeper, NEW lists, NEW k
  PROVE  k \in KeptIn(keeper, lists)
           <=> \E i \in DOMAIN lists : \E n \in lists[i] : k = <<keeper, i, n>>
BY DEF KeptIn

LEMMA KeptInCut ==
  ASSUME NEW S, NEW s \in Seq(S), NEW t, NEW m, NEW item, Cut(s, t, m, item), NEW keeper
  PROVE  KeptIn(keeper, t) = {k \in KeptIn(keeper, s) : k[2] < m} \cup {<<keeper, m, n>> : n \in item}
<1>1. Len(s) \in Nat /\ DOMAIN s = 1 .. Len(s) /\ m \in 1 .. Len(s) + 1 /\ DOMAIN t = 1 .. m
  BY ItemsOfSeq DEF Cut
<1>2. t[m] = item /\ \A i \in 1 .. m - 1 : t[i] = s[i]
  BY DEF Cut
<1>3. \A i \in 1 .. m : i = m \/ i \in 1 .. m - 1
  BY <1>1
<1>4. \A i \in DOMAIN s : i < m => i \in 1 .. m - 1
  BY <1>1
<1>5. \A i \in 1 .. m - 1 : i \in DOMAIN s /\ i < m
  BY <1>1
<1>6. ASSUME NEW k \in KeptIn(keeper, t)
      PROVE  k \in {l \in KeptIn(keeper, s) : l[2] < m} \cup {<<keeper, m, n>> : n \in item}
  <2>1. PICK i \in 1 .. m : \E n \in t[i] : k = <<keeper, i, n>>
    BY <1>1, <1>6, KeptInMember
  <2>2. PICK n \in t[i] : k = <<keeper, i, n>>
    BY <2>1
  <2>3. CASE i = m
    BY <1>2, <2>2, <2>3
  <2>4. CASE i \in 1 .. m - 1
    <3>1. i \in DOMAIN s /\ n \in s[i] /\ k[2] < m
      BY <1>2, <1>5, <2>2, <2>4
    <3>2. k \in KeptIn(keeper, s)
      BY <2>2, <3>1, KeptInMember
    <3> QED
      BY <3>1, <3>2
  <2> QED
    BY <1>3, <2>1, <2>3, <2>4
<1>7. ASSUME NEW k \in KeptIn(keeper, s), k[2] < m
      PROVE  k \in KeptIn(keeper, t)
  <2>1. PICK i \in DOMAIN s : \E n \in s[i] : k = <<keeper, i, n>>
    BY <1>7, KeptInMember
  <2>2. PICK n \in s[i] : k = <<keeper, i, n>>
    BY <2>1
  <2>3. i \in 1 .. m - 1 /\ n \in t[i] /\ i \in DOMAIN t
    BY <1>1, <1>2, <1>4, <1>7, <2>2
  <2> QED
    BY <2>2, <2>3, KeptInMember
<1>8. ASSUME NEW n \in item
      PROVE  <<keeper, m, n>> \in KeptIn(keeper, t)
  <2>1. m \in DOMAIN t /\ n \in t[m]
    BY <1>1, <1>2
  <2> QED
    BY <2>1, KeptInMember
<1> QED
  BY <1>6, <1>7, <1>8

LEMMA KeptInFront ==
  ASSUME NEW S, NEW s \in Seq(S), s # << >>, NEW keeper
  PROVE  KeptIn(keeper, Front(s)) = {k \in KeptIn(keeper, s) : k[2] < Len(s)}
<1>1. Len(s) \in Nat \ {0} /\ DOMAIN s = 1 .. Len(s)
  BY EmptySeq, ItemsOfSeq
<1>2. Front(s) \in Seq(S) /\ Len(Front(s)) = Len(s) - 1 /\ \A i \in 1 .. Len(s) - 1 : Front(s)[i] = s[i]
  BY <1>1, PoppedFields DEF Front
<1>3. DOMAIN Front(s) = 1 .. Len(s) - 1
  BY <1>2, ItemsOfSeq
<1>4. \A i \in DOMAIN s : i < Len(s) <=> i \in 1 .. Len(s) - 1
  BY <1>1
<1>5. \A i \in 1 .. Len(s) - 1 : i \in DOMAIN s
  BY <1>1
<1>6. ASSUME NEW k \in KeptIn(keeper, Front(s))
      PROVE  k \in KeptIn(keeper, s) /\ k[2] < Len(s)
  <2>1. PICK i \in 1 .. Len(s) - 1 : \E n \in Front(s)[i] : k = <<keeper, i, n>>
    BY <1>3, <1>6, KeptInMember
  <2>2. PICK n \in s[i] : k = <<keeper, i, n>>
    BY <1>2, <2>1
  <2> QED
    BY <1>4, <1>5, <2>2, KeptInMember
<1>7. ASSUME NEW k \in KeptIn(keeper, s), k[2] < Len(s)
      PROVE  k \in KeptIn(keeper, Front(s))
  <2>1. PICK i \in DOMAIN s : \E n \in s[i] : k = <<keeper, i, n>>
    BY <1>7, KeptInMember
  <2>2. PICK n \in s[i] : k = <<keeper, i, n>>
    BY <2>1
  <2>3. i \in 1 .. Len(s) - 1
    BY <1>4, <1>7, <2>2
  <2>4. i \in DOMAIN Front(s) /\ n \in Front(s)[i]
    BY <1>2, <1>3, <2>2, <2>3
  <2> QED
    BY <2>2, <2>4, KeptInMember
<1> QED
  BY <1>6, <1>7

(* The numbers that are kept are those of quads. *)
LEMMA KeptThere ==
  ASSUME IInv
  PROVE  \A k \in Keepings : k[3] \in 0 .. Len(quads) - 1
<1>1. Len(quads) \in Nat
  BY LenProperties DEF IInv, HandlerTypes
<1>2. ASSUME NEW i \in DOMAIN stack, NEW n \in Kept(stack[i])
      PROVE  n \in 0 .. Len(quads) - 1
  <2>1. KnowsQuads(stack[i], quads)
    BY DEF IInv, StackWellFormed
  <2> QED
    BY <1>2, <2>1 DEF Kept, KnowsQuads
<1>3. ASSUME NEW lists \in {lp_handler.breaks, lp_handler.continues}, NEW i \in DOMAIN lists
      PROVE  lists[i] \subseteq 0 .. Len(quads) - 1
  <2> DEFINE breaks == lp_handler.breaks
             continues == lp_handler.continues
  <2>1. breaks \in Seq(SUBSET Nat) /\ continues \in Seq(SUBSET Nat)
    BY DEF IInv, HandlerTypes
  <2>2. \A list \in Range(breaks \o continues) : list \subseteq 0 .. Len(quads) - 1
    BY DEF IInv, TypeOK, NextQuadLabel
  <2>3. lists = breaks \/ lists = continues
    OBVIOUS
  <2> HIDE DEF breaks, continues
  <2>4. /\ DOMAIN breaks = 1 .. Len(breaks) /\ DOMAIN continues = 1 .. Len(continues)
        /\ Len(breaks) \in Nat /\ Len(continues) \in Nat
    BY <2>1, ItemsOfSeq
  <2>5. /\ breaks \o continues \in Seq(SUBSET Nat)
        /\ Len(breaks \o continues) = Len(breaks) + Len(continues)
        /\ \A j \in 1 .. Len(breaks) + Len(continues) :
             (breaks \o continues)[j] =
               IF j <= Len(breaks) THEN breaks[j] ELSE continues[j - Len(breaks)]
    BY <2>1, ConcatProperties
  <2> DEFINE both == breaks \o continues
  <2>6. DOMAIN both = 1 .. Len(breaks) + Len(continues)
    <3> HIDE DEF both
    <3> QED
      BY <2>5, ItemsOfSeq DEF both
  <2>7. \E j \in DOMAIN both : both[j] = lists[i]
    <3>1. CASE lists = breaks
      <4>1. i \in 1 .. Len(breaks) + Len(continues) /\ i <= Len(breaks)
        BY <1>3, <2>4, <3>1
      <4> HIDE DEF both
      <4> QED
        BY <2>5, <2>6, <3>1, <4>1 DEF both
    <3>2. CASE lists = continues
      <4> DEFINE j == i + Len(breaks)
      <4>1. j \in 1 .. Len(breaks) + Len(continues) /\ ~(j <= Len(breaks)) /\ j - Len(breaks) = i
        BY <1>3, <2>4, <3>2
      <4> HIDE DEF both, j
      <4> QED
        BY <2>5, <2>6, <3>2, <4>1 DEF both
    <3> QED
      BY <2>3, <3>1, <3>2
  <2>8. lists[i] \in Range(both)
    BY <2>7 DEF Range
  <2> QED
    BY <2>2, <2>8
<1>4. ASSUME NEW k \in Keepings PROVE k[3] \in 0 .. Len(quads) - 1
  <2> DEFINE kept == [i \in DOMAIN stack |-> Kept(stack[i])]
  <2>1. \/ k \in KeptIn("stack", kept)
        \/ k \in KeptIn("breaks", lp_handler.breaks)
        \/ k \in KeptIn("continues", lp_handler.continues)
    BY <1>4 DEF Keepings
  <2>2. CASE k \in KeptIn("stack", kept)
    <3>1. PICK i \in DOMAIN stack : \E n \in kept[i] : k = <<"stack", i, n>>
      <4> DEFINE lists == kept
      <4>1. DOMAIN lists = DOMAIN stack
        OBVIOUS
      <4> HIDE DEF kept
      <4> QED
        BY <2>2, <4>1, KeptInMember
    <3> QED
      BY <1>2, <3>1
  <2>3. ASSUME NEW keeper, NEW lists \in {lp_handler.breaks, lp_handler.continues},
               k \in KeptIn(keeper, lists)
        PROVE  k[3] \in 0 .. Len(quads) - 1
    <3>1. PICK i \in DOMAIN lists : \E n \in lists[i] : k = <<keeper, i, n>>
      BY <2>3, KeptInMember
    <3> QED
      BY <1>3, <3>1
  <2> QED
    BY <2>1, <2>2, <2>3
<1> QED
  BY <1>4

(* Jumps that get their targets leave their keepers, new ones find keepers.*)
LEMMA KeepersFollow ==
  ASSUME IInv, Parsing, NEW patched, NEW waiting, Grown(quads, quads', patched, waiting),
         NEW removed \in SUBSET Keepings, NEW added,
         Keepings' = (Keepings \ removed) \cup added,
         Exchanged(removed, added, patched, waiting)
  PROVE  /\ OneKeeperPerJump'
         /\ \A k \in Keepings' : k[3] \in 0 .. Len(quads') - 1
<1>1. /\ quads \in Seq(QuadSet) /\ quads' \in Seq(QuadSet)
      /\ Len(quads) \in Nat /\ DOMAIN quads = 1 .. Len(quads)
      /\ Len(quads') \in Nat /\ DOMAIN quads' = 1 .. Len(quads')
      /\ Len(quads) <= Len(quads')
  BY ItemsOfSeq DEF IInv, HandlerTypes, Grown
<1>2. /\ \A k \in Keepings : quads[k[3] + 1].op \in Jumps /\ quads[k[3] + 1].label = 0
      /\ \A k, l \in Keepings : k[3] = l[3] => k = l
      /\ \A n \in DOMAIN quads :
           (quads[n].op \in Jumps /\ quads[n].label = 0 /\ quads[1].op # "if_eq")
             => \E k \in Keepings : k[3] = n - 1
  BY DEF IInv, OneKeeperPerJump, Parsing
<1>3. \A k \in Keepings : k[3] \in 0 .. Len(quads) - 1
  BY KeptThere
<1>4. waiting \subseteq Len(quads) .. Len(quads') - 1
  BY DEF Grown
<1>a. /\ \A k \in removed : k[3] \in patched
      /\ \A n \in patched : n < Len(quads) => \E k \in removed : k[3] = n
      /\ \A k \in added : k[3] \in waiting
      /\ \A n \in waiting : \E k \in added : k[3] = n
      /\ \A k, l \in added : k[3] = l[3] => k = l
  BY DEF Exchanged
<1>5. ASSUME NEW k \in Keepings \ removed
      PROVE  k[3] \notin patched
  <2>1. SUFFICES ASSUME k[3] \in patched PROVE FALSE
    OBVIOUS
  <2>2. PICK l \in removed : l[3] = k[3]
    BY <1>1, <1>3, <1>a, <2>1
  <2> QED
    BY <1>2, <2>2
<1>6. \A k \in Keepings' : k[3] \in 0 .. Len(quads') - 1
  <2>1. \A k \in Keepings : k[3] \in 0 .. Len(quads') - 1
    BY <1>1, <1>3
  <2>2. \A n \in waiting : n \in 0 .. Len(quads') - 1
    BY <1>1, <1>4
  <2> QED
    BY <1>a, <2>1, <2>2
<1>7. ASSUME NEW k \in Keepings'
      PROVE  quads'[k[3] + 1].op \in Jumps /\ quads'[k[3] + 1].label = 0
  <2>1. CASE k \in Keepings \ removed
    <3>1. k[3] + 1 \in DOMAIN quads /\ (k[3] + 1) - 1 = k[3]
      BY <1>1, <1>3, <2>1
    <3>2. /\ quads'[k[3] + 1].op = quads[k[3] + 1].op
          /\ quads'[k[3] + 1].label = quads[k[3] + 1].label
      BY <1>5, <2>1, <3>1 DEF Grown
    <3> QED
      BY <1>2, <2>1, <3>2
  <2>2. CASE k \in added
    <3>1. k[3] \in waiting
      BY <1>a, <2>2
    <3>2. k[3] + 1 \in Len(quads) + 1 .. Len(quads') /\ (k[3] + 1) - 1 = k[3]
      <4>1. ASSUME NEW n \in waiting
            PROVE  n + 1 \in Len(quads) + 1 .. Len(quads') /\ (n + 1) - 1 = n
        <5>1. n \in Len(quads) .. Len(quads') - 1
          BY <1>4
        <5> QED
          BY <1>1, <5>1
      <4> QED
        BY <3>1, <4>1
    <3> QED
      BY <3>1, <3>2 DEF Grown
  <2> QED
    BY <1>7, <2>1, <2>2
<1>8. ASSUME NEW k \in Keepings', NEW l \in Keepings', k[3] = l[3]
      PROVE  k = l
  <2>1. \A j \in Keepings, n \in waiting : j[3] # n
    BY <1>1, <1>3, <1>4
  <2> QED
    BY <1>2, <1>8, <1>a, <2>1
<1>9. ASSUME NEW n \in DOMAIN quads', quads'[n].op \in Jumps, quads'[n].label = 0,
             quads'[1].op # "if_eq"
      PROVE  \E k \in Keepings' : k[3] = n - 1
  <2>1. CASE n \in DOMAIN quads
    <3>1. n - 1 \notin patched
      BY <1>9, <2>1 DEF Grown, HasTarget
    <3>2. quads[n].op \in Jumps /\ quads[n].label = 0
      BY <1>9, <2>1, <3>1 DEF Grown
    <3>3. quads[1].op # "if_eq"
      <4>1. 1 \in DOMAIN quads
        BY <1>1, <2>1
      <4> QED
        BY <1>9, <4>1 DEF Grown
    <3>4. PICK k \in Keepings : k[3] = n - 1
      BY <1>2, <2>1, <3>2, <3>3
    <3>5. k \notin removed
      BY <1>a, <3>1, <3>4
    <3> QED
      BY <3>4, <3>5
  <2>2. CASE n \notin DOMAIN quads
    <3>1. n \in Len(quads) + 1 .. Len(quads')
      BY <1>1, <1>9, <2>2
    <3>2. n - 1 \in waiting
      BY <1>9, <3>1 DEF Grown, HasTarget
    <3> QED
      BY <1>a, <3>2
  <2> QED
    BY <2>1, <2>2
<1>10. OneKeeperPerJump'
  <2>1. /\ \A k \in Keepings' : quads'[k[3] + 1].op \in Jumps /\ quads'[k[3] + 1].label = 0
        /\ \A k, l \in Keepings' : k[3] = l[3] => k = l
        /\ \A n \in DOMAIN quads' :
             (quads'[n].op \in Jumps /\ quads'[n].label = 0 /\ quads'[1].op # "if_eq")
               => \E k \in Keepings' : k[3] = n - 1
    BY <1>7, <1>8, <1>9
  <2> QED
    BY <2>1 DEF OneKeeperPerJump
<1> QED
  BY <1>6, <1>10

LEMMA KnowsMore ==
  ASSUME NEW item, NEW code, NEW new, NEW patched, NEW waiting,
         code \in Seq(QuadSet), Grown(code, new, patched, waiting), KnowsQuads(item, code)
  PROVE  KnowsQuads(item, new)
<1>1. Len(code) \in Nat /\ Len(new) \in Nat /\ DOMAIN code = 1 .. Len(code)
  BY ItemsOfSeq DEF Grown
<1>2. \A n \in 0 .. Len(code) - 1 : n \in 0 .. Len(new) - 1
  BY <1>1 DEF Grown
<1>3. 0 \in 0 .. Len(code) - 1 => code[1].op = new[1].op
  <2>1. 0 \in 0 .. Len(code) - 1 => 1 \in DOMAIN code
    BY <1>1
  <2> QED
    BY <2>1 DEF Grown
<1> HIDE DEF Grown
<1> QED
  BY <1>2, <1>3 DEF KnowsQuads

LEMMA LoopHandlerFields ==
  ASSUME IInv
  PROVE  /\ lp_handler = [depths |-> lp_handler.depths, breaks |-> lp_handler.breaks,
                          continues |-> lp_handler.continues]
         /\ lp_handler.depths \in Seq(Nat)
         /\ Len(lp_handler.depths) \in Nat
         /\ DOMAIN lp_handler.depths = 1 .. Len(lp_handler.depths)
         /\ lp_handler.breaks \in Seq(SUBSET Nat)
         /\ Len(lp_handler.breaks) \in Nat
         /\ DOMAIN lp_handler.breaks = 1 .. Len(lp_handler.breaks)
         /\ lp_handler.continues \in Seq(SUBSET Nat)
         /\ Len(lp_handler.continues) \in Nat
         /\ DOMAIN lp_handler.continues = 1 .. Len(lp_handler.continues)
  BY ItemsOfSeq DEF IInv, HandlerTypes

(* What is left to prove of a step that puts an item on the stack. *)
LEMMA StepKeeps ==
  ASSUME IInv, Parsing,
         NEW m, NEW item, Cut(stack, stack', m, item),
         NEW patched, NEW waiting, Grown(quads, quads', patched, waiting),
         Shaped(item), KnowsQuads(item, quads'), item.sym = "program" <=> m = 1,
         lp_handler' \in [depths : Seq(Nat), breaks : Seq(SUBSET Nat), continues : Seq(SUBSET Nat)],
         OneKeeperPerJump', \A k \in Keepings' : k[3] \in 0 .. Len(quads') - 1,
         LoopListsFollowNesting', tokens' \in 0 .. MaxTokens, outcome' = outcome
  PROVE  IInv'
<1>1. /\ quads \in Seq(QuadSet) /\ quads' \in Seq(QuadSet)
      /\ Len(quads') \in Nat /\ DOMAIN quads' = 1 .. Len(quads')
  BY ItemsOfSeq DEF IInv, HandlerTypes, Grown
<1>2. HandlerTypes'
  BY <1>1 DEF HandlerTypes
<1>3. /\ stack' \in Seq(ToSet(stack'))
      /\ Len(stack') \in Nat /\ Len(stack') = m /\ m > 0 /\ DOMAIN stack' = 1 .. m
      /\ stack'[m] = item
      /\ \A i \in 1 .. m : i = m \/ (i \in 1 .. m - 1 /\ i \in DOMAIN stack /\ stack'[i] = stack[i])
      /\ 1 \in 1 .. m
  <2>1. stack \in Seq(ToSet(stack)) /\ stack' \in Seq(ToSet(stack'))
    BY DEF IInv, StackWellFormed, Cut
  <2>2. Len(stack) \in Nat /\ DOMAIN stack = 1 .. Len(stack) /\ DOMAIN stack' = 1 .. Len(stack')
    BY <2>1, ItemsOfSeq
  <2> QED
    BY <2>1, <2>2 DEF Cut
<1>4. StackWellFormed'
  <2>1. ASSUME NEW i \in DOMAIN stack'
        PROVE  /\ Shaped(stack'[i]) /\ KnowsQuads(stack'[i], quads')
               /\ stack'[i].sym = "program" <=> i = 1
    <3>1. CASE i = m
      BY <1>3, <3>1
    <3>2. CASE i \in DOMAIN stack /\ stack'[i] = stack[i]
      <4>1. /\ Shaped(stack[i]) /\ KnowsQuads(stack[i], quads)
            /\ stack[i].sym = "program" <=> i = 1
        BY <3>2 DEF IInv, StackWellFormed
      <4>2. KnowsQuads(stack[i], quads')
        BY <1>1, <4>1, KnowsMore
      <4> QED
        BY <3>2, <4>1, <4>2
    <3> QED
      BY <1>3, <2>1, <3>1, <3>2
  <2> QED
    BY <1>3, <2>1 DEF StackWellFormed
<1>5. ASSUME NEW i \in DOMAIN stack'
      PROVE  stack'[i].sym \in LoopSyms \cup {"program", "block", "func", "if", "else", "stmt"}
  BY <1>4, <1>5 DEF StackWellFormed, Shaped, LoopSyms, ListSyms
<1> DEFINE breaks == lp_handler'.breaks
           continues == lp_handler'.continues
<1>6. breaks \in Seq(SUBSET Nat) /\ continues \in Seq(SUBSET Nat)
  OBVIOUS
<1>7. ASSUME NEW list \in Range(breaks \o continues)
      PROVE  list \subseteq 0 .. Len(quads') - 1
  <2>1. KeptIn("breaks", breaks) \cup KeptIn("continues", continues) \subseteq Keepings'
    BY DEF Keepings
  <2> HIDE DEF breaks, continues
  <2>2. (\E i \in DOMAIN breaks : list = breaks[i]) \/ \E i \in DOMAIN continues : list = continues[i]
    <3>1. /\ DOMAIN breaks = 1 .. Len(breaks) /\ DOMAIN continues = 1 .. Len(continues)
          /\ Len(breaks) \in Nat /\ Len(continues) \in Nat
      BY <1>6, ItemsOfSeq
    <3>2. /\ breaks \o continues \in Seq(SUBSET Nat)
          /\ Len(breaks \o continues) = Len(breaks) + Len(continues)
          /\ \A j \in 1 .. Len(breaks) + Len(continues) :
               (breaks \o continues)[j] =
                 IF j <= Len(breaks) THEN breaks[j] ELSE continues[j - Len(breaks)]
      BY <1>6, ConcatProperties
    <3> DEFINE both == breaks \o continues
    <3>3. DOMAIN both = 1 .. Len(breaks) + Len(continues)
      <4> HIDE DEF both
      <4> QED
        BY <3>2, ItemsOfSeq DEF both
    <3>4. PICK j \in 1 .. Len(breaks) + Len(continues) : list = both[j]
      BY <1>7, <3>3 DEF Range
    <3>5. (j <= Len(breaks) /\ j \in 1 .. Len(breaks))
            \/ (~(j <= Len(breaks)) /\ j - Len(breaks) \in 1 .. Len(continues))
      BY <3>1
    <3> QED
      BY <3>1, <3>2, <3>4, <3>5
  <2>3. ASSUME NEW n \in list PROVE n \in 0 .. Len(quads') - 1
    <3>1. \E keeper, i : <<keeper, i, n>> \in Keepings'
      <4>1. CASE \E i \in DOMAIN breaks : list = breaks[i]
        <5>1. PICK i \in DOMAIN breaks : list = breaks[i]
          BY <4>1
        <5>2. <<"breaks", i, n>> \in KeptIn("breaks", breaks)
          BY <2>3, <5>1, KeptInMember
        <5> QED
          BY <2>1, <5>2
      <4>2. CASE \E i \in DOMAIN continues : list = continues[i]
        <5>1. PICK i \in DOMAIN continues : list = continues[i]
          BY <4>2
        <5>2. <<"continues", i, n>> \in KeptIn("continues", continues)
          BY <2>3, <5>1, KeptInMember
        <5> QED
          BY <2>1, <5>2
      <4> QED
        BY <2>2, <4>1, <4>2
    <3>2. PICK keeper, i : <<keeper, i, n>> \in Keepings'
      BY <3>1
    <3>3. <<keeper, i, n>>[3] = n
      OBVIOUS
    <3> QED
      BY <3>2, <3>3
  <2> QED
    BY <2>3
<1>8. TypeOK'
  <2>1. \A q \in ToSet(quads') : q.label \in 0 .. Len(quads') + 1
    BY <1>1 DEF ToSet, Grown
  <2>2. Range(lp_handler'.depths) \subseteq Nat
    <3> DEFINE depths == lp_handler'.depths
    <3>1. depths \in Seq(Nat)
      OBVIOUS
    <3> HIDE DEF depths
    <3>2. \A i \in DOMAIN depths : depths[i] \in Nat
      BY <3>1, ItemsOfSeq
    <3> QED
      BY <3>2 DEF Range, depths
  <2>3. \A list \in Range(lp_handler'.breaks \o lp_handler'.continues) : list \subseteq 0 .. Len(quads') - 1
    BY <1>7
  <2> QED
    BY <1>5, <2>1, <2>2, <2>3 DEF TypeOK, NextQuadLabel
<1>9. OnlyStrayJumpsRefused'
  BY DEF OnlyStrayJumpsRefused, Parsing
<1> QED
  BY <1>2, <1>4, <1>8, <1>9 DEF IInv

-----------------------------------------------------------------------------
(* Open loops and functions.                                               *)

(* The elements of a set of places up to one of them, numbered. *)
LEMMA Ranks ==
  ASSUME NEW n \in Nat, NEW S \in SUBSET (1 .. n)
  PROVE  /\ IsFiniteSet(S) /\ Cardinality(S) \in Nat
         /\ \A i : Cardinality({k \in S : k <= i}) \in 0 .. Cardinality(S)
         /\ \A i : Cardinality({k \in S : k < i}) \in 0 .. Cardinality(S)
         /\ \A i : Cardinality({k \in S : k < i}) = Cardinality(S) => \A k \in S : k < i
         /\ \A i \in S : Cardinality({k \in S : k <= i}) = Cardinality(S) => \A k \in S : k <= i
         /\ \A i \in S : Cardinality({k \in S : k <= i}) \in 1 .. Cardinality(S)
<1>1. IsFiniteSet(S)
  <2>1. IsFiniteSet(1 .. n)
    BY FS_Interval
  <2> QED
    BY <2>1, FS_Subset
<1>2. Cardinality(S) \in Nat
  BY <1>1, FS_CardinalityType
<1>3. ASSUME NEW T \in SUBSET S
      PROVE  /\ Cardinality(T) \in 0 .. Cardinality(S)
             /\ Cardinality(T) = Cardinality(S) => T = S
             /\ T # {} => Cardinality(T) # 0
  <2>1. IsFiniteSet(T) /\ Cardinality(T) <= Cardinality(S) /\ (Cardinality(S) = Cardinality(T) => S = T)
    BY <1>1, FS_Subset
  <2>2. Cardinality(T) \in Nat
    BY <2>1, FS_CardinalityType
  <2>3. T # {} => Cardinality(T) # 0
    BY <2>1, FS_EmptySet
  <2> QED
    BY <1>2, <2>1, <2>2, <2>3
<1>4. \A i : Cardinality({k \in S : k <= i}) \in 0 .. Cardinality(S)
  BY <1>3
<1>5. \A i : /\ Cardinality({k \in S : k < i}) \in 0 .. Cardinality(S)
             /\ Cardinality({k \in S : k < i}) = Cardinality(S) => \A k \in S : k < i
  <2>1. ASSUME NEW i
        PROVE  /\ Cardinality({k \in S : k < i}) \in 0 .. Cardinality(S)
               /\ Cardinality({k \in S : k < i}) = Cardinality(S) => \A k \in S : k < i
    <3> DEFINE T == {k \in S : k < i}
    <3>1. T \in SUBSET S
      OBVIOUS
    <3>2. T = S => \A k \in S : k < i
      OBVIOUS
    <3> HIDE DEF T
    <3>3. Cardinality(T) \in 0 .. Cardinality(S) /\ (Cardinality(T) = Cardinality(S) => T = S)
      BY <1>3, <3>1
    <3> QED
      BY <3>2, <3>3 DEF T
  <2> QED
    BY <2>1
<1>6. ASSUME NEW i \in S
      PROVE  /\ Cardinality({k \in S : k <= i}) = Cardinality(S) => \A k \in S : k <= i
             /\ Cardinality({k \in S : k <= i}) \in 1 .. Cardinality(S)
  <2> DEFINE T == {k \in S : k <= i}
  <2>1. T \in SUBSET S /\ T # {}
    <3>1. i \in Nat
      OBVIOUS
    <3>2. i \in T
      BY <3>1
    <3> QED
      BY <3>2
  <2>2. T = S => \A k \in S : k <= i
    OBVIOUS
  <2> HIDE DEF T
  <2>3. /\ Cardinality(T) \in 0 .. Cardinality(S)
        /\ Cardinality(T) = Cardinality(S) => T = S
        /\ Cardinality(T) # 0
    BY <1>3, <2>1
  <2>4. Cardinality(T) \in 1 .. Cardinality(S)
    BY <1>2, <2>3
  <2> QED
    BY <2>2, <2>3, <2>4 DEF T
<1> QED
  BY <1>1, <1>2, <1>4, <1>5, <1>6

(* What is open, and how much of it. *)
LEMMA NestingFields ==
  ASSUME IInv
  PROVE  /\ Len(stack) \in Nat \ {0}
         /\ DOMAIN stack = 1 .. Len(stack)
         /\ OpenLoops \in SUBSET (1 .. Len(stack))
         /\ OpenFuncs \in SUBSET (1 .. Len(stack))
         /\ OpenLoops \cap OpenFuncs = {}
         /\ IsFiniteSet(OpenLoops) /\ Cardinality(OpenLoops) \in Nat
         /\ IsFiniteSet(OpenFuncs) /\ Cardinality(OpenFuncs) \in Nat
         /\ Len(lp_handler.depths) = Cardinality(OpenFuncs) + 1
         /\ Len(lp_handler.breaks) = Cardinality(OpenLoops)
         /\ Len(lp_handler.continues) = Cardinality(OpenLoops)
<1>1. stack \in Seq(ToSet(stack)) /\ Len(stack) > 0
  BY DEF IInv, StackWellFormed
<1>2. Len(stack) \in Nat \ {0} /\ DOMAIN stack = 1 .. Len(stack)
  BY <1>1, ItemsOfSeq
<1>3. /\ OpenLoops \in SUBSET (1 .. Len(stack))
      /\ OpenFuncs \in SUBSET (1 .. Len(stack))
      /\ OpenLoops \cap OpenFuncs = {}
  BY <1>2 DEF OpenLoops, OpenFuncs, LoopSyms
<1>4. /\ IsFiniteSet(OpenLoops) /\ Cardinality(OpenLoops) \in Nat
      /\ IsFiniteSet(OpenFuncs) /\ Cardinality(OpenFuncs) \in Nat
  BY <1>2, <1>3, Ranks
<1> QED
  BY <1>2, <1>3, <1>4 DEF IInv, LoopListsFollowNesting

LEMMA OpenOfCut ==
  ASSUME IInv, NEW m, NEW item, Cut(stack, stack', m, item)
  PROVE  /\ OpenLoops' = {i \in OpenLoops : i < m} \cup (IF item.sym \in LoopSyms THEN {m} ELSE {})
         /\ OpenFuncs' = {i \in OpenFuncs : i < m} \cup (IF item.sym = "func" THEN {m} ELSE {})
         /\ \A i \in OpenLoops \cup OpenFuncs : i < m => stack'[i] = stack[i]
<1>1. /\ Len(stack) \in Nat /\ DOMAIN stack = 1 .. Len(stack)
      /\ m \in 1 .. Len(stack) + 1
      /\ DOMAIN stack' = 1 .. m
      /\ stack'[m] = item
      /\ \A i \in 1 .. m - 1 : stack'[i] = stack[i]
  BY NestingFields, ItemsOfSeq DEF Cut
<1>2. \A i \in 1 .. m : i = m \/ (i \in DOMAIN stack /\ i < m /\ stack'[i] = stack[i])
  BY <1>1
<1>3. \A i \in DOMAIN stack : i < m => i \in 1 .. m /\ i # m /\ stack'[i] = stack[i]
  BY <1>1
<1>4. m \in 1 .. m
  BY <1>1
<1>5. OpenLoops' = {i \in OpenLoops : i < m} \cup (IF item.sym \in LoopSyms THEN {m} ELSE {})
  BY <1>1, <1>2, <1>3, <1>4 DEF OpenLoops
<1>6. OpenFuncs' = {i \in OpenFuncs : i < m} \cup (IF item.sym = "func" THEN {m} ELSE {})
  BY <1>1, <1>2, <1>3, <1>4 DEF OpenFuncs
<1> QED
  BY <1>3, <1>5, <1>6 DEF OpenLoops, OpenFuncs

(* What the loop handler's lists know of a loop. *)
LEMMA ListsOfLoops ==
  ASSUME IInv
  PROVE  /\ \A i \in OpenLoops : LoopNr(i) \in 1 .. Cardinality(OpenLoops)
         /\ \A i \in OpenLoops, j \in OpenLoops \cup OpenFuncs : j >= i =>
              \A n \in lp_handler.breaks[LoopNr(i)] \cup lp_handler.continues[LoopNr(i)] :
                IF i = j THEN n > Header(stack[i]) ELSE n < Header(stack[j])
         /\ \A d \in 1 .. Cardinality(OpenFuncs) + 1 : lp_handler.depths[d] = Cardinality(LoopsOf(d))
         /\ \A l \in 1 .. Cardinality(OpenLoops) :
              /\ lp_handler.breaks[l] \subseteq 0 .. Len(quads) - 1
              /\ lp_handler.continues[l] \subseteq 0 .. Len(quads) - 1
<1>1. \A i \in OpenLoops : LoopNr(i) \in 1 .. Cardinality(OpenLoops)
  BY NestingFields, Ranks DEF LoopNr
<1>2. \A d \in 1 .. Cardinality(OpenFuncs) + 1 : lp_handler.depths[d] = Cardinality(LoopsOf(d))
  BY NestingFields, LoopHandlerFields DEF IInv, LoopListsFollowNesting
<1>3. ASSUME NEW l \in 1 .. Cardinality(OpenLoops), NEW keeper \in {"breaks", "continues"},
             NEW lists, <<keeper, lists>> \in {<<"breaks", lp_handler.breaks>>,
                                               <<"continues", lp_handler.continues>>}
      PROVE  lists[l] \subseteq 0 .. Len(quads) - 1
  <2>1. l \in DOMAIN lists
    BY <1>3, NestingFields, LoopHandlerFields
  <2>2. KeptIn(keeper, lists) \subseteq Keepings
    BY <1>3 DEF Keepings
  <2>3. ASSUME NEW n \in lists[l] PROVE n \in 0 .. Len(quads) - 1
    <3>1. <<keeper, l, n>> \in KeptIn(keeper, lists)
      BY <2>1, KeptInMember
    <3>2. <<keeper, l, n>>[3] = n
      OBVIOUS
    <3> QED
      BY <2>2, <3>1, <3>2, KeptThere
  <2> QED
    BY <2>3
<1> QED
  BY <1>1, <1>2, <1>3 DEF IInv, LoopListsFollowNesting

(* No loop or function is opened or left; a jump may be collected for the  *)
(* innermost loop, which is one of the innermost function.                 *)
LEMMA NestingStays ==
  ASSUME IInv,
         OpenLoops' = OpenLoops, OpenFuncs' = OpenFuncs,
         \A i \in OpenLoops \cup OpenFuncs : Header(stack'[i]) = Header(stack[i]),
         NEW new, new = {} \/ (new = {Len(quads)} /\ IsInLoop(lp_handler)),
         lp_handler'.depths = lp_handler.depths,
         Len(lp_handler'.breaks) = Len(lp_handler.breaks),
         Len(lp_handler'.continues) = Len(lp_handler.continues),
         \A l \in 1 .. Cardinality(OpenLoops) :
           lp_handler'.breaks[l] \cup lp_handler'.continues[l]
             \subseteq lp_handler.breaks[l] \cup lp_handler.continues[l]
                         \cup (IF l = Cardinality(OpenLoops) THEN new ELSE {})
  PROVE  LoopListsFollowNesting'
<1>1. /\ \A d : LoopsOf(d)' = LoopsOf(d)
      /\ \A i : LoopNr(i)' = LoopNr(i)
  BY DEF LoopsOf, LoopNr
<1>2. /\ Len(lp_handler'.depths) = Cardinality(OpenFuncs') + 1
      /\ \A d \in DOMAIN lp_handler'.depths : lp_handler'.depths[d] = Cardinality(LoopsOf(d))
      /\ Len(lp_handler'.breaks) = Cardinality(OpenLoops')
      /\ Len(lp_handler'.continues) = Cardinality(OpenLoops')
  BY NestingFields, LoopHandlerFields, ListsOfLoops
<1>3. ASSUME NEW i \in OpenLoops, NEW j \in OpenLoops \cup OpenFuncs, j >= i,
             NEW n \in lp_handler'.breaks[LoopNr(i)] \cup lp_handler'.continues[LoopNr(i)]
      PROVE  IF i = j THEN n > Header(stack[i]) ELSE n < Header(stack[j])
  <2>1. LoopNr(i) \in 1 .. Cardinality(OpenLoops)
    BY ListsOfLoops
  <2>2. \/ n \in lp_handler.breaks[LoopNr(i)] \cup lp_handler.continues[LoopNr(i)]
        \/ n \in new /\ LoopNr(i) = Cardinality(OpenLoops)
    BY <1>3, <2>1
  <2>3. CASE n \in lp_handler.breaks[LoopNr(i)] \cup lp_handler.continues[LoopNr(i)]
    BY <1>3, <2>3, ListsOfLoops
  <2>4. CASE n \in new /\ LoopNr(i) = Cardinality(OpenLoops)
    <3>1. n = Len(quads) /\ IsInLoop(lp_handler)
      BY <2>4
    <3>2. i \in 1 .. Len(stack) /\ j \in 1 .. Len(stack) /\ Len(stack) \in Nat
      BY NestingFields
    <3>3. \A k \in OpenLoops : k <= i
      BY <2>4, NestingFields, Ranks DEF LoopNr
    <3>4. \A f \in OpenFuncs : f < i
      <4> DEFINE D == Cardinality(OpenFuncs) + 1
      <4>1. D \in 1 .. D /\ D = Len(lp_handler.depths) /\ D - 1 = Cardinality(OpenFuncs)
        BY NestingFields
      <4>2. lp_handler.depths[D] > 0 /\ lp_handler.depths[D] = Cardinality(LoopsOf(D))
        <5> HIDE DEF D
        <5> QED
          BY <3>1, <4>1, ListsOfLoops DEF IsInLoop, TopOf, D
      <4>3. LoopsOf(D) # {}
        <5>1. Cardinality({}) = 0
          BY FS_EmptySet
        <5>2. Cardinality(LoopsOf(D)) # 0
          BY <4>2
        <5> QED
          BY <5>1, <5>2
      <4>4. PICK k \in LoopsOf(D) : TRUE
        BY <4>3
      <4>5. k \in OpenLoops /\ Cardinality({f \in OpenFuncs : f < k}) = Cardinality(OpenFuncs)
        BY <4>1, <4>4 DEF LoopsOf
      <4>6. \A f \in OpenFuncs : f < k
        BY <4>5, NestingFields, Ranks
      <4>7. k <= i
        BY <3>3, <4>5
      <4>8. \A f \in OpenFuncs : f \in 1 .. Len(stack)
        BY NestingFields
      <4>9. k \in 1 .. Len(stack)
        BY <4>5, NestingFields
      <4> QED
        BY <3>2, <4>6, <4>7, <4>8, <4>9
    <3>5. i = j
      BY <1>3, <3>2, <3>3, <3>4
    <3>6. Header(stack[i]) \in 0 .. Len(quads) - 1
      <4>1. /\ KnowsQuads(stack[i], quads)
            /\ stack[i].sym \in LoopSyms
        BY DEF IInv, StackWellFormed, OpenLoops
      <4> QED
        BY <4>1 DEF KnowsQuads, Header, LoopSyms
    <3>7. Len(quads) \in Nat
      BY LenProperties DEF IInv, HandlerTypes
    <3> QED
      BY <3>1, <3>5, <3>6, <3>7
  <2> QED
    BY <2>2, <2>3, <2>4
<1>4. ASSUME NEW i \in OpenLoops', NEW j \in (OpenLoops \cup OpenFuncs)', j >= i,
             NEW n \in lp_handler'.breaks[LoopNr(i)] \cup lp_handler'.continues[LoopNr(i)]
      PROVE  IF i = j THEN n > Header(stack'[i]) ELSE n < Header(stack'[j])
  BY <1>3, <1>4
<1> QED
  BY <1>1, <1>2, <1>4 DEF LoopListsFollowNesting

LEMMA NestingLoopOpened ==
  ASSUME IInv, NEW p, p = Len(stack) + 1,
         OpenLoops' = OpenLoops \cup {p}, OpenFuncs' = OpenFuncs,
         \A i \in OpenLoops \cup OpenFuncs : stack'[i] = stack[i],
         Header(stack'[p]) \in Nat, Header(stack'[p]) >= Len(quads),
         lp_handler' = EnterLoop(lp_handler)
  PROVE  LoopListsFollowNesting'
<1> DEFINE D == Cardinality(OpenFuncs) + 1
           L == Cardinality(OpenLoops)
<1>1. /\ OpenLoops \in SUBSET (1 .. Len(stack)) /\ OpenFuncs \in SUBSET (1 .. Len(stack))
      /\ Len(stack) \in Nat /\ L \in Nat /\ D \in Nat /\ D \in 1 .. D
      /\ IsFiniteSet(OpenLoops) /\ IsFiniteSet(OpenFuncs)
  BY NestingFields
<1>2. p \notin OpenLoops /\ p \notin OpenFuncs /\ \A i \in OpenLoops \cup OpenFuncs : i < p
  BY <1>1
<1>3. Cardinality(OpenLoops') = L + 1
  BY <1>1, <1>2, FS_AddElement
<1>4. /\ Len(lp_handler'.depths) = D
      /\ DOMAIN lp_handler'.depths = 1 .. D
      /\ \A d \in 1 .. D : lp_handler'.depths[d] =
           IF d = D THEN lp_handler.depths[D] + 1 ELSE lp_handler.depths[d]
  <2> DEFINE depths == lp_handler.depths
  <2>1. depths \in Seq(Nat) /\ Len(depths) = D
    BY LoopHandlerFields, NestingFields
  <2>2. lp_handler'.depths = [depths EXCEPT ![D] = depths[D] + 1]
    BY <2>1 DEF EnterLoop, ReplaceTop, TopOf
  <2>3. depths[D] + 1 \in Nat
    <3> HIDE DEF depths, D
    <3> QED
      BY <1>1, <2>1, ItemsOfSeq
  <2>4. /\ [depths EXCEPT ![D] = depths[D] + 1] \in Seq(Nat)
        /\ Len([depths EXCEPT ![D] = depths[D] + 1]) = D
        /\ \A d \in 1 .. D : [depths EXCEPT ![D] = depths[D] + 1][d] =
             IF d = D THEN depths[D] + 1 ELSE depths[d]
    <3> HIDE DEF depths, D
    <3> QED
      BY <1>1, <2>1, <2>3, ExceptSeq
  <2>5. DOMAIN [depths EXCEPT ![D] = depths[D] + 1] = 1 .. D
    <3> HIDE DEF depths, D
    <3> QED
      BY <2>4, ItemsOfSeq
  <2> QED
    BY <2>2, <2>4, <2>5
<1>5. /\ Len(lp_handler'.breaks) = L + 1 /\ Len(lp_handler'.continues) = L + 1
      /\ lp_handler'.breaks[L + 1] = {} /\ lp_handler'.continues[L + 1] = {}
      /\ \A l \in 1 .. L : /\ lp_handler'.breaks[l] = lp_handler.breaks[l]
                           /\ lp_handler'.continues[l] = lp_handler.continues[l]
  <2>1. ASSUME NEW lists \in Seq(SUBSET Nat), Len(lists) = L
        PROVE  /\ Len(Append(lists, {})) = L + 1
               /\ Append(lists, {})[L + 1] = {}
               /\ \A l \in 1 .. L : Append(lists, {})[l] = lists[l]
    <3>1. {} \in SUBSET Nat
      OBVIOUS
    <3> HIDE DEF L
    <3> QED
      BY <2>1, <3>1, AppendProperties
  <2> QED
    BY <2>1, LoopHandlerFields, NestingFields DEF EnterLoop
<1>6. ASSUME NEW d \in 1 .. D
      PROVE  lp_handler'.depths[d] = Cardinality(LoopsOf(d)')
  <2>1. LoopsOf(d) \in SUBSET OpenLoops /\ IsFiniteSet(LoopsOf(d)) /\ p \notin LoopsOf(d)
    <3>1. LoopsOf(d) \in SUBSET OpenLoops
      BY DEF LoopsOf
    <3> QED
      BY <1>1, <1>2, <3>1, FS_Subset
  <2>2. {f \in OpenFuncs : f < p} = OpenFuncs
    BY <1>2
  <2>3. LoopsOf(d)' = IF d = D THEN LoopsOf(d) \cup {p} ELSE LoopsOf(d)
    <3>1. Cardinality({f \in OpenFuncs' : f < p}) = d - 1 <=> d = D
      <4> DEFINE c == Cardinality(OpenFuncs)
      <4>1. c \in Nat
        BY NestingFields
      <4>2. Cardinality({f \in OpenFuncs' : f < p}) = c
        BY <2>2
      <4>3. d \in 1 .. c + 1 /\ D = c + 1
        OBVIOUS
      <4> HIDE DEF c, D
      <4> QED
        BY <4>1, <4>2, <4>3
    <3> HIDE DEF D
    <3> QED
      BY <3>1 DEF LoopsOf
  <2>4. Cardinality(LoopsOf(d)') = Cardinality(LoopsOf(d)) + (IF d = D THEN 1 ELSE 0)
    <3>1. Cardinality(LoopsOf(d)) \in Nat
      BY <2>1, FS_CardinalityType
    <3>2. Cardinality(LoopsOf(d) \cup {p}) = Cardinality(LoopsOf(d)) + 1
      BY <2>1, FS_AddElement
    <3> HIDE DEF D
    <3> QED
      BY <2>3, <3>1, <3>2
  <2>5. lp_handler.depths[d] = Cardinality(LoopsOf(d)) /\ Cardinality(LoopsOf(d)) \in Nat
    BY <2>1, ListsOfLoops, FS_CardinalityType
  <2> HIDE DEF D
  <2> QED
    BY <1>4, <2>4, <2>5
<1>7. /\ LoopNr(p)' = L + 1
      /\ \A i \in OpenLoops : LoopNr(i)' = LoopNr(i)
  <2>1. {k \in OpenLoops' : k <= p} = OpenLoops'
    <3>1. \A k \in OpenLoops' : k <= p
      BY <1>1
    <3> QED
      BY <3>1
  <2>2. ASSUME NEW i \in OpenLoops
        PROVE  {k \in OpenLoops' : k <= i} = {k \in OpenLoops : k <= i}
    <3>1. ~(p <= i)
      BY <1>1, <1>2
    <3> QED
      BY <3>1
  <2> QED
    BY <1>3, <2>1, <2>2 DEF LoopNr
<1>8. ASSUME NEW i \in OpenLoops', NEW j \in (OpenLoops \cup OpenFuncs)', j >= i,
             NEW n \in lp_handler'.breaks[LoopNr(i)'] \cup lp_handler'.continues[LoopNr(i)']
      PROVE  IF i = j THEN n > Header(stack'[i]) ELSE n < Header(stack'[j])
  <2>1. CASE i = p
    BY <1>5, <1>7, <1>8, <2>1
  <2>2. CASE i \in OpenLoops
    <3>1. LoopNr(i) \in 1 .. L
      BY <2>2, ListsOfLoops
    <3>2. n \in lp_handler.breaks[LoopNr(i)] \cup lp_handler.continues[LoopNr(i)]
      BY <1>5, <1>7, <1>8, <2>2, <3>1
    <3>3. CASE j \in OpenLoops \cup OpenFuncs
      BY <1>8, <2>2, <3>2, <3>3, ListsOfLoops
    <3>4. CASE j = p
      <4>1. n \in 0 .. Len(quads) - 1
        BY <3>1, <3>2, ListsOfLoops
      <4>2. i # j
        BY <1>2, <2>2, <3>4
      <4>3. Len(quads) \in Nat
        BY LenProperties DEF IInv, HandlerTypes
      <4> QED
        BY <3>4, <4>1, <4>2, <4>3
    <3> QED
      BY <1>8, <3>3, <3>4
  <2> QED
    BY <1>8, <2>1, <2>2
<1> QED
  <2>1. Len(lp_handler'.depths) = Cardinality(OpenFuncs') + 1
    BY <1>4
  <2> HIDE DEF D, L
  <2>2. \A d \in DOMAIN lp_handler'.depths : lp_handler'.depths[d] = Cardinality(LoopsOf(d)')
    BY <1>4, <1>6
  <2> QED
    BY <1>3, <1>5, <1>8, <2>1, <2>2 DEF LoopListsFollowNesting

LEMMA NestingLoopClosed ==
  ASSUME IInv, NEW p \in OpenLoops, \A i \in OpenLoops \cup OpenFuncs : i <= p,
         OpenLoops' = OpenLoops \ {p}, OpenFuncs' = OpenFuncs,
         \A i \in OpenLoops' \cup OpenFuncs : stack'[i] = stack[i],
         lp_handler' = ExitLoop(lp_handler)
  PROVE  /\ LoopListsFollowNesting'
         /\ lp_handler' \in [depths : Seq(Nat), breaks : Seq(SUBSET Nat), continues : Seq(SUBSET Nat)]
<1> DEFINE D == Cardinality(OpenFuncs) + 1
           L == Cardinality(OpenLoops)
<1>1. /\ OpenLoops \in SUBSET (1 .. Len(stack)) /\ OpenFuncs \in SUBSET (1 .. Len(stack))
      /\ OpenLoops \cap OpenFuncs = {}
      /\ Len(stack) \in Nat /\ L \in Nat /\ D \in Nat /\ D \in 1 .. D
      /\ IsFiniteSet(OpenLoops) /\ IsFiniteSet(OpenFuncs)
  BY NestingFields
<1>2. /\ p \in Nat
      /\ \A f \in OpenFuncs : f < p
      /\ \A i \in OpenLoops' : i < p
  BY <1>1
<1>3. Cardinality(OpenLoops') = L - 1 /\ L - 1 \in Nat
  <2>1. Cardinality(OpenLoops') = L - 1
    BY <1>1, FS_RemoveElement
  <2>2. L # 0
    BY <1>1, FS_EmptySet
  <2> HIDE DEF L
  <2> QED
    BY <1>1, <2>1, <2>2
<1>4. {f \in OpenFuncs : f < p} = OpenFuncs
  BY <1>2
<1>5. ASSUME NEW d \in 1 .. D
      PROVE  /\ Cardinality(LoopsOf(d)) \in Nat
             /\ Cardinality(LoopsOf(d)') = Cardinality(LoopsOf(d)) - (IF d = D THEN 1 ELSE 0)
             /\ d = D => Cardinality(LoopsOf(d)) # 0
  <2>1. LoopsOf(d) \in SUBSET OpenLoops /\ IsFiniteSet(LoopsOf(d))
    <3>1. LoopsOf(d) \in SUBSET OpenLoops
      BY DEF LoopsOf
    <3> QED
      BY <1>1, <3>1, FS_Subset
  <2>2. Cardinality({f \in OpenFuncs : f < p}) = d - 1 <=> d = D
    <3> DEFINE c == Cardinality(OpenFuncs)
    <3>1. c \in Nat
      BY NestingFields
    <3>2. Cardinality({f \in OpenFuncs : f < p}) = c
      BY <1>4
    <3>3. d \in 1 .. c + 1 /\ D = c + 1
      OBVIOUS
    <3> HIDE DEF c, D
    <3> QED
      BY <3>1, <3>2, <3>3
  <2> HIDE DEF D
  <2>3. LoopsOf(d)' = LoopsOf(d) \ {p} /\ (p \in LoopsOf(d) <=> d = D)
    BY <2>2 DEF LoopsOf
  <2>4. Cardinality(LoopsOf(d)) \in Nat
    BY <2>1, FS_CardinalityType
  <2>5. Cardinality(LoopsOf(d) \ {p}) =
          IF p \in LoopsOf(d) THEN Cardinality(LoopsOf(d)) - 1 ELSE Cardinality(LoopsOf(d))
    BY <2>1, FS_RemoveElement
  <2>6. p \in LoopsOf(d) => Cardinality(LoopsOf(d)) # 0
    BY <2>1, FS_EmptySet
  <2> QED
    BY <2>3, <2>4, <2>5, <2>6
<1>6. /\ lp_handler'.depths \in Seq(Nat)
      /\ Len(lp_handler'.depths) = D
      /\ DOMAIN lp_handler'.depths = 1 .. D
      /\ \A d \in 1 .. D : lp_handler'.depths[d] = Cardinality(LoopsOf(d)')
  <2> DEFINE depths == lp_handler.depths
             new == [depths EXCEPT ![D] = depths[D] - 1]
  <2>1. depths \in Seq(Nat) /\ Len(depths) = D
    BY LoopHandlerFields, NestingFields
  <2>2. lp_handler'.depths = new
    BY <2>1 DEF ExitLoop, ReplaceTop, TopOf
  <2>3. \A d \in 1 .. D : depths[d] = Cardinality(LoopsOf(d))
    BY ListsOfLoops
  <2>4. depths[D] - 1 \in Nat
    <3> HIDE DEF depths, D
    <3> QED
      BY <1>1, <1>5, <2>3
  <2>5. /\ new \in Seq(Nat)
        /\ Len(new) = D
        /\ \A d \in 1 .. D : new[d] = IF d = D THEN depths[D] - 1 ELSE depths[d]
    <3> HIDE DEF depths, D
    <3> QED
      BY <1>1, <2>1, <2>4, ExceptSeq
  <2> HIDE DEF depths, D, new
  <2>6. DOMAIN new = 1 .. D
    BY <2>5, ItemsOfSeq
  <2>7. \A d \in 1 .. D : new[d] = Cardinality(LoopsOf(d)')
    BY <1>1, <1>5, <2>3, <2>5
  <2> QED
    BY <2>2, <2>5, <2>6, <2>7
<1>7. /\ lp_handler'.breaks \in Seq(SUBSET Nat) /\ lp_handler'.continues \in Seq(SUBSET Nat)
      /\ Len(lp_handler'.breaks) = L - 1 /\ Len(lp_handler'.continues) = L - 1
      /\ \A l \in 1 .. L - 1 : /\ lp_handler'.breaks[l] = lp_handler.breaks[l]
                               /\ lp_handler'.continues[l] = lp_handler.continues[l]
  <2>1. ASSUME NEW lists \in Seq(SUBSET Nat), Len(lists) = L
        PROVE  /\ Front(lists) \in Seq(SUBSET Nat)
               /\ Len(Front(lists)) = L - 1
               /\ \A l \in 1 .. L - 1 : Front(lists)[l] = lists[l]
    <3> HIDE DEF L
    <3>1. 1 \in Nat /\ 1 <= L
      BY <1>1, <1>3
    <3> QED
      BY <2>1, <3>1, PoppedFields DEF Front
  <2> QED
    BY <2>1, LoopHandlerFields, NestingFields DEF ExitLoop
<1>8. \A i \in OpenLoops' : LoopNr(i)' = LoopNr(i) /\ LoopNr(i) \in 1 .. L - 1
  <2>1. ASSUME NEW i \in OpenLoops'
        PROVE  /\ {k \in OpenLoops' : k <= i} = {k \in OpenLoops : k <= i}
               /\ LoopNr(i) \in 1 .. L - 1
    <3>1. i \in Nat /\ ~(p <= i) /\ i \in OpenLoops
      BY <1>1, <1>2
    <3>2. LoopNr(i) \in 1 .. L /\ LoopNr(i) # L
      BY <1>1, <3>1, Ranks DEF LoopNr
    <3>3. {k \in OpenLoops' : k <= i} = {k \in OpenLoops : k <= i}
      BY <3>1
    <3> HIDE DEF L
    <3> QED
      BY <1>1, <3>2, <3>3
  <2> QED
    BY <2>1 DEF LoopNr
<1>9. ASSUME NEW i \in OpenLoops', NEW j \in (OpenLoops \cup OpenFuncs)', j >= i,
             NEW n \in lp_handler'.breaks[LoopNr(i)'] \cup lp_handler'.continues[LoopNr(i)']
      PROVE  IF i = j THEN n > Header(stack'[i]) ELSE n < Header(stack'[j])
  <2>1. n \in lp_handler.breaks[LoopNr(i)] \cup lp_handler.continues[LoopNr(i)]
    BY <1>7, <1>8, <1>9
  <2>2. i \in OpenLoops /\ j \in OpenLoops \cup OpenFuncs
    BY <1>9
  <2>3. stack'[i] = stack[i] /\ stack'[j] = stack[j]
    BY <1>9
  <2> QED
    BY <1>9, <2>1, <2>2, <2>3, ListsOfLoops
<1>10. lp_handler' \in [depths : Seq(Nat), breaks : Seq(SUBSET Nat), continues : Seq(SUBSET Nat)]
  BY <1>6, <1>7 DEF ExitLoop
<1> QED
  <2>1. Len(lp_handler'.depths) = Cardinality(OpenFuncs') + 1
    BY <1>6
  <2> HIDE DEF D, L
  <2>2. \A d \in DOMAIN lp_handler'.depths : lp_handler'.depths[d] = Cardinality(LoopsOf(d)')
    BY <1>6
  <2> QED
    BY <1>3, <1>7, <1>9, <1>10, <2>1, <2>2 DEF LoopListsFollowNesting

LEMMA NestingFuncOpened ==
  ASSUME IInv, NEW p, p = Len(stack) + 1,
         OpenLoops' = OpenLoops, OpenFuncs' = OpenFuncs \cup {p},
         \A i \in OpenLoops \cup OpenFuncs : stack'[i] = stack[i],
         Header(stack'[p]) \in Nat, Header(stack'[p]) >= Len(quads),
         lp_handler' = EnterFunction(lp_handler)
  PROVE  /\ LoopListsFollowNesting'
         /\ lp_handler' \in [depths : Seq(Nat), breaks : Seq(SUBSET Nat), continues : Seq(SUBSET Nat)]
<1> DEFINE D == Cardinality(OpenFuncs) + 1
           L == Cardinality(OpenLoops)
<1>1. /\ OpenLoops \in SUBSET (1 .. Len(stack)) /\ OpenFuncs \in SUBSET (1 .. Len(stack))
      /\ Len(stack) \in Nat /\ L \in Nat /\ D \in Nat
      /\ IsFiniteSet(OpenLoops) /\ IsFiniteSet(OpenFuncs)
  BY NestingFields
<1>2. p \in Nat /\ p \notin OpenFuncs /\ \A i \in OpenLoops \cup OpenFuncs : i < p
  BY <1>1
<1>3. Cardinality(OpenFuncs') = D
  BY <1>1, <1>2, FS_AddElement
<1>4. \A d : LoopsOf(d)' = LoopsOf(d)
  <2>1. \A i \in OpenLoops : {f \in OpenFuncs' : f < i} = {f \in OpenFuncs : f < i}
    BY <1>1, <1>2
  <2> QED
    BY <2>1 DEF LoopsOf
<1>5. Cardinality(LoopsOf(D + 1)) = 0
  <2>1. ASSUME NEW i \in LoopsOf(D + 1) PROVE FALSE
    <3>1. Cardinality({f \in OpenFuncs : f < i}) = D
      BY <1>1, <2>1 DEF LoopsOf
    <3>2. Cardinality({f \in OpenFuncs : f < i}) \in 0 .. D - 1
      <4>1. Cardinality({f \in OpenFuncs : f < i}) \in 0 .. Cardinality(OpenFuncs)
        BY <1>1, Ranks
      <4> DEFINE c == Cardinality(OpenFuncs)
      <4>2. c \in Nat /\ D = c + 1
        BY NestingFields
      <4> HIDE DEF D
      <4>3. Cardinality({f \in OpenFuncs : f < i}) \in 0 .. c
        BY <4>1
      <4> HIDE DEF c
      <4> QED
        BY <4>2, <4>3
    <3> HIDE DEF D
    <3> QED
      BY <1>1, <3>1, <3>2
  <2>2. LoopsOf(D + 1) = {}
    BY <2>1
  <2> QED
    BY <2>2, FS_EmptySet
<1>6. /\ lp_handler'.depths \in Seq(Nat)
      /\ Len(lp_handler'.depths) = D + 1
      /\ DOMAIN lp_handler'.depths = 1 .. D + 1
      /\ \A d \in 1 .. D + 1 : lp_handler'.depths[d] = Cardinality(LoopsOf(d))
  <2> DEFINE depths == lp_handler.depths
             new == Append(depths, 0)
  <2>1. depths \in Seq(Nat) /\ Len(depths) = D
    BY LoopHandlerFields, NestingFields
  <2>2. lp_handler'.depths = new
    BY LoopHandlerFields DEF EnterFunction
  <2>3. \A d \in 1 .. D : depths[d] = Cardinality(LoopsOf(d))
    BY ListsOfLoops
  <2>4. /\ new \in Seq(Nat)
        /\ Len(new) = D + 1
        /\ new[D + 1] = 0
        /\ \A d \in 1 .. D : new[d] = depths[d]
    <3>1. 0 \in Nat
      OBVIOUS
    <3> HIDE DEF depths, D
    <3> QED
      BY <2>1, <3>1, AppendProperties
  <2> HIDE DEF depths, D, new
  <2>5. DOMAIN new = 1 .. D + 1
    BY <2>4, ItemsOfSeq
  <2>6. \A d \in 1 .. D + 1 : d \in 1 .. D \/ d = D + 1
    BY <1>1
  <2> QED
    BY <1>5, <2>2, <2>3, <2>4, <2>5, <2>6
<1>7. lp_handler'.breaks = lp_handler.breaks /\ lp_handler'.continues = lp_handler.continues
  BY LoopHandlerFields DEF EnterFunction
<1>8. \A i : LoopNr(i)' = LoopNr(i)
  BY DEF LoopNr
<1>9. ASSUME NEW i \in OpenLoops', NEW j \in (OpenLoops \cup OpenFuncs)', j >= i,
             NEW n \in lp_handler'.breaks[LoopNr(i)'] \cup lp_handler'.continues[LoopNr(i)']
      PROVE  IF i = j THEN n > Header(stack'[i]) ELSE n < Header(stack'[j])
  <2>1. n \in lp_handler.breaks[LoopNr(i)] \cup lp_handler.continues[LoopNr(i)] /\ i \in OpenLoops
    BY <1>7, <1>8, <1>9
  <2>2. CASE j \in OpenLoops \cup OpenFuncs
    BY <1>9, <2>1, <2>2, ListsOfLoops
  <2>3. CASE j = p
    <3>1. n \in 0 .. Len(quads) - 1
      BY <2>1, ListsOfLoops
    <3>2. i # j
      BY <1>2, <2>1, <2>3
    <3>3. Len(quads) \in Nat
      BY LenProperties DEF IInv, HandlerTypes
    <3> QED
      BY <2>3, <3>1, <3>2, <3>3
  <2> QED
    BY <1>9, <2>2, <2>3
<1>10. lp_handler' \in [depths : Seq(Nat), breaks : Seq(SUBSET Nat), continues : Seq(SUBSET Nat)]
  BY <1>6, LoopHandlerFields DEF EnterFunction
<1> QED
  <2>1. /\ Len(lp_handler'.breaks) = Cardinality(OpenLoops')
        /\ Len(lp_handler'.continues) = Cardinality(OpenLoops')
    BY <1>7, NestingFields
  <2> HIDE DEF D, L
  <2>2. \A d \in DOMAIN lp_handler'.depths : lp_handler'.depths[d] = Cardinality(LoopsOf(d)')
    BY <1>4, <1>6
  <2>3. Len(lp_handler'.depths) = Cardinality(OpenFuncs') + 1
    BY <1>3, <1>6
  <2> QED
    BY <1>9, <1>10, <2>1, <2>2, <2>3 DEF LoopListsFollowNesting

LEMMA NestingFuncClosed ==
  ASSUME IInv, NEW p \in OpenFuncs, \A i \in OpenLoops \cup OpenFuncs : i <= p,
         OpenLoops' = OpenLoops, OpenFuncs' = OpenFuncs \ {p},
         \A i \in OpenLoops \cup OpenFuncs' : Header(stack'[i]) = Header(stack[i]),
         lp_handler' = ExitFunction(lp_handler)
  PROVE  /\ LoopListsFollowNesting'
         /\ lp_handler' \in [depths : Seq(Nat), breaks : Seq(SUBSET Nat), continues : Seq(SUBSET Nat)]
<1> DEFINE c == Cardinality(OpenFuncs)
<1>1. /\ OpenLoops \in SUBSET (1 .. Len(stack)) /\ OpenFuncs \in SUBSET (1 .. Len(stack))
      /\ OpenLoops \cap OpenFuncs = {}
      /\ Len(stack) \in Nat /\ c \in Nat
      /\ IsFiniteSet(OpenFuncs)
  BY NestingFields
<1>2. \A i \in OpenLoops : i < p
  BY <1>1
<1>3. Cardinality(OpenFuncs') = c - 1 /\ c # 0
  <2>1. Cardinality(OpenFuncs') = c - 1
    BY <1>1, FS_RemoveElement
  <2> QED
    BY <1>1, <2>1, FS_EmptySet
<1>4. \A d : LoopsOf(d)' = LoopsOf(d)
  <2>1. \A i \in OpenLoops : {f \in OpenFuncs' : f < i} = {f \in OpenFuncs : f < i}
    <3>1. \A i \in OpenLoops : ~(p < i)
      BY <1>1, <1>2
    <3> QED
      BY <3>1
  <2> QED
    BY <2>1 DEF LoopsOf
<1>5. /\ lp_handler'.depths \in Seq(Nat)
      /\ Len(lp_handler'.depths) = c
      /\ DOMAIN lp_handler'.depths = 1 .. c
      /\ \A d \in 1 .. c : lp_handler'.depths[d] = Cardinality(LoopsOf(d))
  <2> DEFINE depths == lp_handler.depths
             new == SubSeq(depths, 1, Len(depths) - 1)
  <2>1. depths \in Seq(Nat) /\ Len(depths) = c + 1
    BY LoopHandlerFields, NestingFields
  <2>2. lp_handler'.depths = new
    BY LoopHandlerFields DEF ExitFunction, Front
  <2>3. \A d \in 1 .. c + 1 : depths[d] = Cardinality(LoopsOf(d))
    BY ListsOfLoops
  <2>4. /\ new \in Seq(Nat)
        /\ Len(new) = Len(depths) - 1
        /\ \A d \in 1 .. Len(depths) - 1 : new[d] = depths[d]
    <3> HIDE DEF depths, c
    <3>1. 1 \in Nat /\ 1 <= Len(depths)
      BY <1>1, <2>1
    <3> QED
      BY <2>1, <3>1, PoppedFields
  <2> HIDE DEF depths, c, new
  <2>5. Len(depths) - 1 = c /\ \A d \in 1 .. c : d \in 1 .. c + 1
    BY <1>1, <2>1
  <2>6. DOMAIN new = 1 .. c
    BY <2>4, <2>5, ItemsOfSeq
  <2> QED
    BY <2>2, <2>3, <2>4, <2>5, <2>6
<1>6. lp_handler'.breaks = lp_handler.breaks /\ lp_handler'.continues = lp_handler.continues
  BY LoopHandlerFields DEF ExitFunction
<1>7. \A i : LoopNr(i)' = LoopNr(i)
  BY DEF LoopNr
<1>8. ASSUME NEW i \in OpenLoops', NEW j \in (OpenLoops \cup OpenFuncs)', j >= i,
             NEW n \in lp_handler'.breaks[LoopNr(i)'] \cup lp_handler'.continues[LoopNr(i)']
      PROVE  IF i = j THEN n > Header(stack'[i]) ELSE n < Header(stack'[j])
  <2>1. n \in lp_handler.breaks[LoopNr(i)] \cup lp_handler.continues[LoopNr(i)]
    BY <1>6, <1>7
  <2>2. i \in OpenLoops /\ j \in OpenLoops \cup OpenFuncs
    OBVIOUS
  <2>3. Header(stack'[i]) = Header(stack[i]) /\ Header(stack'[j]) = Header(stack[j])
    OBVIOUS
  <2> QED
    BY <1>8, <2>1, <2>2, <2>3, ListsOfLoops
<1>9. lp_handler' \in [depths : Seq(Nat), breaks : Seq(SUBSET Nat), continues : Seq(SUBSET Nat)]
  BY <1>5, LoopHandlerFields DEF ExitFunction
<1> QED
  <2>1. /\ Len(lp_handler'.breaks) = Cardinality(OpenLoops')
        /\ Len(lp_handler'.continues) = Cardinality(OpenLoops')
    BY <1>6, NestingFields
  <2> HIDE DEF c
  <2>2. \A d \in DOMAIN lp_handler'.depths : lp_handler'.depths[d] = Cardinality(LoopsOf(d)')
    BY <1>4, <1>5
  <2>3. Len(lp_handler'.depths) = Cardinality(OpenFuncs') + 1
    BY <1>1, <1>3, <1>5
  <2> QED
    BY <1>8, <1>9, <2>1, <2>2, <2>3 DEF LoopListsFollowNesting

-----------------------------------------------------------------------------
(* What a step does to the jumps that are kept.                            *)

Pairs(keeper, i, ns) == {<<keeper, i, n>> : n \in ns}

KeptOf(s)     == [i \in DOMAIN s |-> Kept(s[i])]
StackKeepings == KeptIn("stack", KeptOf(stack))
ListKeepings  == KeptIn("breaks", lp_handler.breaks) \cup KeptIn("continues", lp_handler.continues)

LEMMA KeepingsAre ==
  /\ Keepings = StackKeepings \cup ListKeepings
  /\ \A k \in StackKeepings, l \in ListKeepings : k # l
<1>1. Keepings = StackKeepings \cup ListKeepings
  BY DEF Keepings, StackKeepings, ListKeepings, KeptOf
<1>2. ASSUME NEW k \in StackKeepings, NEW l \in ListKeepings PROVE k # l
  <2>1. k[1] = "stack"
    BY KeptInMember DEF StackKeepings
  <2>2. l[1] = "breaks" \/ l[1] = "continues"
    BY KeptInMember DEF ListKeepings
  <2> QED
    BY <2>1, <2>2
<1> QED
  BY <1>1, <1>2

(* What the cut items kept is gone, what the new item keeps is new. *)
LEMMA KeptByStack ==
  ASSUME IInv, NEW m, NEW item, Cut(stack, stack', m, item)
  PROVE  \E gone \in SUBSET StackKeepings :
           /\ StackKeepings' = (StackKeepings \ gone) \cup Pairs("stack", m, Kept(item))
           /\ m = Len(stack) + 1 => gone = {}
           /\ m = Len(stack) => gone = Pairs("stack", Len(stack), Kept(Top))
           /\ (m = Len(stack) - 1 /\ Kept(Top) = {})
                => gone = Pairs("stack", Len(stack) - 1, Kept(Below))
<1> DEFINE s == KeptOf(stack)
           t == KeptOf(stack')
           S == {Kept(stack[i]) : i \in DOMAIN stack}
           T == {Kept(stack'[i]) : i \in DOMAIN stack'}
           K == Len(stack)
<1>1. /\ Len(stack) \in Nat /\ DOMAIN stack = 1 .. Len(stack)
      /\ m \in 1 .. Len(stack) + 1
      /\ DOMAIN stack' = 1 .. m
      /\ stack'[m] = item
      /\ \A i \in 1 .. m - 1 : stack'[i] = stack[i]
  BY NestingFields, ItemsOfSeq DEF Cut
<1>2. s \in [1 .. K -> S] /\ t \in [1 .. m -> T]
  BY <1>1 DEF KeptOf
<1>3. /\ s \in Seq(S) /\ Len(s) = K
      /\ t \in Seq(T) /\ Len(t) = m
  <2> HIDE DEF s, t, S, T, K
  <2>1. K \in Nat /\ m \in Nat
    BY <1>1 DEF K
  <2> QED
    BY <1>2, <2>1, SeqDef
<1>4. t[m] = Kept(item) /\ \A i \in 1 .. m - 1 : t[i] = s[i]
  <2>1. m \in 1 .. m /\ \A i \in 1 .. m - 1 : i \in 1 .. m /\ i \in 1 .. K
    BY <1>1
  <2> QED
    BY <1>1, <2>1 DEF KeptOf
<1>5. Cut(s, t, m, Kept(item))
  <2>1. t \in Seq(ToSet(t))
    <3> HIDE DEF t, T
    <3> QED
      BY <1>3, ItemsOfSeq
  <2> HIDE DEF s, t, S, T
  <2> QED
    BY <1>1, <1>3, <1>4, <2>1 DEF Cut
<1> DEFINE old == KeptIn("stack", s)
           gone == {k \in old : ~(k[2] < m)}
<1>6. KeptIn("stack", t) = {k \in old : k[2] < m} \cup {<<"stack", m, n>> : n \in Kept(item)}
  <2> HIDE DEF s, t, S, T
  <2> QED
    BY <1>3, <1>5, KeptInCut
<1>7. \A k : k \in old <=> \E i \in 1 .. K : \E n \in Kept(stack[i]) : k = <<"stack", i, n>>
  <2>1. DOMAIN s = 1 .. K /\ \A i \in 1 .. K : s[i] = Kept(stack[i])
    BY <1>1 DEF KeptOf
  <2> HIDE DEF s, K
  <2>2. \A k : k \in KeptIn("stack", s) <=> \E i \in DOMAIN s : \E n \in s[i] : k = <<"stack", i, n>>
    BY KeptInMember
  <2>3. ASSUME NEW k
        PROVE  k \in KeptIn("stack", s) <=> \E i \in 1 .. K : \E n \in Kept(stack[i]) : k = <<"stack", i, n>>
    BY <2>1, <2>2, Zenon
  <2> QED
    BY <2>3
<1>8. m = K + 1 => gone = {}
  <2>1. ASSUME NEW k \in old, m = K + 1 PROVE k[2] < m
    <3> HIDE DEF old
    <3>1. PICK i \in 1 .. K : \E n \in Kept(stack[i]) : k = <<"stack", i, n>>
      BY <1>7, <2>1
    <3>2. k[2] = i
      BY <3>1
    <3> QED
      BY <1>1, <2>1, <3>2
  <2> QED
    BY <2>1
<1>9. m = K => gone = Pairs("stack", K, Kept(Top))
  <2>1. ASSUME NEW k \in gone, m = K PROVE k \in Pairs("stack", K, Kept(Top))
    <3>1. k \in old /\ ~(k[2] < m)
      OBVIOUS
    <3> HIDE DEF old, gone
    <3>2. PICK i \in 1 .. K : \E n \in Kept(stack[i]) : k = <<"stack", i, n>>
      BY <1>7, <3>1
    <3>3. k[2] = i
      BY <3>2
    <3>4. i = K
      <4>1. i \in 1 .. K /\ K \in Nat /\ ~(i < m) /\ m = K
        BY <1>1, <2>1, <3>1, <3>3
      <4> HIDE DEF K
      <4> QED
        BY <4>1
    <3> QED
      BY <3>2, <3>4 DEF Pairs, Top, TopOf
  <2>2. ASSUME NEW n \in Kept(stack[K]), m = K PROVE <<"stack", K, n>> \in gone
    <3>1. K \in 1 .. K /\ ~(K < m)
      BY <1>1, <2>2
    <3>2. <<"stack", K, n>>[2] = K
      OBVIOUS
    <3>3. <<"stack", K, n>> \in old
      <4> HIDE DEF old, K
      <4> QED
        BY <1>7, <2>2, <3>1
    <3> QED
      BY <3>1, <3>2, <3>3
  <2> HIDE DEF gone
  <2> QED
    BY <2>1, <2>2 DEF Pairs, Top, TopOf
<1>10. (m = K - 1 /\ Kept(Top) = {}) => gone = Pairs("stack", K - 1, Kept(Below))
  <2>1. ASSUME NEW k \in gone, m = K - 1, Kept(Top) = {} PROVE k \in Pairs("stack", K - 1, Kept(Below))
    <3>1. k \in old /\ ~(k[2] < m)
      OBVIOUS
    <3> HIDE DEF old, gone
    <3>2. PICK i \in 1 .. K : \E n \in Kept(stack[i]) : k = <<"stack", i, n>>
      BY <1>7, <3>1
    <3>3. k[2] = i
      BY <3>2
    <3>4. i # K
      BY <2>1, <3>2 DEF Top, TopOf
    <3>5. i = K - 1
      <4>1. i \in 1 .. K /\ K \in Nat /\ ~(i < m) /\ m = K - 1 /\ i # K
        BY <1>1, <2>1, <3>1, <3>3, <3>4
      <4> HIDE DEF K
      <4> QED
        BY <4>1
    <3> QED
      BY <3>2, <3>5 DEF Pairs, Below
  <2>2. ASSUME NEW n \in Kept(stack[K - 1]), m = K - 1 PROVE <<"stack", K - 1, n>> \in gone
    <3>1. K - 1 \in 1 .. K /\ ~(K - 1 < m)
      BY <1>1, <2>2
    <3>2. <<"stack", K - 1, n>>[2] = K - 1
      OBVIOUS
    <3>3. <<"stack", K - 1, n>> \in old
      <4> HIDE DEF old, K
      <4> QED
        BY <1>7, <2>2, <3>1
    <3> QED
      BY <3>1, <3>2, <3>3
  <2> HIDE DEF gone
  <2> QED
    BY <2>1, <2>2 DEF Pairs, Below
<1>11. /\ StackKeepings = old
       /\ StackKeepings' = (old \ gone) \cup Pairs("stack", m, Kept(item))
       /\ gone \in SUBSET old
  BY <1>6 DEF StackKeepings, Pairs
<1> QED
  <2> HIDE DEF old, gone
  <2> QED
    BY <1>8, <1>9, <1>10, <1>11

LEMMA KeepingsChange ==
  ASSUME NEW goneS, NEW addS, NEW goneL, NEW addL,
         goneS \in SUBSET StackKeepings, StackKeepings' = (StackKeepings \ goneS) \cup addS,
         goneL \in SUBSET ListKeepings, ListKeepings' = (ListKeepings \ goneL) \cup addL
  PROVE  /\ goneS \cup goneL \in SUBSET Keepings
         /\ Keepings' = (Keepings \ (goneS \cup goneL)) \cup (addS \cup addL)
<1>1. Keepings' = StackKeepings' \cup ListKeepings'
  BY DEF Keepings, StackKeepings, ListKeepings, KeptOf
<1> QED
  BY <1>1, KeepingsAre

Collected(lists, n) == ReplaceTop(lists, TopOf(lists) \cup {n})

LEMMA ListCollects ==
  ASSUME NEW lists \in Seq(SUBSET Nat), Len(lists) > 0, NEW n \in Nat, NEW keeper
  PROVE  LET new == Collected(lists, n)
         IN  /\ new \in Seq(SUBSET Nat)
             /\ Len(new) = Len(lists)
             /\ KeptIn(keeper, new) = KeptIn(keeper, lists) \cup {<<keeper, Len(lists), n>>}
             /\ \A l \in 1 .. Len(lists) :
                  new[l] = lists[l] \cup (IF l = Len(lists) THEN {n} ELSE {})
<1> DEFINE L == Len(lists)
           new == Collected(lists, n)
<1>1. L \in Nat /\ L \in 1 .. L /\ DOMAIN lists = 1 .. L /\ \A l \in 1 .. L : lists[l] \in SUBSET Nat
  BY ItemsOfSeq
<1>2. lists[L] \cup {n} \in SUBSET Nat
  BY <1>1
<1>3. /\ new \in Seq(SUBSET Nat)
      /\ Len(new) = L
      /\ \A l \in 1 .. L : new[l] = IF l = L THEN lists[L] \cup {n} ELSE lists[l]
  BY <1>1, <1>2, ExceptSeq DEF Collected, ReplaceTop, TopOf
<1> HIDE DEF new
<1>4. DOMAIN new = 1 .. L
  BY <1>3, ItemsOfSeq
<1>5. KeptIn(keeper, new) = KeptIn(keeper, lists) \cup {<<keeper, L, n>>}
  <2> HIDE DEF L
  <2>1. ASSUME NEW k \in KeptIn(keeper, new) PROVE k \in KeptIn(keeper, lists) \cup {<<keeper, L, n>>}
    <3>1. PICK l \in 1 .. L : \E x \in new[l] : k = <<keeper, l, x>>
      <4>1. \E l \in DOMAIN new : \E x \in new[l] : k = <<keeper, l, x>>
        BY <2>1, KeptInMember
      <4> QED
        BY <1>4, <4>1
    <3>2. PICK x \in new[l] : k = <<keeper, l, x>>
      BY <3>1
    <3>3. x \in lists[l] \/ (l = L /\ x = n)
      BY <1>3, <3>2
    <3>4. x \in lists[l] => k \in KeptIn(keeper, lists)
      BY <1>1, <3>2, KeptInMember
    <3> QED
      BY <3>2, <3>3, <3>4
  <2>2. ASSUME NEW k \in KeptIn(keeper, lists) PROVE k \in KeptIn(keeper, new)
    <3>1. PICK l \in 1 .. L : \E x \in lists[l] : k = <<keeper, l, x>>
      BY <1>1, <2>2, KeptInMember
    <3>2. PICK x \in lists[l] : k = <<keeper, l, x>>
      BY <3>1
    <3>3. x \in new[l] /\ l \in DOMAIN new
      BY <1>3, <1>4, <3>2
    <3> QED
      BY <3>2, <3>3, KeptInMember
  <2>3. <<keeper, L, n>> \in KeptIn(keeper, new)
    <3>1. L \in DOMAIN new /\ n \in new[L]
      BY <1>1, <1>3, <1>4
    <3> QED
      BY <3>1, KeptInMember
  <2> QED
    BY <2>1, <2>2, <2>3
<1>6. \A l \in 1 .. L : new[l] = lists[l] \cup (IF l = L THEN {n} ELSE {})
  BY <1>3
<1> QED
  BY <1>3, <1>5, <1>6 DEF new

LEMMA ListOpens ==
  ASSUME NEW lists \in Seq(SUBSET Nat), NEW keeper
  PROVE  /\ Append(lists, {}) \in Seq(SUBSET Nat)
         /\ KeptIn(keeper, Append(lists, {})) = KeptIn(keeper, lists)
<1> DEFINE L == Len(lists)
           new == Append(lists, {})
<1>1. L \in Nat /\ DOMAIN lists = 1 .. L
  BY ItemsOfSeq
<1>2. /\ new \in Seq(SUBSET Nat)
      /\ Len(new) = L + 1
      /\ new[L + 1] = {}
      /\ \A l \in 1 .. L : new[l] = lists[l]
  <2>1. {} \in SUBSET Nat
    OBVIOUS
  <2> QED
    BY <2>1, AppendProperties
<1> HIDE DEF new
<1>3. DOMAIN new = 1 .. L + 1 /\ \A l \in 1 .. L + 1 : l \in 1 .. L \/ l = L + 1
  BY <1>1, <1>2, ItemsOfSeq
<1>4. ASSUME NEW k
      PROVE  k \in KeptIn(keeper, new) <=> k \in KeptIn(keeper, lists)
  <2> HIDE DEF L
  <2>1. (\E l \in DOMAIN new : \E n \in new[l] : k = <<keeper, l, n>>)
           <=> \E l \in DOMAIN lists : \E n \in lists[l] : k = <<keeper, l, n>>
    <3>1. \A l \in 1 .. L : l \in 1 .. L + 1
      BY <1>1
    <3> QED
      BY <1>1, <1>2, <1>3, <3>1
  <2> QED
    BY <2>1, KeptInMember
<1> QED
  BY <1>2, <1>4 DEF new

LEMMA ListCloses ==
  ASSUME NEW lists \in Seq(SUBSET Nat), Len(lists) > 0, NEW keeper
  PROVE  KeptIn(keeper, Front(lists))
           = KeptIn(keeper, lists) \ Pairs(keeper, Len(lists), TopOf(lists))
<1> DEFINE L == Len(lists)
<1>1. L \in Nat /\ L \in 1 .. L /\ DOMAIN lists = 1 .. L
  BY ItemsOfSeq
<1>2. lists # << >>
  <2>1. Len(<< >>) = 0
    BY EmptySeq
  <2> QED
    BY <2>1
<1>3. KeptIn(keeper, Front(lists)) = {k \in KeptIn(keeper, lists) : k[2] < L}
  BY <1>2, KeptInFront
<1>4. ASSUME NEW k \in KeptIn(keeper, lists)
      PROVE  k[2] < L <=> k \notin Pairs(keeper, L, lists[L])
  <2> HIDE DEF L
  <2>1. PICK l \in 1 .. L : \E n \in lists[l] : k = <<keeper, l, n>>
    BY <1>1, <1>4, KeptInMember
  <2>2. PICK n \in lists[l] : k = <<keeper, l, n>>
    BY <2>1
  <2>3. k[2] = l /\ (k \in Pairs(keeper, L, lists[L]) => l = L) /\ (l = L => k \in Pairs(keeper, L, lists[L]))
    BY <2>2 DEF Pairs
  <2> QED
    BY <1>1, <2>3
<1> QED
  BY <1>3, <1>4 DEF TopOf

LEMMA EnterLoopKeeps ==
  ASSUME IInv, lp_handler' = EnterLoop(lp_handler)
  PROVE  /\ ListKeepings' = ListKeepings
         /\ lp_handler' \in [depths : Seq(Nat), breaks : Seq(SUBSET Nat), continues : Seq(SUBSET Nat)]
<1>1. /\ lp_handler'.breaks = Append(lp_handler.breaks, {})
      /\ lp_handler'.continues = Append(lp_handler.continues, {})
  BY DEF EnterLoop
<1>2. ListKeepings' = ListKeepings
  BY <1>1, LoopHandlerFields, ListOpens DEF ListKeepings
<1>3. ReplaceTop(lp_handler.depths, TopOf(lp_handler.depths) + 1) \in Seq(Nat)
  <2> DEFINE depths == lp_handler.depths
  <2>1. depths \in Seq(Nat) /\ Len(depths) > 0 /\ Len(depths) \in Nat
    BY LoopHandlerFields, NestingFields
  <2> HIDE DEF depths
  <2>2. Len(depths) \in 1 .. Len(depths)
    BY <2>1
  <2>3. depths[Len(depths)] + 1 \in Nat
    BY <2>1, <2>2, ItemsOfSeq
  <2>4. ReplaceTop(depths, TopOf(depths) + 1) \in Seq(Nat)
    BY <2>1, <2>2, <2>3, ExceptSeq DEF ReplaceTop, TopOf
  <2> QED
    BY <2>4 DEF depths
<1>4. Append(lp_handler.breaks, {}) \in Seq(SUBSET Nat) /\ Append(lp_handler.continues, {}) \in Seq(SUBSET Nat)
  BY LoopHandlerFields, ListOpens
<1> QED
  BY <1>2, <1>3, <1>4 DEF EnterLoop

LEMMA ExitLoopKeeps ==
  ASSUME IInv, OpenLoops # {}, lp_handler' = ExitLoop(lp_handler)
  PROVE  LET L    == Cardinality(OpenLoops)
             gone == Pairs("breaks", L, TopOf(lp_handler.breaks))
                       \cup Pairs("continues", L, TopOf(lp_handler.continues))
         IN  gone \in SUBSET ListKeepings /\ ListKeepings' = ListKeepings \ gone
<1> DEFINE L == Cardinality(OpenLoops)
           breaks == lp_handler.breaks
           continues == lp_handler.continues
<1>1. /\ breaks \in Seq(SUBSET Nat) /\ Len(breaks) = L
      /\ continues \in Seq(SUBSET Nat) /\ Len(continues) = L
      /\ L > 0 /\ L \in Nat
  <2>1. L # 0 /\ L \in Nat
    BY NestingFields, FS_EmptySet
  <2> QED
    BY <2>1, LoopHandlerFields, NestingFields
<1>2. lp_handler'.breaks = Front(breaks) /\ lp_handler'.continues = Front(continues)
  BY DEF ExitLoop
<1>3. ListKeepings' = KeptIn("breaks", Front(breaks)) \cup KeptIn("continues", Front(continues))
  BY <1>2 DEF ListKeepings
<1> HIDE DEF breaks, continues, L
<1>4. /\ KeptIn("breaks", Front(breaks)) = KeptIn("breaks", breaks) \ Pairs("breaks", L, TopOf(breaks))
      /\ KeptIn("continues", Front(continues))
           = KeptIn("continues", continues) \ Pairs("continues", L, TopOf(continues))
  BY <1>1, ListCloses
<1>5. ASSUME NEW keeper, NEW lists \in Seq(SUBSET Nat), Len(lists) = L
      PROVE  Pairs(keeper, L, TopOf(lists)) \in SUBSET KeptIn(keeper, lists)
  <2>1. L \in DOMAIN lists
    BY <1>1, <1>5, ItemsOfSeq
  <2>2. ASSUME NEW n \in lists[L] PROVE <<keeper, L, n>> \in KeptIn(keeper, lists)
    BY <2>1, KeptInMember
  <2> QED
    BY <1>5, <2>2 DEF Pairs, TopOf
<1>6. /\ \A k \in KeptIn("breaks", breaks) : k \notin Pairs("continues", L, TopOf(continues))
      /\ \A k \in KeptIn("continues", continues) : k \notin Pairs("breaks", L, TopOf(breaks))
  <2>1. \A k \in KeptIn("breaks", breaks) \cup Pairs("breaks", L, TopOf(breaks)) : k[1] = "breaks"
    BY KeptInMember DEF Pairs
  <2>2. \A k \in KeptIn("continues", continues) \cup Pairs("continues", L, TopOf(continues)) :
          k[1] = "continues"
    BY KeptInMember DEF Pairs
  <2> QED
    BY <2>1, <2>2
<1>7. ListKeepings = KeptIn("breaks", breaks) \cup KeptIn("continues", continues)
  BY DEF ListKeepings, breaks, continues
<1>8. /\ Pairs("breaks", L, TopOf(breaks)) \in SUBSET KeptIn("breaks", breaks)
      /\ Pairs("continues", L, TopOf(continues)) \in SUBSET KeptIn("continues", continues)
  BY <1>1, <1>5
<1>9. LET gone == Pairs("breaks", L, TopOf(breaks)) \cup Pairs("continues", L, TopOf(continues))
      IN  gone \in SUBSET ListKeepings /\ ListKeepings' = ListKeepings \ gone
  BY <1>3, <1>4, <1>6, <1>7, <1>8
<1> QED
  BY <1>9 DEF breaks, continues, L

-----------------------------------------------------------------------------
(* Steps of the code, one at a time and together.                          *)

CodeOK(code) ==
  code \in Seq(QuadSet) /\ \A i \in DOMAIN code : code[i].label \in 0 .. Len(code) + 1

LEMMA CodeIsOK ==
  ASSUME IInv
  PROVE  CodeOK(quads) /\ NextQuadLabel(quads) = Len(quads) /\ Len(quads) \in Nat
<1>1. quads \in Seq(QuadSet)
  BY DEF IInv, HandlerTypes
<1>2. \A i \in DOMAIN quads : quads[i].label \in 0 .. Len(quads) + 1
  BY DEF IInv, TypeOK, ToSet, NextQuadLabel
<1> QED
  BY <1>1, <1>2, ItemsOfSeq DEF CodeOK, NextQuadLabel

(* A jump may lead back to the first quad only if that is a condition.     *)
MayLeadTo(code, label) == label # 0 \/ (Len(code) > 0 /\ code[1].op = "if_eq")

LEMMA EmitGrown ==
  ASSUME NEW code, CodeOK(code), NEW quad \in QuadSet, NEW label \in 0 .. Len(code) + 2
  PROVE  LET new == EmitLabelled(code, quad, label)
         IN  /\ CodeOK(new) /\ Len(new) = Len(code) + 1 /\ Len(code) \in Nat
             /\ new[Len(code) + 1].op = quad.op
             /\ quad.op \notin Jumps \/ MayLeadTo(code, label) => Grown(code, new, {}, {})
             /\ quad.op \in Jumps /\ label = 0 => Grown(code, new, {}, {Len(code)})
<1> DEFINE N == Len(code)
           new == EmitLabelled(code, quad, label)
<1>1. code \in Seq(QuadSet) /\ N \in Nat /\ DOMAIN code = 1 .. N
  BY ItemsOfSeq DEF CodeOK
<1>2. label \in Nat
  BY <1>1
<1>3. /\ new \in Seq(QuadSet)
      /\ Len(new) = N + 1
      /\ new[N + 1].op = quad.op
      /\ new[N + 1].label = label
      /\ \A i \in 1 .. N : new[i] = code[i]
  BY <1>1, <1>2, EmitFields, ZenonT(20)
<1> HIDE DEF new
<1>4. DOMAIN new = 1 .. N + 1 /\ \A i \in 1 .. N + 1 : i = N + 1 \/ i \in 1 .. N
  BY <1>1, <1>3, ItemsOfSeq
<1>5. \A i \in DOMAIN new : new[i].label \in 0 .. Len(new) + 1
  <2>1. label \in 0 .. Len(new) + 1
    BY <1>1, <1>3
  <2>2. ASSUME NEW i \in 1 .. N PROVE new[i].label \in 0 .. Len(new) + 1
    <3>1. code[i].label \in 0 .. N + 1 /\ new[i].label = code[i].label
      BY <1>1, <1>3 DEF CodeOK
    <3> HIDE DEF N
    <3> QED
      BY <1>1, <1>3, <3>1
  <2> HIDE DEF N
  <2> QED
    BY <1>3, <1>4, <2>1, <2>2
<1>6. N > 0 => new[1].op = code[1].op
  <2>1. N > 0 => 1 \in 1 .. N
    BY <1>1
  <2> QED
    BY <1>3, <2>1
<1>7. ASSUME quad.op \notin Jumps \/ MayLeadTo(code, label)
      PROVE  Grown(code, new, {}, {})
  <2>1. HasTarget(new, N + 1)
    BY <1>3, <1>6, <1>7 DEF HasTarget, MayLeadTo
  <2>2. \A i \in Len(code) + 1 .. Len(new) : i = N + 1
    BY <1>1, <1>3
  <2> QED
    BY <1>1, <1>3, <1>5, <2>1, <2>2 DEF Grown
<1>8. ASSUME quad.op \in Jumps, label = 0
      PROVE  Grown(code, new, {}, {N})
  <2>1. \A i \in Len(code) + 1 .. Len(new) : i = N + 1
    BY <1>1, <1>3
  <2>2. {N} \subseteq Len(code) .. Len(new) - 1
    BY <1>1, <1>3
  <2>3. \A i \in Len(code) + 1 .. Len(new) : i - 1 \in {N} /\ new[i].op \in Jumps /\ new[i].label = 0
    BY <1>1, <1>3, <1>8, <2>1
  <2>4. \A i \in DOMAIN code : new[i].op = code[i].op /\ new[i].label = code[i].label
    BY <1>1, <1>3
  <2>5. Len(code) <= Len(new)
    BY <1>1, <1>3
  <2> HIDE DEF N
  <2> QED
    BY <1>3, <1>5, <2>2, <2>3, <2>4, <2>5 DEF Grown
<1>9. CodeOK(new)
  BY <1>3, <1>5 DEF CodeOK
<1> QED
  BY <1>1, <1>3, <1>7, <1>8, <1>9 DEF new

LEMMA PatchGrown ==
  ASSUME NEW code, CodeOK(code), NEW quadnos, NEW label \in 0 .. Len(code) + 1,
         MayLeadTo(code, label)
  PROVE  LET new == PatchLabel(code, quadnos, label)
         IN  CodeOK(new) /\ Len(new) = Len(code) /\ Grown(code, new, quadnos, {})
<1> DEFINE N == Len(code)
           new == PatchLabel(code, quadnos, label)
<1>1. code \in Seq(QuadSet) /\ N \in Nat /\ DOMAIN code = 1 .. N
  BY ItemsOfSeq DEF CodeOK
<1>2. label \in Nat
  BY <1>1
<1>3. /\ new \in Seq(QuadSet)
      /\ Len(new) = N
      /\ \A i \in 1 .. N :
           /\ new[i].op = code[i].op
           /\ new[i].label = IF i - 1 \in quadnos THEN label ELSE code[i].label
  BY <1>1, <1>2, PatchFields
<1> HIDE DEF new
<1>4. DOMAIN new = 1 .. N
  BY <1>3, ItemsOfSeq
<1>5. \A i \in DOMAIN new : new[i].label \in 0 .. Len(new) + 1
  BY <1>1, <1>3, <1>4 DEF CodeOK
<1>6. N > 0 => new[1].op = code[1].op
  <2>1. N > 0 => 1 \in 1 .. N
    BY <1>1
  <2> QED
    BY <1>3, <2>1
<1>7. ASSUME NEW i \in 1 .. N, i - 1 \in quadnos
      PROVE  HasTarget(new, i)
  BY <1>3, <1>6, <1>7 DEF HasTarget, MayLeadTo
<1>8. \A i \in Len(code) + 1 .. Len(new) : FALSE
  BY <1>1, <1>3
<1>9. Grown(code, new, quadnos, {})
  <2>1. Len(code) <= Len(new)
    BY <1>1, <1>3
  <2> HIDE DEF N
  <2> QED
    BY <1>1, <1>3, <1>5, <1>7, <1>8, <2>1 DEF Grown
<1>10. CodeOK(new)
  BY <1>3, <1>5 DEF CodeOK
<1> QED
  BY <1>3, <1>9, <1>10 DEF new

LEMMA GrownTwice ==
  ASSUME NEW code, NEW mid, NEW new, CodeOK(code),
         NEW patched1, NEW waiting1, Grown(code, mid, patched1, waiting1),
         NEW patched2, NEW waiting2, Grown(mid, new, patched2, waiting2)
  PROVE  Grown(code, new, patched1 \cup patched2, (waiting1 \ patched2) \cup waiting2)
<1>1. /\ Len(code) \in Nat /\ Len(mid) \in Nat /\ Len(new) \in Nat
      /\ Len(code) <= Len(mid) /\ Len(mid) <= Len(new)
      /\ DOMAIN code = 1 .. Len(code) /\ DOMAIN mid = 1 .. Len(mid) /\ DOMAIN new = 1 .. Len(new)
  BY ItemsOfSeq DEF CodeOK, Grown
<1>2. \A i \in DOMAIN code : i \in DOMAIN mid
  BY <1>1
<1>3. \A i \in DOMAIN mid : new[1].op = mid[1].op
  <2>1. \A i \in DOMAIN mid : 1 \in DOMAIN mid
    BY <1>1
  <2> QED
    BY <2>1 DEF Grown
<1>4. ASSUME NEW i \in DOMAIN mid, HasTarget(mid, i)
      PROVE  HasTarget(new, i)
  <2>1. CASE i - 1 \in patched2
    BY <2>1 DEF Grown
  <2>2. CASE i - 1 \notin patched2
    <3>1. new[i].op = mid[i].op /\ new[i].label = mid[i].label
      BY <2>2 DEF Grown
    <3> QED
      BY <1>3, <1>4, <3>1 DEF HasTarget
  <2> QED
    BY <2>1, <2>2
<1>5. ASSUME NEW i \in DOMAIN code
      PROVE  /\ new[i].op = code[i].op
             /\ i - 1 \notin patched1 \cup patched2 => new[i].label = code[i].label
             /\ i - 1 \in patched1 \cup patched2 => HasTarget(new, i)
  <2>1. i \in DOMAIN mid
    BY <1>2
  <2>2. /\ mid[i].op = code[i].op
        /\ i - 1 \notin patched1 => mid[i].label = code[i].label
        /\ i - 1 \in patched1 => HasTarget(mid, i)
    BY DEF Grown
  <2>3. /\ new[i].op = mid[i].op
        /\ i - 1 \notin patched2 => new[i].label = mid[i].label
        /\ i - 1 \in patched2 => HasTarget(new, i)
    BY <2>1 DEF Grown
  <2> QED
    BY <1>4, <2>1, <2>2, <2>3
<1>6. waiting1 \subseteq Len(code) .. Len(mid) - 1 /\ waiting2 \subseteq Len(mid) .. Len(new) - 1
  BY DEF Grown
<1>7. (waiting1 \ patched2) \cup waiting2 \subseteq Len(code) .. Len(new) - 1
  <2>1. \A n \in waiting1 : n \in Len(code) .. Len(new) - 1
    BY <1>1, <1>6
  <2>2. \A n \in waiting2 : n \in Len(code) .. Len(new) - 1
    BY <1>1, <1>6
  <2> QED
    BY <2>1, <2>2
<1>8. ASSUME NEW i \in Len(code) + 1 .. Len(new)
      PROVE  IF i - 1 \in (waiting1 \ patched2) \cup waiting2
             THEN new[i].op \in Jumps /\ new[i].label = 0
             ELSE HasTarget(new, i)
  <2>1. CASE i \in Len(code) + 1 .. Len(mid)
    <3>1. i \in DOMAIN mid
      BY <1>1, <2>1
    <3>2. i - 1 \notin waiting2
      BY <1>1, <1>6, <2>1
    <3>3. IF i - 1 \in waiting1 THEN mid[i].op \in Jumps /\ mid[i].label = 0 ELSE HasTarget(mid, i)
      BY <2>1 DEF Grown
    <3>4. /\ new[i].op = mid[i].op
          /\ i - 1 \notin patched2 => new[i].label = mid[i].label
          /\ i - 1 \in patched2 => HasTarget(new, i)
      BY <3>1 DEF Grown
    <3> QED
      BY <1>4, <3>1, <3>2, <3>3, <3>4
  <2>2. CASE i \in Len(mid) + 1 .. Len(new)
    <3>1. i - 1 \notin waiting1
      BY <1>1, <1>6, <2>2
    <3>2. IF i - 1 \in waiting2 THEN new[i].op \in Jumps /\ new[i].label = 0 ELSE HasTarget(new, i)
      BY <2>2 DEF Grown
    <3> QED
      BY <3>1, <3>2
  <2>3. i \in Len(code) + 1 .. Len(mid) \/ i \in Len(mid) + 1 .. Len(new)
    BY <1>1
  <2> QED
    BY <2>1, <2>2, <2>3
<1>9. /\ new \in Seq(QuadSet)
      /\ Len(code) <= Len(new)
      /\ \A i \in DOMAIN new : new[i].label \in 0 .. Len(new) + 1
  BY <1>1 DEF Grown
<1> QED
  BY <1>5, <1>7, <1>8, <1>9 DEF Grown

-----------------------------------------------------------------------------
(* Steps that leave the loop handler alone.                                *)

Opening == LoopSyms \cup {"func"}

(* What was open stays so when plain items are cut, and when one that is   *)
(* open is replaced by one of its kind.                                    *)
LEMMA OpenStay ==
  ASSUME IInv, NEW m, NEW item, Cut(stack, stack', m, item),
         \A i \in DOMAIN stack : i > m => stack[i].sym \notin Opening,
         \/ item.sym \notin Opening /\ (m \in DOMAIN stack => stack[m].sym \notin Opening)
         \/ /\ m \in DOMAIN stack /\ stack[m].sym \in Opening
            /\ item.sym \in LoopSyms <=> stack[m].sym \in LoopSyms
            /\ item.sym = "func" <=> stack[m].sym = "func"
            /\ Header(item) = Header(stack[m])
  PROVE  /\ OpenLoops' = OpenLoops /\ OpenFuncs' = OpenFuncs
         /\ \A i \in OpenLoops \cup OpenFuncs : Header(stack'[i]) = Header(stack[i])
<1>1. /\ OpenLoops' = {i \in OpenLoops : i < m} \cup (IF item.sym \in LoopSyms THEN {m} ELSE {})
      /\ OpenFuncs' = {i \in OpenFuncs : i < m} \cup (IF item.sym = "func" THEN {m} ELSE {})
      /\ \A i \in OpenLoops \cup OpenFuncs : i < m => stack'[i] = stack[i]
  BY OpenOfCut
<1>2. stack'[m] = item
  BY DEF Cut
<1>3. \A i \in OpenLoops \cup OpenFuncs : i < m \/ i = m
  <2>1. ASSUME NEW i \in OpenLoops \cup OpenFuncs PROVE i < m \/ i = m
    <3>1. i \in DOMAIN stack /\ stack[i].sym \in Opening
      BY DEF OpenLoops, OpenFuncs, Opening
    <3>2. ~(i > m)
      BY <3>1
    <3>3. i \in Nat /\ m \in Nat
      BY <3>1, NestingFields DEF Cut
    <3> QED
      BY <3>2, <3>3
  <2> QED
    BY <2>1
<1>4. /\ m \in OpenLoops <=> item.sym \in LoopSyms
      /\ m \in OpenFuncs <=> item.sym = "func"
  BY DEF OpenLoops, OpenFuncs, Opening
<1>5. m \in Nat
  BY NestingFields DEF Cut
<1>6. ~(m < m)
  BY <1>5
<1>7. OpenLoops' = OpenLoops /\ OpenFuncs' = OpenFuncs
  BY <1>1, <1>3, <1>4, <1>6
<1>8. ASSUME NEW i \in OpenLoops \cup OpenFuncs PROVE Header(stack'[i]) = Header(stack[i])
  <2>1. CASE i < m
    BY <1>1, <2>1
  <2>2. CASE i = m
    <3>1. stack[m].sym \in Opening /\ m \in DOMAIN stack
      BY <2>2 DEF OpenLoops, OpenFuncs, Opening
    <3> QED
      BY <1>2, <2>2, <3>1
  <2> QED
    BY <1>3, <2>1, <2>2
<1> QED
  BY <1>7, <1>8

LEMMA QuietStepKeeps ==
  ASSUME IInv, Parsing,
         NEW m, NEW item, Cut(stack, stack', m, item),
         OpenLoops' = OpenLoops, OpenFuncs' = OpenFuncs,
         \A i \in OpenLoops \cup OpenFuncs : Header(stack'[i]) = Header(stack[i]),
         item.sym = "program" <=> m = 1,
         Shaped(item), KnowsQuads(item, quads'),
         NEW patched, NEW waiting, Grown(quads, quads', patched, waiting),
         NEW gone \in SUBSET StackKeepings, NEW added,
         StackKeepings' = (StackKeepings \ gone) \cup added,
         Exchanged(gone, added, patched, waiting),
         lp_handler' = lp_handler, tokens' \in 0 .. MaxTokens, outcome' = outcome
  PROVE  IInv'
<1>1. ListKeepings' = ListKeepings
  BY DEF ListKeepings
<1>2. Keepings' = (Keepings \ gone) \cup added /\ gone \in SUBSET Keepings
  <2>1. Keepings' = StackKeepings' \cup ListKeepings'
    BY DEF Keepings, StackKeepings, ListKeepings, KeptOf
  <2> QED
    BY <1>1, <2>1, KeepingsAre
<1>3. OneKeeperPerJump' /\ \A k \in Keepings' : k[3] \in 0 .. Len(quads') - 1
  BY <1>2, KeepersFollow
<1>5. LoopListsFollowNesting'
  <2>1. \A l \in 1 .. Cardinality(OpenLoops) :
           lp_handler'.breaks[l] \cup lp_handler'.continues[l]
             \subseteq lp_handler.breaks[l] \cup lp_handler.continues[l]
                         \cup (IF l = Cardinality(OpenLoops) THEN {} ELSE {})
    OBVIOUS
  <2> QED
    BY <2>1, NestingStays
<1>6. lp_handler' \in [depths : Seq(Nat), breaks : Seq(SUBSET Nat), continues : Seq(SUBSET Nat)]
  BY DEF IInv, HandlerTypes
<1> QED
  BY <1>3, <1>5, <1>6, StepKeeps

(* The parser is in the middle of the source. *)
LEMMA ParserFields ==
  ASSUME IInv
  PROVE  /\ stack \in Seq(ToSet(stack))
         /\ Len(stack) \in Nat \ {0}
         /\ DOMAIN stack = 1 .. Len(stack)
         /\ tokens \in Nat /\ Id \in Nat /\ Id + 1 \in Nat
         /\ Top = stack[Len(stack)]
         /\ Shaped(Top) /\ KnowsQuads(Top, quads)
         /\ Top.sym = "program" <=> Len(stack) = 1
         /\ Len(stack) > 1 => /\ Shaped(Below) /\ KnowsQuads(Below, quads)
                              /\ Below.sym = "program" <=> Len(stack) - 1 = 1
<1>1. stack \in Seq(ToSet(stack)) /\ Len(stack) \in Nat \ {0} /\ DOMAIN stack = 1 .. Len(stack)
  BY NestingFields DEF IInv, StackWellFormed
<1>2. Len(stack) \in DOMAIN stack /\ (Len(stack) > 1 => Len(stack) - 1 \in DOMAIN stack)
  BY <1>1
<1>3. \A i \in DOMAIN stack : /\ Shaped(stack[i]) /\ KnowsQuads(stack[i], quads)
                              /\ stack[i].sym = "program" <=> i = 1
  BY DEF IInv, StackWellFormed
<1>4. tokens \in Nat
  BY DEF IInv, TypeOK
<1> QED
  BY <1>1, <1>2, <1>3, <1>4 DEF Top, TopOf, Below, Id

LEMMA ReadFields ==
  ASSUME IInv, Read
  PROVE  Parsing /\ tokens' \in 0 .. MaxTokens
<1>1. tokens \in 0 .. MaxTokens /\ MaxTokens \in Nat
  BY StatementsAssumption DEF IInv, TypeOK
<1> QED
  BY <1>1 DEF Read

(* A plain item is pushed. *)
LEMMA PlainPushKeeps ==
  ASSUME IInv, Read, NEW item, Push(item), Shaped(item),
         item.sym \in {"stmt", "block"}, Grown(quads, quads', {}, {}),
         UNCHANGED <<lp_handler, outcome>>
  PROVE  IInv'
<1> DEFINE m == Len(stack) + 1
<1>1. Cut(stack, stack', m, item)
  BY ParserFields, CutFields DEF Push
<1>2. /\ Kept(item) = {} /\ KnowsQuads(item, quads')
      /\ item.sym \notin Opening /\ item.sym # "program"
  BY DEF Kept, KnowsQuads, Opening, LoopSyms
<1>3. StackKeepings' = (StackKeepings \ {}) \cup {}
  <2>1. Pairs("stack", m, Kept(item)) = {}
    BY <1>2 DEF Pairs
  <2>2. PICK gone \in SUBSET StackKeepings :
          /\ StackKeepings' = (StackKeepings \ gone) \cup Pairs("stack", m, Kept(item))
          /\ m = Len(stack) + 1 => gone = {}
    BY <1>1, KeptByStack
  <2> QED
    BY <2>1, <2>2
<1>4. m # 1 /\ \A i \in DOMAIN stack : i # m /\ ~(i > m)
  BY ParserFields
<1> HIDE DEF m
<1>5. /\ OpenLoops' = OpenLoops /\ OpenFuncs' = OpenFuncs
      /\ \A i \in OpenLoops \cup OpenFuncs : Header(stack'[i]) = Header(stack[i])
  BY <1>1, <1>2, <1>4, OpenStay
<1>6. Exchanged({}, {}, {}, {})
  BY DEF Exchanged
<1> QED
  BY <1>1, <1>2, <1>3, <1>4, <1>5, <1>6, ReadFields, QuietStepKeeps

LEMMA SimpleStmtKeeps ==
  ASSUME IInv, ExprStmt \/ EmptyStmt \/ BlockOpen
  PROVE  IInv'
<1>1. /\ CodeOK(quads)
      /\ Grown(quads, quads, {}, {})
      /\ \A quad \in QuadSet : quad.op \notin Jumps => Grown(quads, Emit(quads, quad), {}, {})
  BY CodeIsOK, PlainGrown DEF CodeOK
<1>2. \A f : Shaped(Stmt(f)) /\ Stmt(f).sym = "stmt"
  BY DEF Shaped, Stmt
<1>3. CASE ExprStmt
  <2>1. Perform(Id) \in QuadSet /\ Perform(Id).op \notin Jumps
    BY ParserFields, QuadsEmitted DEF Jumps
  <2>2. Grown(quads, quads', {}, {})
    BY <1>1, <1>3, <2>1 DEF ExprStmt
  <2> QED
    BY <1>2, <1>3, <2>2, PlainPushKeeps DEF ExprStmt
<1>4. CASE EmptyStmt
  BY <1>1, <1>2, <1>4, PlainPushKeeps DEF EmptyStmt
<1>5. CASE BlockOpen
  <2> DEFINE block == [sym |-> "block", frag |-> Empty]
  <2>1. Shaped(block) /\ block.sym = "block"
    BY DEF Shaped, ListSyms
  <2>2. Read /\ Push(block) /\ quads' = quads /\ UNCHANGED <<lp_handler, outcome>>
    BY <1>5 DEF BlockOpen
  <2> HIDE DEF block
  <2> QED
    BY <1>1, <2>1, <2>2, PlainPushKeeps
<1> QED
  BY <1>3, <1>4, <1>5

(* The parser stops, at the end of the source or at a jump that is astray. *)
LEMMA StopKeeps ==
  ASSUME IInv, UNCHANGED <<quads, lp_handler, stack>>, tokens' \in 0 .. MaxTokens,
         outcome' # "parsing", OnlyStrayJumpsRefused'
  PROVE  IInv'
<1>1. TypeOK'
  BY DEF IInv, TypeOK
<1>2. HandlerTypes' /\ StackWellFormed'
  BY DEF IInv, HandlerTypes, StackWellFormed
<1>3. OneKeeperPerJump'
  BY DEF OneKeeperPerJump
<1>4. LoopListsFollowNesting'
  <2>1. /\ OpenLoops' = OpenLoops /\ OpenFuncs' = OpenFuncs
        /\ \A i \in OpenLoops \cup OpenFuncs : Header(stack'[i]) = Header(stack[i])
    BY DEF OpenLoops, OpenFuncs
  <2>2. \A l \in 1 .. Cardinality(OpenLoops) :
          lp_handler'.breaks[l] \cup lp_handler'.continues[l]
            \subseteq lp_handler.breaks[l] \cup lp_handler.continues[l]
                        \cup (IF l = Cardinality(OpenLoops) THEN {} ELSE {})
    OBVIOUS
  <2> QED
    BY <2>1, <2>2, NestingStays
<1> QED
  BY <1>1, <1>2, <1>3, <1>4 DEF IInv

LEMMA ReturnStmtKeeps ==
  ASSUME IInv, ReturnStmt
  PROVE  IInv'
<1>1. Read
  BY DEF ReturnStmt
<1>2. CASE Len(lp_handler.depths) > 1
  <2> DEFINE quad == Quad("ret", None, Place(Id), None)
             item == Stmt(Return(Id))
  <2>1. quad \in QuadSet /\ quad.op \notin Jumps
    BY ParserFields, QuadsEmitted DEF Jumps
  <2>2. quads' = Emit(quads, quad) /\ Push(item) /\ UNCHANGED <<lp_handler, outcome>>
    BY <1>2 DEF ReturnStmt
  <2>3. Shaped(item) /\ item.sym = "stmt"
    BY DEF Shaped, Stmt
  <2> HIDE DEF quad, item
  <2>4. Grown(quads, quads', {}, {})
    BY <2>1, <2>2, CodeIsOK, PlainGrown DEF CodeOK
  <2> QED
    BY <1>1, <2>2, <2>3, <2>4, PlainPushKeeps
<1>3. CASE ~(Len(lp_handler.depths) > 1)
  <2>1. outcome' = "return_outside_function" /\ UNCHANGED <<quads, lp_handler, stack>>
    BY <1>3 DEF ReturnStmt
  <2>2. OpenFuncs = {}
    <3>1. Cardinality(OpenFuncs) = 0
      BY <1>3, NestingFields
    <3> QED
      BY <3>1, NestingFields, FS_EmptySet
  <2>3. OpenFuncs' = {}
    BY <2>1, <2>2 DEF OpenFuncs
  <2>4. OnlyStrayJumpsRefused'
    BY <2>1, <2>3 DEF OnlyStrayJumpsRefused
  <2> QED
    BY <1>1, <2>1, <2>4, ReadFields, StopKeeps
<1> QED
  BY <1>2, <1>3

(* A break or continue is refused where the innermost function has no loop *)
(* that is open.                                                           *)
LEMMA StrayJump ==
  ASSUME IInv, ~IsInLoop(lp_handler)
  PROVE  \A i \in InnerStart .. Len(stack) : stack[i].sym \notin LoopSyms
<1> DEFINE starts == {i \in DOMAIN stack : stack[i].sym \in {"func", "program"}}
           D == Cardinality(OpenFuncs) + 1
<1>1. Len(stack) \in Nat \ {0} /\ DOMAIN stack = 1 .. Len(stack)
  BY NestingFields
<1>2. InnerStart \in starts /\ \A i \in starts : InnerStart >= i
  <2>1. starts # {}
    <3>1. 1 \in DOMAIN stack /\ stack[1].sym = "program"
      BY <1>1 DEF IInv, StackWellFormed
    <3> QED
      BY <3>1
  <2>2. starts \subseteq 0 .. Len(stack) /\ Len(stack) \in Nat
    BY <1>1
  <2> HIDE DEF starts
  <2>3. Max(starts) \in starts /\ \A i \in starts : Max(starts) >= i
    BY <2>1, <2>2, MaxOfBounded
  <2> QED
    BY <2>3 DEF InnerStart, starts
<1>3. D \in 1 .. D /\ D = Len(lp_handler.depths) /\ D - 1 = Cardinality(OpenFuncs) /\ Len(lp_handler.depths) \in Nat
  BY NestingFields
<1>4. LoopsOf(D) = {}
  <2>1. lp_handler.depths[D] = Cardinality(LoopsOf(D))
    <3> HIDE DEF D
    <3>1. D \in 1 .. Cardinality(OpenFuncs) + 1
      BY <1>3 DEF D
    <3> QED
      BY <3>1, ListsOfLoops
  <2>2. IsFiniteSet(LoopsOf(D))
    <3>1. LoopsOf(D) \in SUBSET OpenLoops
      BY DEF LoopsOf
    <3> QED
      BY <3>1, NestingFields, FS_Subset
  <2>3. Cardinality(LoopsOf(D)) \in Nat
    BY <2>2, FS_CardinalityType
  <2>4. ~(lp_handler.depths[D] > 0)
    BY <1>3 DEF IsInLoop, TopOf
  <2> HIDE DEF D
  <2>5. Cardinality(LoopsOf(D)) = 0
    BY <2>1, <2>3, <2>4
  <2> QED
    BY <2>2, <2>5, FS_EmptySet
<1>5. ASSUME NEW i \in InnerStart .. Len(stack), stack[i].sym \in LoopSyms
      PROVE  FALSE
  <2>1. i \in DOMAIN stack /\ i \in Nat /\ InnerStart \in Nat
    BY <1>1, <1>2
  <2>2. i \in OpenLoops
    BY <1>5, <2>1 DEF OpenLoops
  <2>3. \A f \in OpenFuncs : f < i
    <3>1. ASSUME NEW f \in OpenFuncs PROVE f < i
      <4>1. f \in starts /\ f \in Nat /\ f # i
        BY <1>1, <2>2, NestingFields DEF OpenFuncs
      <4>2. f <= InnerStart
        BY <1>2, <2>1, <4>1
      <4> QED
        BY <2>1, <4>1, <4>2
    <3> QED
      BY <3>1
  <2>4. {f \in OpenFuncs : f < i} = OpenFuncs
    BY <2>3
  <2>5. i \in LoopsOf(D)
    BY <1>3, <2>2, <2>4 DEF LoopsOf
  <2> QED
    BY <1>4, <2>5
<1> QED
  BY <1>5

-----------------------------------------------------------------------------
(* The quads that the handlers emit.                                       *)

LEMMA NumbersEmitted ==
  ASSUME NEW code, CodeOK(code)
  PROVE  NextQuadLabel(code) = Len(code) /\ Len(code) \in Nat
<1>1. Len(code) \in Nat
  BY ItemsOfSeq DEF CodeOK
<1> QED
  BY <1>1 DEF NextQuadLabel

LEMMA PlainEmitted ==
  ASSUME NEW code, CodeOK(code), NEW quad \in QuadSet, quad.op \notin Jumps
  PROVE  LET new == Emit(code, quad)
         IN  /\ CodeOK(new) /\ Len(new) = Len(code) + 1
             /\ Grown(code, new, {}, {})
<1>1. Len(code) \in 0 .. Len(code) + 2
  BY NumbersEmitted
<1>2. Emit(code, quad) = EmitLabelled(code, quad, Len(code))
  BY DEF Emit, NextQuadLabel
<1> DEFINE new == EmitLabelled(code, quad, Len(code))
<1>3. CodeOK(new) /\ Len(new) = Len(code) + 1 /\ Grown(code, new, {}, {})
  BY <1>1, EmitGrown
<1> QED
  BY <1>2, <1>3

LEMMA JumpEmitted ==
  ASSUME NEW code, CodeOK(code)
  PROVE  LET new == IncompleteJump(code)
         IN  /\ CodeOK(new) /\ Len(new) = Len(code) + 1
             /\ Grown(code, new, {}, {Len(code)})
<1>1. 0 \in 0 .. Len(code) + 2
  BY NumbersEmitted
<1>2. Jump \in QuadSet /\ Jump.op \in Jumps
  BY QuadsEmitted DEF Jumps
<1>3. IncompleteJump(code) = EmitLabelled(code, Jump, 0)
  BY DEF IncompleteJump
<1> DEFINE new == EmitLabelled(code, Jump, 0)
<1>4. CodeOK(new) /\ Len(new) = Len(code) + 1 /\ Grown(code, new, {}, {Len(code)})
  BY <1>1, <1>2, EmitGrown
<1> QED
  BY <1>3, <1>4

LEMMA ConditionEmitted ==
  ASSUME NEW code, CodeOK(code), NEW n \in Nat
  PROVE  LET new == EmitCondition(code, n)
         IN  /\ CodeOK(new) /\ Len(new) = Len(code) + 2
             /\ Grown(code, new, {}, {Len(code) + 1})
             /\ Len(code) = 0 => new[1].op = "if_eq"
<1> DEFINE label == Len(code) + 2
           mid == EmitLabelled(code, Test(n), label)
           new == IncompleteJump(mid)
<1>1. Len(code) \in Nat /\ label \in 0 .. Len(code) + 2 /\ label # 0
  BY NumbersEmitted
<1>2. Test(n) \in QuadSet /\ Test(n).op = "if_eq"
  BY QuadsEmitted
<1>3. EmitCondition(code, n) = new
  BY DEF EmitCondition, NextQuadLabel
<1>4. /\ CodeOK(mid) /\ Len(mid) = Len(code) + 1 /\ mid[Len(code) + 1].op = "if_eq"
      /\ Grown(code, mid, {}, {})
  <2> HIDE DEF label
  <2>1. MayLeadTo(code, label)
    BY <1>1 DEF MayLeadTo
  <2> QED
    BY <1>1, <1>2, <2>1, EmitGrown
<1> HIDE DEF mid
<1>5. CodeOK(new) /\ Len(new) = Len(mid) + 1 /\ Grown(mid, new, {}, {Len(mid)})
  BY <1>4, JumpEmitted
<1> HIDE DEF new
<1>6. Grown(code, new, {} \cup {}, ({} \ {}) \cup {Len(mid)})
  BY <1>4, <1>5, GrownTwice
<1>7. Grown(code, new, {}, {Len(code) + 1})
  <2>1. {} \cup {} = {} /\ ({} \ {}) \cup {Len(mid)} = {Len(code) + 1}
    BY <1>4
  <2> QED
    BY <1>6, <2>1
<1>8. ASSUME Len(code) = 0 PROVE new[1].op = "if_eq"
  <2>1. 1 \in DOMAIN mid /\ mid[1].op = "if_eq"
    <3>1. DOMAIN mid = 1 .. Len(mid)
      BY <1>4, ItemsOfSeq DEF CodeOK
    <3> QED
      BY <1>1, <1>4, <1>8, <3>1
  <2> QED
    BY <1>5, <2>1 DEF Grown
<1>9. Len(new) = Len(code) + 2
  BY <1>1, <1>4, <1>5
<1> QED
  BY <1>3, <1>5, <1>7, <1>8, <1>9
-----------------------------------------------------------------------------
(* Statements that leave the loop handler alone.                           *)

LEMMA PairsExchanged ==
  ASSUME NEW keeper, NEW i, NEW old, NEW j, NEW new
  PROVE  Exchanged(Pairs(keeper, i, old), Pairs("stack", j, new), old, new)
<1>1. /\ \A k \in Pairs(keeper, i, old) : k[3] \in old
      /\ \A n \in old : <<keeper, i, n>> \in Pairs(keeper, i, old) /\ <<keeper, i, n>>[3] = n
  BY DEF Pairs
<1>2. /\ \A k \in Pairs("stack", j, new) : k[3] \in new
      /\ \A n \in new : <<"stack", j, n>> \in Pairs("stack", j, new) /\ <<"stack", j, n>>[3] = n
  BY DEF Pairs
<1>3. ASSUME NEW k \in Pairs("stack", j, new), NEW l \in Pairs("stack", j, new), k[3] = l[3]
      PROVE  k = l
  <2>1. PICK n \in new : k = <<"stack", j, n>>
    BY DEF Pairs
  <2>2. PICK o \in new : l = <<"stack", j, o>>
    BY DEF Pairs
  <2> QED
    BY <1>3, <2>1, <2>2
<1> QED
  BY <1>1, <1>2, <1>3 DEF Exchanged

(* An item takes the place of another of its kind, with a statement above  *)
(* it or none.                                                             *)
LEMMA ReplacedKeeps ==
  ASSUME IInv, Parsing, NEW m \in DOMAIN stack,
         m = Len(stack) \/ (m = Len(stack) - 1 /\ Top.sym = "stmt"),
         NEW item, Cut(stack, stack', m, item),
         item.sym \in LoopSyms <=> stack[m].sym \in LoopSyms,
         item.sym = "func" <=> stack[m].sym = "func",
         stack[m].sym \in Opening => Header(item) = Header(stack[m]),
         item.sym = "program" <=> stack[m].sym = "program",
         Shaped(item), KnowsQuads(item, quads'),
         NEW patched, NEW waiting, Grown(quads, quads', patched, waiting),
         patched \subseteq Kept(stack[m]),
         Kept(item) = (Kept(stack[m]) \ patched) \cup waiting,
         lp_handler' = lp_handler, tokens' \in 0 .. MaxTokens, outcome' = outcome
  PROVE  IInv'
<1> DEFINE gone  == Pairs("stack", m, patched)
           added == Pairs("stack", m, waiting)
           all   == Pairs("stack", m, Kept(stack[m]))
<1>1. /\ Len(stack) \in Nat \ {0} /\ DOMAIN stack = 1 .. Len(stack)
      /\ Top = stack[Len(stack)] /\ Below = stack[Len(stack) - 1]
  BY ParserFields DEF Below
<1>2. /\ all \in SUBSET StackKeepings
      /\ StackKeepings' = (StackKeepings \ all) \cup Pairs("stack", m, Kept(item))
  <2>1. m = Len(stack) - 1 => Kept(Top) = {}
    <3>1. m # Len(stack) => Top.sym = "stmt"
      OBVIOUS
    <3>2. Len(stack) \in Nat
      BY ParserFields
    <3>3. Len(stack) - 1 # Len(stack)
      BY <3>2
    <3> QED
      BY <3>1, <3>3 DEF Kept
  <2>2. PICK old \in SUBSET StackKeepings :
          /\ StackKeepings' = (StackKeepings \ old) \cup Pairs("stack", m, Kept(item))
          /\ m = Len(stack) => old = Pairs("stack", Len(stack), Kept(Top))
          /\ (m = Len(stack) - 1 /\ Kept(Top) = {})
               => old = Pairs("stack", Len(stack) - 1, Kept(Below))
    BY KeptByStack
  <2>3. old = all
    BY <1>1, <2>1, <2>2
  <2> QED
    BY <2>2, <2>3
<1>3. /\ Pairs("stack", m, Kept(item)) = (all \ gone) \cup added
      /\ gone \subseteq all
  BY DEF Pairs
<1>4. gone \in SUBSET StackKeepings /\ StackKeepings' = (StackKeepings \ gone) \cup added
  <2> HIDE DEF gone, added, all
  <2> QED
    BY <1>2, <1>3
<1>5. Exchanged(gone, added, patched, waiting)
  BY PairsExchanged
<1>6. \A i \in DOMAIN stack : i > m => stack[i].sym \notin Opening
  <2>1. ASSUME NEW i \in DOMAIN stack, i > m PROVE stack[i].sym \notin Opening
    <3>1. i = Len(stack) /\ Top.sym = "stmt"
      BY <1>1, <2>1
    <3> QED
      BY <1>1, <3>1 DEF Opening, LoopSyms
  <2> QED
    BY <2>1
<1>7. /\ OpenLoops' = OpenLoops /\ OpenFuncs' = OpenFuncs
      /\ \A i \in OpenLoops \cup OpenFuncs : Header(stack'[i]) = Header(stack[i])
  <2>1. stack[m].sym \in Opening <=> item.sym \in Opening
    BY DEF Opening
  <2> HIDE DEF gone, added, all
  <2> QED
    BY <1>6, <2>1, OpenStay
<1>8. item.sym = "program" <=> m = 1
  BY <1>1 DEF IInv, StackWellFormed
<1> HIDE DEF gone, added, all
<1> QED
  BY <1>4, <1>5, <1>7, <1>8, QuietStepKeeps

LEMMA StmtsStmtKeeps ==
  ASSUME IInv, StmtsStmt
  PROVE  IInv'
<1> DEFINE m    == Len(stack) - 1
           item == [Below EXCEPT !.frag = Then(@, Top.frag)]
<1>1. /\ Parsing /\ Top.sym = "stmt" /\ Below.sym \in {"program", "block", "func"}
      /\ stack' = ReplaceTop(Popped(1), item)
      /\ UNCHANGED <<quads, lp_handler, tokens, outcome>>
  BY DEF StmtsStmt
<1>2. /\ stack \in Seq(ToSet(stack)) /\ DOMAIN stack = 1 .. Len(stack)
      /\ Len(stack) \in Nat /\ Len(stack) > 1 /\ m \in DOMAIN stack /\ Below = stack[m]
      /\ Shaped(Below) /\ KnowsQuads(Below, quads)
  <2>1. Len(stack) # 1
    BY <1>1, ParserFields
  <2>2. /\ stack \in Seq(ToSet(stack)) /\ DOMAIN stack = 1 .. Len(stack) /\ Len(stack) \in Nat \ {0}
    BY ParserFields
  <2>3. Len(stack) > 1
    BY <2>1, <2>2
  <2> QED
    BY <2>2, <2>3, ParserFields DEF Below
<1>3. Cut(stack, stack', m, item)
  <2> HIDE DEF item
  <2> QED
    BY <1>1, <1>2, CutFields DEF Popped
<1>4. /\ item.sym = Below.sym /\ Shaped(item)
      /\ Below.sym = "func" => item.iaddress = Below.iaddress
  BY <1>1, <1>2 DEF Shaped, ListSyms
<1>5. Grown(quads, quads', {}, {})
  BY <1>1, CodeIsOK, PlainGrown DEF CodeOK
<1> HIDE DEF item
<1>6. Kept(item) = {} /\ Kept(Below) = {} /\ KnowsQuads(item, quads')
  BY <1>1, <1>2, <1>4 DEF Kept, KnowsQuads
<1>7. Below.sym \in Opening => Header(item) = Header(Below)
  BY <1>1, <1>4 DEF Opening, LoopSyms, Header
<1>8. tokens' \in 0 .. MaxTokens
  BY <1>1 DEF IInv, TypeOK
<1> HIDE DEF m
<1>9. m = Len(stack) - 1
  BY DEF m
<1> QED
  BY <1>1, <1>2, <1>3, <1>4, <1>5, <1>6, <1>7, <1>8, <1>9, ReplacedKeeps
LEMMA BlockCloseKeeps ==
  ASSUME IInv, BlockClose
  PROVE  IInv'
<1> DEFINE item == Stmt(Top.frag)
<1>1. /\ Parsing /\ Top.sym = "block"
      /\ stack' = Append(Popped(1), item)
      /\ UNCHANGED <<quads, lp_handler, tokens, outcome>>
  BY DEF BlockClose, Reduced
<1>2. /\ stack \in Seq(ToSet(stack)) /\ Len(stack) \in Nat \ {0} /\ DOMAIN stack = 1 .. Len(stack)
      /\ Len(stack) \in DOMAIN stack /\ Top = stack[Len(stack)]
  BY ParserFields
<1>3. item.sym = "stmt" /\ Shaped(item)
  BY DEF Shaped, Stmt
<1> HIDE DEF item
<1>4. Cut(stack, stack', Len(stack), item)
  <2>1. Len(stack) - 1 + 1 = Len(stack) /\ 1 <= Len(stack)
    BY <1>2
  <2>2. Cut(stack, Append(Popped(1), item), Len(stack) - 1 + 1, item)
    BY <1>2, <2>1, CutFields DEF Popped
  <2> QED
    BY <1>1, <2>1, <2>2
<1>5. Grown(quads, quads', {}, {})
  BY <1>1, CodeIsOK, PlainGrown DEF CodeOK
<1>6. /\ Kept(item) = {} /\ Kept(Top) = {} /\ KnowsQuads(item, quads')
      /\ Top.sym \notin Opening /\ item.sym \notin Opening
  BY <1>1, <1>3 DEF Kept, KnowsQuads, Opening, LoopSyms
<1>7. /\ item.sym \in LoopSyms <=> Top.sym \in LoopSyms
      /\ item.sym = "func" <=> Top.sym = "func"
      /\ item.sym = "program" <=> Top.sym = "program"
  BY <1>1, <1>3 DEF LoopSyms
<1>8. tokens' \in 0 .. MaxTokens
  BY <1>1 DEF IInv, TypeOK
<1> QED
  BY <1>1, <1>2, <1>3, <1>4, <1>5, <1>6, <1>7, <1>8, ReplacedKeeps

LEMMA IfPrefixKeeps ==
  ASSUME IInv, IfPrefix
  PROVE  IInv'
<1> DEFINE N    == Len(quads)
           m    == Len(stack) + 1
           item == [sym |-> "if", id |-> Id, ifprefix |-> N + 1]
<1>1. /\ Read /\ quads' = EmitCondition(quads, Id) /\ stack' = Append(stack, item)
      /\ UNCHANGED <<lp_handler, outcome>>
  BY CodeIsOK DEF IfPrefix, Push
<1>2. Len(quads') = N + 2 /\ Grown(quads, quads', {}, {N + 1}) /\ N \in Nat
  <2>1. CodeOK(quads) /\ Id \in Nat
    BY CodeIsOK, ParserFields
  <2> QED
    BY <1>1, <2>1, ConditionEmitted, NumbersEmitted
<1>3. item.sym = "if" /\ Kept(item) = {N + 1} /\ Shaped(item)
  BY DEF Kept, Shaped, ListSyms
<1>4. KnowsQuads(item, quads')
  <2>1. N + 1 \in 0 .. Len(quads') - 1
    BY <1>2
  <2> QED
    BY <2>1 DEF KnowsQuads
<1> HIDE DEF item
<1>5. Cut(stack, stack', m, item)
  BY <1>1, ParserFields, CutFields
<1>6. StackKeepings' = (StackKeepings \ {}) \cup Pairs("stack", m, {N + 1})
  <2>1. PICK gone \in SUBSET StackKeepings :
          /\ StackKeepings' = (StackKeepings \ gone) \cup Pairs("stack", m, Kept(item))
          /\ m = Len(stack) + 1 => gone = {}
    BY <1>5, KeptByStack
  <2> QED
    BY <1>3, <2>1
<1>7. Exchanged({}, Pairs("stack", m, {N + 1}), {}, {N + 1})
  <2>1. Pairs("stack", m, {}) = {}
    BY DEF Pairs
  <2> QED
    BY <2>1, PairsExchanged
<1>8. m # 1 /\ \A i \in DOMAIN stack : i # m /\ ~(i > m)
  BY ParserFields
<1>9. item.sym \notin Opening /\ item.sym # "program"
  BY <1>3 DEF Opening, LoopSyms
<1> HIDE DEF m, N
<1>10. /\ OpenLoops' = OpenLoops /\ OpenFuncs' = OpenFuncs
       /\ \A i \in OpenLoops \cup OpenFuncs : Header(stack'[i]) = Header(stack[i])
  BY <1>5, <1>8, <1>9, OpenStay
<1> QED
  BY <1>1, <1>2, <1>3, <1>4, <1>5, <1>6, <1>7, <1>8, <1>9, <1>10, ReadFields, QuietStepKeeps
(* stmt closes the statement under it, whose jumps all get targets. *)
LEMMA ReducedKeeps ==
  ASSUME IInv, Parsing, Top.sym = "stmt", Len(stack) > 1, Below.sym \in {"if", "else"},
         NEW f, Reduced(2, f), Grown(quads, quads', Kept(Below), {}),
         UNCHANGED <<lp_handler, tokens, outcome>>
  PROVE  IInv'
<1> DEFINE m    == Len(stack) - 1
           item == Stmt(f)
<1>1. stack' = Append(Popped(2), item) /\ item.sym = "stmt" /\ Shaped(item)
  BY DEF Reduced, Shaped, Stmt
<1>2. /\ stack \in Seq(ToSet(stack)) /\ Len(stack) \in Nat /\ DOMAIN stack = 1 .. Len(stack)
      /\ m \in DOMAIN stack /\ Below = stack[m]
  BY ParserFields DEF Below
<1> HIDE DEF item
<1>3. Cut(stack, stack', m, item)
  <2>1. Len(stack) - 2 + 1 = m /\ 2 <= Len(stack)
    BY <1>2
  <2>2. Cut(stack, Append(Popped(2), item), Len(stack) - 2 + 1, item)
    BY <1>2, <2>1, CutFields DEF Popped
  <2> QED
    BY <1>1, <2>1, <2>2
<1>4. Kept(item) = {} /\ KnowsQuads(item, quads')
  BY <1>1 DEF Kept, KnowsQuads
<1>5. /\ item.sym \in LoopSyms <=> Below.sym \in LoopSyms
      /\ item.sym = "func" <=> Below.sym = "func"
      /\ item.sym = "program" <=> Below.sym = "program"
      /\ Below.sym \notin Opening
  BY <1>1 DEF LoopSyms, Opening
<1>6. tokens' \in 0 .. MaxTokens
  BY DEF IInv, TypeOK
<1>7. Kept(item) = (Kept(Below) \ Kept(Below)) \cup {} /\ Kept(Below) \subseteq Kept(stack[m])
  BY <1>2, <1>4
<1>8. m = Len(stack) - 1
  OBVIOUS
<1> HIDE DEF m
<1> QED
  BY <1>1, <1>2, <1>3, <1>4, <1>5, <1>6, <1>7, <1>8, ReplacedKeeps

LEMMA IfStmtKeeps ==
  ASSUME IInv, IfStmt
  PROVE  IInv'
<1> DEFINE f   == Choice(Below.id, Top.frag, Empty)
           new == PatchLabel(quads, {Below.ifprefix}, Len(quads))
<1>1. /\ Parsing /\ Top.sym = "stmt" /\ Len(stack) > 1 /\ Below.sym = "if"
      /\ quads' = new /\ Reduced(2, f)
      /\ UNCHANGED <<lp_handler, tokens, outcome>>
  BY CodeIsOK DEF IfStmt, Under
<1>2. Below.ifprefix \in 0 .. Len(quads) - 1 /\ CodeOK(quads) /\ Len(quads) \in Nat
  BY <1>1, ParserFields, CodeIsOK DEF KnowsQuads
<1>3. Len(quads) \in 0 .. Len(quads) + 1 /\ Len(quads) # 0
  BY <1>2
<1>4. Grown(quads, new, {Below.ifprefix}, {})
  <2>1. MayLeadTo(quads, Len(quads))
    BY <1>3 DEF MayLeadTo
  <2> QED
    BY <1>2, <1>3, <2>1, PatchGrown
<1>5. Kept(Below) = {Below.ifprefix}
  BY <1>1 DEF Kept
<1> HIDE DEF f, new
<1> QED
  BY <1>1, <1>4, <1>5, ReducedKeeps

LEMMA IfElseStmtKeeps ==
  ASSUME IInv, IfElseStmt
  PROVE  IInv'
<1> DEFINE f   == Choice(Below.id, Below.yes, Top.frag)
           mid == PatchLabel(quads, {Below.ifprefix}, Below.elseprefix + 1)
           new == PatchLabel(mid, {Below.elseprefix}, Len(quads))
<1>1. /\ Parsing /\ Top.sym = "stmt" /\ Len(stack) > 1 /\ Below.sym = "else"
      /\ quads' = new /\ Reduced(2, f)
      /\ UNCHANGED <<lp_handler, tokens, outcome>>
  BY CodeIsOK DEF IfElseStmt, Under
<1>2. /\ Below.ifprefix \in 0 .. Len(quads) - 1 /\ Below.elseprefix \in 0 .. Len(quads) - 1
      /\ CodeOK(quads) /\ Len(quads) \in Nat
  BY <1>1, ParserFields, CodeIsOK DEF KnowsQuads
<1>3. /\ Len(quads) \in 0 .. Len(quads) + 1 /\ Len(quads) # 0
      /\ Below.elseprefix + 1 \in 0 .. Len(quads) + 1 /\ Below.elseprefix + 1 # 0
  <2>1. ASSUME NEW L \in Nat, NEW e \in 0 .. L - 1
        PROVE  L \in 0 .. L + 1 /\ L # 0 /\ e + 1 \in 0 .. L + 1 /\ e + 1 # 0
    OBVIOUS
  <2> QED
    BY <1>2, <2>1
<1>4. CodeOK(mid) /\ Len(mid) = Len(quads) /\ Grown(quads, mid, {Below.ifprefix}, {})
  <2>1. MayLeadTo(quads, Below.elseprefix + 1)
    BY <1>3 DEF MayLeadTo
  <2> QED
    BY <1>2, <1>3, <2>1, PatchGrown
<1>5. Grown(mid, new, {Below.elseprefix}, {})
  <2> HIDE DEF mid
  <2>1. MayLeadTo(mid, Len(quads)) /\ Len(quads) \in 0 .. Len(mid) + 1
    BY <1>3, <1>4 DEF MayLeadTo
  <2> QED
    BY <1>4, <2>1, PatchGrown
<1> HIDE DEF mid, new
<1>6. Grown(quads, new, {Below.ifprefix} \cup {Below.elseprefix}, ({} \ {Below.elseprefix}) \cup {})
  BY <1>2, <1>4, <1>5, GrownTwice
<1>7. Kept(Below) = {Below.ifprefix, Below.elseprefix}
  BY <1>1 DEF Kept
<1>8. Grown(quads, new, Kept(Below), {})
  <2>1. /\ {Below.ifprefix} \cup {Below.elseprefix} = Kept(Below)
        /\ ({} \ {Below.elseprefix}) \cup {} = {}
    BY <1>7
  <2> QED
    BY <1>6, <2>1
<1> HIDE DEF f
<1> QED
  BY <1>1, <1>8, ReducedKeeps

LEMMA ElsePrefixKeeps ==
  ASSUME IInv, ElsePrefix
  PROVE  IInv'
<1> DEFINE N    == Len(quads)
           m    == Len(stack) - 1
           item == [sym |-> "else", id |-> Below.id, ifprefix |-> Below.ifprefix,
                    elseprefix |-> N, yes |-> Top.frag]
<1>1. /\ Read /\ Top.sym = "stmt" /\ Len(stack) > 1 /\ Below.sym = "if"
      /\ quads' = IncompleteJump(quads) /\ stack' = ReplaceTop(Popped(1), item)
      /\ UNCHANGED <<lp_handler, outcome>>
  BY CodeIsOK DEF ElsePrefix, Under
<1>2. /\ stack \in Seq(ToSet(stack)) /\ Len(stack) \in Nat /\ DOMAIN stack = 1 .. Len(stack)
      /\ m \in DOMAIN stack /\ Below = stack[m]
      /\ Below.ifprefix \in 0 .. N - 1 /\ N \in Nat
  <2>1. KnowsQuads(Below, quads) /\ N \in Nat
    BY <1>1, ParserFields, CodeIsOK
  <2>2. Below.ifprefix \in 0 .. N - 1
    BY <1>1, <2>1 DEF KnowsQuads
  <2>3. m \in DOMAIN stack
    BY <1>1, ParserFields
  <2> QED
    BY <2>1, <2>2, <2>3, ParserFields DEF Below
<1>3. Len(quads') = N + 1 /\ Grown(quads, quads', {}, {N})
  BY <1>1, CodeIsOK, JumpEmitted
<1>4. item.sym = "else" /\ item.ifprefix = Below.ifprefix /\ item.elseprefix = N
  OBVIOUS
<1> HIDE DEF item
<1>5. Cut(stack, stack', m, item)
  <2>1. 1 \in Nat /\ 1 <= Len(stack) /\ 1 < Len(stack)
    BY <1>1, <1>2
  <2>2. Cut(stack, ReplaceTop(SubSeq(stack, 1, Len(stack) - 1), item), Len(stack) - 1, item)
    BY <1>2, <2>1, CutFields
  <2> QED
    BY <1>1, <2>2 DEF Popped
<1>6. Shaped(item) /\ KnowsQuads(item, quads')
  <2>1. N \in 0 .. Len(quads') - 1 /\ Below.ifprefix \in 0 .. Len(quads') - 1
    BY <1>2, <1>3
  <2> QED
    BY <1>4, <2>1 DEF Shaped, KnowsQuads, ListSyms
<1>7. Kept(item) = (Kept(Below) \ {}) \cup {N}
  BY <1>1, <1>4 DEF Kept
<1>8. /\ item.sym \in LoopSyms <=> Below.sym \in LoopSyms
      /\ item.sym = "func" <=> Below.sym = "func"
      /\ item.sym = "program" <=> Below.sym = "program"
      /\ Below.sym \notin Opening
  BY <1>1, <1>4 DEF LoopSyms, Opening
<1>9. m = Len(stack) - 1
  OBVIOUS
<1> HIDE DEF m, N
<1> QED
  BY <1>1, <1>2, <1>3, <1>5, <1>6, <1>7, <1>8, <1>9, ReadFields, ReplacedKeeps
-----------------------------------------------------------------------------
(* break and continue.                                                     *)

LEMMA LoopIsOpen ==
  ASSUME IInv, IsInLoop(lp_handler)
  PROVE  OpenLoops # {} /\ Cardinality(OpenLoops) > 0
<1> DEFINE D == Cardinality(OpenFuncs) + 1
<1>1. D \in 1 .. D /\ D = Len(lp_handler.depths)
  BY NestingFields
<1>2. lp_handler.depths[D] = Cardinality(LoopsOf(D))
  BY <1>1, ListsOfLoops
<1>3. Cardinality(LoopsOf(D)) > 0
  BY <1>1, <1>2 DEF IsInLoop, TopOf
<1>4. LoopsOf(D) # {}
  <2>1. SUFFICES ASSUME LoopsOf(D) = {} PROVE FALSE
    OBVIOUS
  <2>2. Cardinality(LoopsOf(D)) = 0
    BY <2>1, FS_EmptySet
  <2> QED
    BY <1>3, <2>2
<1>5. OpenLoops # {}
  BY <1>4 DEF LoopsOf
<1>6. Cardinality(OpenLoops) # 0 /\ Cardinality(OpenLoops) \in Nat
  BY <1>5, NestingFields, FS_EmptySet
<1> QED
  BY <1>5, <1>6

LEMMA LeaveKeeps ==
  ASSUME IInv, Read, IsInLoop(lp_handler), quads' = IncompleteJump(quads),
         NEW f, Push(Stmt(f)), outcome' = outcome,
         lp_handler' \in [depths : Seq(Nat), breaks : Seq(SUBSET Nat), continues : Seq(SUBSET Nat)],
         lp_handler'.depths = lp_handler.depths,
         Len(lp_handler'.breaks) = Len(lp_handler.breaks),
         Len(lp_handler'.continues) = Len(lp_handler.continues),
         \A l \in 1 .. Cardinality(OpenLoops) :
           lp_handler'.breaks[l] \cup lp_handler'.continues[l]
             \subseteq lp_handler.breaks[l] \cup lp_handler.continues[l]
                         \cup (IF l = Cardinality(OpenLoops) THEN {Len(quads)} ELSE {}),
         NEW k, k[3] = Len(quads), ListKeepings' = ListKeepings \cup {k}
  PROVE  IInv'
<1> DEFINE item == Stmt(f)
           m    == Len(stack) + 1
<1>1. item.sym = "stmt" /\ Shaped(item) /\ KnowsQuads(item, quads') /\ Kept(item) = {}
  BY DEF Stmt, Shaped, KnowsQuads, Kept
<1>2. stack' = Append(stack, item)
  BY DEF Push
<1> HIDE DEF item
<1>3. Cut(stack, stack', m, item)
  BY <1>2, ParserFields, CutFields
<1>4. Grown(quads, quads', {}, {Len(quads)})
  BY CodeIsOK, JumpEmitted
<1>5. StackKeepings' = StackKeepings
  <2>1. PICK gone \in SUBSET StackKeepings :
          /\ StackKeepings' = (StackKeepings \ gone) \cup Pairs("stack", m, Kept(item))
          /\ m = Len(stack) + 1 => gone = {}
    BY <1>3, KeptByStack
  <2>2. Pairs("stack", m, Kept(item)) = {}
    BY <1>1 DEF Pairs
  <2> QED
    BY <2>1, <2>2
<1>6. Keepings' = (Keepings \ {}) \cup {k}
  <2>1. Keepings' = StackKeepings' \cup ListKeepings'
    BY DEF Keepings, StackKeepings, ListKeepings, KeptOf
  <2> QED
    BY <1>5, <2>1, KeepingsAre
<1>7. Exchanged({}, {k}, {}, {Len(quads)})
  BY DEF Exchanged
<1>8. OneKeeperPerJump' /\ \A l \in Keepings' : l[3] \in 0 .. Len(quads') - 1
  BY <1>4, <1>6, <1>7, ReadFields, KeepersFollow
<1>9. m # 1 /\ \A i \in DOMAIN stack : i # m /\ ~(i > m)
  BY ParserFields
<1>10. item.sym \notin Opening /\ item.sym # "program"
  BY <1>1 DEF Opening, LoopSyms
<1> HIDE DEF m
<1>11. /\ OpenLoops' = OpenLoops /\ OpenFuncs' = OpenFuncs
       /\ \A i \in OpenLoops \cup OpenFuncs : Header(stack'[i]) = Header(stack[i])
  BY <1>3, <1>9, <1>10, OpenStay
<1>12. LoopListsFollowNesting'
  BY <1>11, NestingStays
<1> QED
  BY <1>1, <1>3, <1>4, <1>8, <1>9, <1>10, <1>12, ReadFields, StepKeeps

(* A jump is added to the list of the innermost loop. *)
LEMMA CollectedKeeps ==
  ASSUME IInv, Read, IsInLoop(lp_handler), quads' = IncompleteJump(quads),
         NEW f, Push(Stmt(f)), outcome' = outcome,
         lp_handler'.depths = lp_handler.depths,
         lp_handler' = [depths |-> lp_handler'.depths, breaks |-> lp_handler'.breaks,
                        continues |-> lp_handler'.continues],
         \/ /\ lp_handler'.breaks = Collected(lp_handler.breaks, Len(quads))
            /\ lp_handler'.continues = lp_handler.continues
         \/ /\ lp_handler'.continues = Collected(lp_handler.continues, Len(quads))
            /\ lp_handler'.breaks = lp_handler.breaks
  PROVE  IInv'
<1> DEFINE N         == Len(quads)
           L         == Cardinality(OpenLoops)
           breaks    == lp_handler.breaks
           continues == lp_handler.continues
<1>1. /\ L > 0 /\ L \in Nat /\ Len(breaks) = L /\ Len(continues) = L
      /\ breaks \in Seq(SUBSET Nat) /\ continues \in Seq(SUBSET Nat)
      /\ lp_handler.depths \in Seq(Nat) /\ N \in Nat
  BY LoopIsOpen, NestingFields, LoopHandlerFields, CodeIsOK
<1>2. ASSUME NEW keeper, NEW lists \in Seq(SUBSET Nat), Len(lists) = L
      PROVE  /\ Collected(lists, N) \in Seq(SUBSET Nat)
             /\ Len(Collected(lists, N)) = L
             /\ KeptIn(keeper, Collected(lists, N)) = KeptIn(keeper, lists) \cup {<<keeper, L, N>>}
             /\ \A l \in 1 .. L : Collected(lists, N)[l] = lists[l] \cup (IF l = L THEN {N} ELSE {})
  <2> HIDE DEF N, L
  <2>1. Len(lists) > 0
    BY <1>1, <1>2
  <2> QED
    BY <1>1, <1>2, <2>1, ListCollects
<1>3. /\ lp_handler'.breaks \in Seq(SUBSET Nat) /\ Len(lp_handler'.breaks) = L
      /\ lp_handler'.continues \in Seq(SUBSET Nat) /\ Len(lp_handler'.continues) = L
  BY <1>1, <1>2
<1>4. \A l \in 1 .. L :
        lp_handler'.breaks[l] \cup lp_handler'.continues[l]
          \subseteq lp_handler.breaks[l] \cup lp_handler.continues[l]
                      \cup (IF l = L THEN {N} ELSE {})
  <2>1. ASSUME NEW lists \in Seq(SUBSET Nat), Len(lists) = L, NEW l \in 1 .. L
        PROVE  Collected(lists, N)[l] = lists[l] \cup (IF l = L THEN {N} ELSE {})
    BY <1>2, <2>1
  <2>2. ASSUME NEW l \in 1 .. L
        PROVE  /\ Collected(breaks, N)[l] = breaks[l] \cup (IF l = L THEN {N} ELSE {})
               /\ Collected(continues, N)[l] = continues[l] \cup (IF l = L THEN {N} ELSE {})
    BY <1>1, <2>1
  <2>3. ASSUME NEW l \in 1 .. L
        PROVE  lp_handler'.breaks[l] \cup lp_handler'.continues[l]
                 \subseteq breaks[l] \cup continues[l] \cup (IF l = L THEN {N} ELSE {})
    <3>1. lp_handler'.breaks[l] \subseteq breaks[l] \cup (IF l = L THEN {N} ELSE {})
      BY <2>2
    <3>2. lp_handler'.continues[l] \subseteq continues[l] \cup (IF l = L THEN {N} ELSE {})
      BY <2>2
    <3> QED
      BY <3>1, <3>2
  <2> QED
    BY <2>3
<1>5. \E k : k[3] = N /\ ListKeepings' = ListKeepings \cup {k}
  <2>1. /\ ListKeepings = KeptIn("breaks", breaks) \cup KeptIn("continues", continues)
        /\ ListKeepings' = KeptIn("breaks", lp_handler'.breaks)
                             \cup KeptIn("continues", lp_handler'.continues)
    BY DEF ListKeepings
  <2>2. <<"breaks", L, N>>[3] = N /\ <<"continues", L, N>>[3] = N
    OBVIOUS
  <2> HIDE DEF N, L
  <2>3. CASE lp_handler'.breaks = Collected(breaks, N) /\ lp_handler'.continues = continues
    <3>1. ListKeepings' = ListKeepings \cup {<<"breaks", L, N>>}
      BY <1>1, <1>2, <2>1, <2>3
    <3> QED
      BY <2>2, <3>1
  <2>4. CASE lp_handler'.continues = Collected(continues, N) /\ lp_handler'.breaks = breaks
    <3>1. ListKeepings' = ListKeepings \cup {<<"continues", L, N>>}
      BY <1>1, <1>2, <2>1, <2>4
    <3> QED
      BY <2>2, <3>1
  <2> QED
    BY <2>3, <2>4 DEF N
<1>6. PICK k : k[3] = N /\ ListKeepings' = ListKeepings \cup {k}
  BY <1>5
<1>7. lp_handler' \in [depths : Seq(Nat), breaks : Seq(SUBSET Nat), continues : Seq(SUBSET Nat)]
  BY <1>1, <1>3
<1> QED
  BY <1>1, <1>3, <1>4, <1>6, <1>7, LeaveKeeps

LEMMA JumpRefused ==
  ASSUME IInv, Read, ~IsInLoop(lp_handler), UNCHANGED <<quads, lp_handler, stack>>,
         outcome' \in {"break_outside_loop", "continue_outside_loop"}
  PROVE  IInv'
<1>1. \A i \in InnerStart .. Len(stack) : stack[i].sym \notin LoopSyms
  BY StrayJump
<1>2. InnerStart' = InnerStart
  BY DEF InnerStart
<1>3. OnlyStrayJumpsRefused'
  BY <1>1, <1>2 DEF OnlyStrayJumpsRefused
<1> QED
  BY <1>3, ReadFields, StopKeeps

LEMMA BreakStmtKeeps ==
  ASSUME IInv, BreakStmt
  PROVE  IInv'
<1>1. Read
  BY DEF BreakStmt
<1>2. CASE IsInLoop(lp_handler)
  <2>1. /\ lp_handler' = [lp_handler EXCEPT !.breaks = Collected(@, Len(quads))]
        /\ quads' = IncompleteJump(quads) /\ Push(Stmt(Leave("break"))) /\ outcome' = outcome
    BY <1>2, CodeIsOK DEF BreakStmt, Collected
  <2>2. lp_handler' = [depths |-> lp_handler.depths,
                       breaks |-> Collected(lp_handler.breaks, Len(quads)),
                       continues |-> lp_handler.continues]
    BY <2>1, LoopHandlerFields
  <2> QED
    BY <1>1, <1>2, <2>1, <2>2, CollectedKeeps
<1>3. CASE ~IsInLoop(lp_handler)
  BY <1>1, <1>3, JumpRefused DEF BreakStmt
<1> QED
  BY <1>2, <1>3

LEMMA ContinueStmtKeeps ==
  ASSUME IInv, ContinueStmt
  PROVE  IInv'
<1>1. Read
  BY DEF ContinueStmt
<1>2. CASE IsInLoop(lp_handler)
  <2>1. /\ lp_handler' = [lp_handler EXCEPT !.continues = Collected(@, Len(quads))]
        /\ quads' = IncompleteJump(quads) /\ Push(Stmt(Leave("continue"))) /\ outcome' = outcome
    BY <1>2, CodeIsOK DEF ContinueStmt, Collected
  <2>2. lp_handler' = [depths |-> lp_handler.depths, breaks |-> lp_handler.breaks,
                       continues |-> Collected(lp_handler.continues, Len(quads))]
    BY <2>1, LoopHandlerFields
  <2> QED
    BY <1>1, <1>2, <2>1, <2>2, CollectedKeeps
<1>3. CASE ~IsInLoop(lp_handler)
  BY <1>1, <1>3, JumpRefused DEF ContinueStmt
<1> QED
  BY <1>2, <1>3
-----------------------------------------------------------------------------
(* Loops and functions that are opened.                                    *)

LEMMA OpenOfPush ==
  ASSUME IInv, NEW item, Push(item)
  PROVE  LET p == Len(stack) + 1
         IN  /\ Cut(stack, stack', p, item) /\ stack'[p] = item /\ p # 1
             /\ OpenLoops' = OpenLoops \cup (IF item.sym \in LoopSyms THEN {p} ELSE {})
             /\ OpenFuncs' = OpenFuncs \cup (IF item.sym = "func" THEN {p} ELSE {})
             /\ \A i \in OpenLoops \cup OpenFuncs : stack'[i] = stack[i]
             /\ StackKeepings' = StackKeepings \cup Pairs("stack", p, Kept(item))
<1> DEFINE p == Len(stack) + 1
<1>1. Cut(stack, stack', p, item)
  BY ParserFields, CutFields DEF Push
<1>2. p # 1 /\ stack'[p] = item
  BY <1>1, ParserFields DEF Cut
<1>3. \A i \in OpenLoops \cup OpenFuncs : i < p
  <2>1. \A i \in 1 .. Len(stack) : i < p
    BY ParserFields
  <2>2. OpenLoops \cup OpenFuncs \subseteq 1 .. Len(stack)
    BY NestingFields
  <2> HIDE DEF p
  <2> QED
    BY <2>1, <2>2
<1>4. /\ OpenLoops' = {i \in OpenLoops : i < p} \cup (IF item.sym \in LoopSyms THEN {p} ELSE {})
      /\ OpenFuncs' = {i \in OpenFuncs : i < p} \cup (IF item.sym = "func" THEN {p} ELSE {})
      /\ \A i \in OpenLoops \cup OpenFuncs : i < p => stack'[i] = stack[i]
  <2> HIDE DEF p
  <2> QED
    BY <1>1, OpenOfCut
<1>5. StackKeepings' = StackKeepings \cup Pairs("stack", p, Kept(item))
  <2>1. PICK gone \in SUBSET StackKeepings :
          /\ StackKeepings' = (StackKeepings \ gone) \cup Pairs("stack", p, Kept(item))
          /\ p = Len(stack) + 1 => gone = {}
    BY <1>1, KeptByStack
  <2> QED
    BY <2>1
<1>6. {i \in OpenLoops : i < p} = OpenLoops /\ {i \in OpenFuncs : i < p} = OpenFuncs
  BY <1>3
<1> HIDE DEF p
<1>7. /\ Cut(stack, stack', p, item) /\ stack'[p] = item /\ p # 1
      /\ OpenLoops' = OpenLoops \cup (IF item.sym \in LoopSyms THEN {p} ELSE {})
      /\ OpenFuncs' = OpenFuncs \cup (IF item.sym = "func" THEN {p} ELSE {})
      /\ \A i \in OpenLoops \cup OpenFuncs : stack'[i] = stack[i]
      /\ StackKeepings' = StackKeepings \cup Pairs("stack", p, Kept(item))
  BY <1>1, <1>2, <1>3, <1>4, <1>5, <1>6
<1> QED
  BY <1>7 DEF p

(* What an item brings that is pushed without a change of the lists. *)
LEMMA PushedKeepers ==
  ASSUME IInv, Parsing, NEW item, Push(item), Grown(quads, quads', {}, Kept(item)),
         ListKeepings' = ListKeepings
  PROVE  OneKeeperPerJump' /\ \A k \in Keepings' : k[3] \in 0 .. Len(quads') - 1
<1> DEFINE p     == Len(stack) + 1
           added == Pairs("stack", p, Kept(item))
<1>1. StackKeepings' = StackKeepings \cup added
  BY OpenOfPush
<1>2. Exchanged({}, added, {}, Kept(item))
  <2>1. Pairs("stack", p, {}) = {}
    BY DEF Pairs
  <2> QED
    BY <2>1, PairsExchanged
<1> HIDE DEF added, p
<1>3. Keepings' = (Keepings \ {}) \cup added
  <2>1. Keepings' = StackKeepings' \cup ListKeepings'
    BY DEF Keepings, StackKeepings, ListKeepings, KeptOf
  <2> QED
    BY <1>1, <2>1, KeepingsAre
<1> QED
  BY <1>2, <1>3, KeepersFollow

LEMMA LoopOpenedKeeps ==
  ASSUME IInv, Parsing, NEW item, Push(item), item.sym \in LoopSyms,
         Shaped(item), KnowsQuads(item, quads'),
         Header(item) \in Nat, Header(item) >= Len(quads),
         Grown(quads, quads', {}, Kept(item)), lp_handler' = EnterLoop(lp_handler),
         tokens' \in 0 .. MaxTokens, outcome' = outcome
  PROVE  IInv'
<1> DEFINE p == Len(stack) + 1
<1>1. item.sym # "func" /\ item.sym # "program"
  BY DEF LoopSyms
<1>2. /\ Cut(stack, stack', p, item) /\ stack'[p] = item /\ p # 1
      /\ OpenLoops' = OpenLoops \cup (IF item.sym \in LoopSyms THEN {p} ELSE {})
      /\ OpenFuncs' = OpenFuncs \cup (IF item.sym = "func" THEN {p} ELSE {})
      /\ \A i \in OpenLoops \cup OpenFuncs : stack'[i] = stack[i]
  BY OpenOfPush
<1>3. /\ ListKeepings' = ListKeepings
      /\ lp_handler' \in [depths : Seq(Nat), breaks : Seq(SUBSET Nat), continues : Seq(SUBSET Nat)]
  BY EnterLoopKeeps
<1>4. OneKeeperPerJump' /\ \A k \in Keepings' : k[3] \in 0 .. Len(quads') - 1
  BY <1>3, PushedKeepers
<1>5. p = Len(stack) + 1
  OBVIOUS
<1> HIDE DEF p
<1>6. LoopListsFollowNesting'
  <2>1. OpenLoops' = OpenLoops \cup {p} /\ OpenFuncs' = OpenFuncs
    BY <1>1, <1>2
  <2> QED
    BY <1>2, <1>5, <2>1, NestingLoopOpened
<1> QED
  BY <1>1, <1>2, <1>3, <1>4, <1>6, StepKeeps

LEMMA WhileCondKeeps ==
  ASSUME IInv, WhileCond
  PROVE  IInv'
<1> DEFINE N    == Len(quads)
           item == [sym |-> "while", id |-> Id, first_quadno |-> N, whilecond |-> N + 1]
<1>1. /\ Read /\ quads' = EmitCondition(quads, Id) /\ Push(item)
      /\ lp_handler' = EnterLoop(lp_handler) /\ outcome' = outcome
  BY CodeIsOK DEF WhileCond
<1>2. /\ Len(quads') = N + 2 /\ Grown(quads, quads', {}, {N + 1}) /\ N \in Nat
      /\ N = 0 => quads'[1].op = "if_eq"
  <2>1. CodeOK(quads) /\ Id \in Nat
    BY CodeIsOK, ParserFields
  <2> QED
    BY <1>1, <2>1, ConditionEmitted, NumbersEmitted
<1>3. /\ item.sym = "while" /\ item.sym \in LoopSyms /\ item.first_quadno = N /\ item.whilecond = N + 1
      /\ Kept(item) = {N + 1} /\ Header(item) = N + 1 /\ Shaped(item)
  BY DEF Kept, Shaped, ListSyms, Header, LoopSyms
<1> HIDE DEF item
<1>4. KnowsQuads(item, quads')
  <2>1. N + 1 \in 0 .. Len(quads') - 1 /\ N \in 0 .. Len(quads') - 1
    BY <1>2
  <2> QED
    BY <1>2, <1>3, <2>1 DEF KnowsQuads
<1>5. Header(item) \in Nat /\ Header(item) >= Len(quads)
  BY <1>2, <1>3
<1>6. Grown(quads, quads', {}, Kept(item))
  BY <1>2, <1>3
<1> QED
  BY <1>1, <1>3, <1>4, <1>5, <1>6, ReadFields, LoopOpenedKeeps

LEMMA ForPrefixKeeps ==
  ASSUME IInv, ForPrefix
  PROVE  IInv'
<1> DEFINE N    == Len(quads)
           init == Emit(quads, Perform(Id))
           test == EmitLabelled(init, Test(Id + 1), 0)
           new  == IncompleteJump(test)
           item == [sym |-> "incr", id |-> Id, cond_first_quadno |-> Len(init),
                    comparator_quadno |-> Len(init), exit_jmp |-> Len(test), funcs |-> {}]
<1>1. /\ Parsing /\ tokens + 2 < MaxTokens /\ tokens' = tokens + 2
      /\ quads' = new /\ Push(item)
      /\ lp_handler' = EnterLoop(lp_handler) /\ outcome' = outcome
  BY DEF ForPrefix, NextQuadLabel
<1>2. CodeOK(quads) /\ Id \in Nat /\ Id + 1 \in Nat /\ N \in Nat
  BY CodeIsOK, ParserFields
<1>3. CodeOK(init) /\ Len(init) = N + 1 /\ Grown(quads, init, {}, {})
  <2>1. Perform(Id) \in QuadSet /\ Perform(Id).op \notin Jumps
    BY <1>2, QuadsEmitted DEF Jumps
  <2> QED
    BY <1>2, <2>1, PlainEmitted
<1>4. CodeOK(test) /\ Len(test) = N + 2 /\ Grown(init, test, {}, {N + 1})
  <2> HIDE DEF init
  <2>1. Test(Id + 1) \in QuadSet /\ Test(Id + 1).op \in Jumps
    BY <1>2, QuadsEmitted DEF Jumps
  <2>2. 0 \in 0 .. Len(init) + 2
    BY <1>2, <1>3
  <2>3. CodeOK(test) /\ Len(test) = Len(init) + 1 /\ Grown(init, test, {}, {Len(init)})
    BY <1>3, <2>1, <2>2, EmitGrown
  <2> HIDE DEF test
  <2> QED
    BY <1>2, <1>3, <2>3
<1> HIDE DEF init, test
<1>5. CodeOK(new) /\ Len(new) = N + 3 /\ Grown(test, new, {}, {N + 2})
  <2>1. CodeOK(new) /\ Len(new) = Len(test) + 1 /\ Grown(test, new, {}, {Len(test)})
    BY <1>4, JumpEmitted
  <2> HIDE DEF new
  <2> QED
    BY <1>2, <1>4, <2>1
<1> HIDE DEF new
<1>6. Grown(quads, new, {}, {N + 1, N + 2})
  <2>1. Grown(quads, test, {} \cup {}, ({} \ {}) \cup {N + 1})
    BY <1>2, <1>3, <1>4, GrownTwice
  <2>2. Grown(quads, new, ({} \cup {}) \cup {}, ((({} \ {}) \cup {N + 1}) \ {}) \cup {N + 2})
    BY <1>2, <1>5, <2>1, GrownTwice
  <2>3. ({} \cup {}) \cup {} = {} /\ ((({} \ {}) \cup {N + 1}) \ {}) \cup {N + 2} = {N + 1, N + 2}
    OBVIOUS
  <2> QED
    BY <2>2, <2>3
<1>7. /\ item.sym = "incr" /\ item.sym \in LoopSyms /\ item.cond_first_quadno = N + 1
      /\ item.comparator_quadno = N + 1 /\ item.exit_jmp = N + 2
      /\ Shaped(item)
  BY <1>3, <1>4 DEF Shaped, ListSyms, LoopSyms
<1> HIDE DEF item
<1>8. Kept(item) = {N + 1, N + 2} /\ Header(item) = N + 1
  BY <1>7 DEF Kept, Header
<1>9. KnowsQuads(item, quads')
  <2>1. N + 1 \in (0 .. Len(quads') - 1) \ {0} /\ N + 2 \in 0 .. Len(quads') - 1
    BY <1>1, <1>2, <1>5
  <2> QED
    BY <1>7, <2>1 DEF KnowsQuads
<1>10. Header(item) \in Nat /\ Header(item) >= Len(quads)
  BY <1>2, <1>8
<1>11. Grown(quads, quads', {}, Kept(item))
  BY <1>1, <1>6, <1>8
<1>12. tokens' \in 0 .. MaxTokens
  BY <1>1, ParserFields, StatementsAssumption
<1> QED
  BY <1>1, <1>7, <1>9, <1>10, <1>11, <1>12, LoopOpenedKeeps

LEMMA FuncOpenKeeps ==
  ASSUME IInv, FuncOpen
  PROVE  IInv'
<1> DEFINE N    == Len(quads)
           p    == Len(stack) + 1
           quad == Quad("funcstart", None, Place(Id), None)
           item == [sym |-> "func", id |-> Id, iaddress |-> N, frag |-> Empty]
<1>1. /\ Read /\ quads' = Emit(quads, quad) /\ Push(item)
      /\ lp_handler' = EnterFunction(lp_handler) /\ outcome' = outcome
  BY CodeIsOK DEF FuncOpen
<1>2. Len(quads') = N + 1 /\ Grown(quads, quads', {}, {}) /\ N \in Nat
  <2>1. CodeOK(quads) /\ quad \in QuadSet /\ quad.op \notin Jumps
    BY CodeIsOK, ParserFields, QuadsEmitted DEF Jumps
  <2> HIDE DEF quad
  <2> QED
    BY <1>1, <2>1, PlainEmitted, NumbersEmitted
<1>3. /\ item.sym = "func" /\ item.iaddress = N /\ Shaped(item)
      /\ item.sym \notin LoopSyms /\ item.sym # "program"
  BY ParserFields DEF Shaped, ListSyms, LoopSyms
<1> HIDE DEF item, quad
<1>4. Kept(item) = {} /\ Header(item) = N
  BY <1>3 DEF Kept, Header
<1>5. KnowsQuads(item, quads')
  <2>1. N \in 0 .. Len(quads') - 1
    BY <1>2
  <2> QED
    BY <1>3, <2>1 DEF KnowsQuads
<1>6. /\ Cut(stack, stack', p, item) /\ stack'[p] = item /\ p # 1
      /\ OpenLoops' = OpenLoops \cup (IF item.sym \in LoopSyms THEN {p} ELSE {})
      /\ OpenFuncs' = OpenFuncs \cup (IF item.sym = "func" THEN {p} ELSE {})
      /\ \A i \in OpenLoops \cup OpenFuncs : stack'[i] = stack[i]
  BY <1>1, OpenOfPush
<1>7. ListKeepings' = ListKeepings
  <2>1. lp_handler'.breaks = lp_handler.breaks /\ lp_handler'.continues = lp_handler.continues
    BY <1>1, LoopHandlerFields DEF EnterFunction
  <2> QED
    BY <2>1 DEF ListKeepings
<1>8. OneKeeperPerJump' /\ \A k \in Keepings' : k[3] \in 0 .. Len(quads') - 1
  <2>1. Grown(quads, quads', {}, Kept(item))
    BY <1>2, <1>4
  <2> QED
    BY <1>1, <1>7, <2>1, ReadFields, PushedKeepers
<1>9. p = Len(stack) + 1 /\ N = Len(quads)
  OBVIOUS
<1> HIDE DEF p
<1>10. /\ LoopListsFollowNesting'
       /\ lp_handler' \in [depths : Seq(Nat), breaks : Seq(SUBSET Nat), continues : Seq(SUBSET Nat)]
  <2>1. OpenLoops' = OpenLoops /\ OpenFuncs' = OpenFuncs \cup {p}
    BY <1>3, <1>6
  <2>2. Header(stack'[p]) \in Nat /\ Header(stack'[p]) >= Len(quads)
    BY <1>2, <1>4, <1>6
  <2> HIDE DEF N
  <2> QED
    BY <1>1, <1>6, <1>9, <2>1, <2>2, NestingFuncOpened
<1> QED
  BY <1>1, <1>2, <1>3, <1>5, <1>6, <1>8, <1>10, ReadFields, StepKeeps

(* The increment is read: the item that was opened becomes a for. *)
LEMMA ForIncrementKeeps ==
  ASSUME IInv, NEW increments \in BOOLEAN, ForIncrement(increments)
  PROVE  IInv'
<1> DEFINE N    == Len(quads)
           K    == Len(stack)
           mid  == IF increments THEN Emit(quads, Perform(Id)) ELSE quads
           new  == IncompleteJump(mid)
           item == [sym |-> "for", id |-> Top.id, cond_first_quadno |-> Top.cond_first_quadno,
                    comparator_quadno |-> Top.comparator_quadno, exit_jmp |-> Top.exit_jmp,
                    cond_jmp |-> Len(mid), funcs |-> Top.funcs,
                    incr |-> IF increments THEN Simple(Id) ELSE Empty]
<1>1. /\ Read /\ Top.sym = "incr" /\ quads' = new /\ stack' = ReplaceTop(stack, item)
      /\ UNCHANGED <<lp_handler, outcome>>
  BY DEF ForIncrement, NextQuadLabel
<1>2. CodeOK(quads) /\ N \in Nat /\ Id \in Nat
  BY CodeIsOK, ParserFields
<1>3. /\ item.sym = "for" /\ item.cond_first_quadno = Top.cond_first_quadno
      /\ item.comparator_quadno = Top.comparator_quadno /\ item.exit_jmp = Top.exit_jmp
      /\ item.cond_jmp = Len(mid)
  OBVIOUS
<1> HIDE DEF item
<1>4. CodeOK(mid) /\ Len(mid) \in Nat /\ Len(mid) >= N /\ Grown(quads, mid, {}, {})
  <2>1. CASE increments
    <3>1. Perform(Id) \in QuadSet /\ Perform(Id).op \notin Jumps
      BY <1>2, QuadsEmitted DEF Jumps
    <3> DEFINE emitted == Emit(quads, Perform(Id))
    <3>2. CodeOK(emitted) /\ Len(emitted) = N + 1 /\ Grown(quads, emitted, {}, {})
      BY <1>2, <3>1, PlainEmitted
    <3>3. mid = emitted
      BY <2>1
    <3> HIDE DEF emitted
    <3> QED
      BY <1>2, <3>2, <3>3
  <2>2. CASE ~increments
    <3>1. mid = quads
      BY <2>2
    <3> QED
      BY <1>2, <3>1, PlainGrown DEF CodeOK
  <2> QED
    BY <2>1, <2>2
<1> HIDE DEF mid
<1>5. CodeOK(new) /\ Len(new) = Len(mid) + 1 /\ Grown(mid, new, {}, {Len(mid)})
  BY <1>4, JumpEmitted
<1> HIDE DEF new
<1>6. Grown(quads, new, {}, {Len(mid)})
  <2>1. Grown(quads, new, {} \cup {}, ({} \ {}) \cup {Len(mid)})
    BY <1>2, <1>4, <1>5, GrownTwice
  <2>2. {} \cup {} = {} /\ ({} \ {}) \cup {Len(mid)} = {Len(mid)}
    OBVIOUS
  <2> QED
    BY <2>1, <2>2
<1>7. /\ stack \in Seq(ToSet(stack)) /\ K \in Nat \ {0} /\ DOMAIN stack = 1 .. K
      /\ K \in DOMAIN stack /\ Top = stack[K] /\ KnowsQuads(Top, quads)
  BY ParserFields
<1>8. Cut(stack, stack', K, item)
  <2>1. Cut(stack, ReplaceTop(stack, item), Len(stack), item)
    BY <1>7, CutFields
  <2> QED
    BY <1>1, <2>1
<1>9. Shaped(item) /\ Header(item) = Header(Top)
  BY <1>1, <1>3 DEF Shaped, ListSyms, Header
<1>10. KnowsQuads(item, quads')
  <2>1. /\ Top.comparator_quadno \in (0 .. N - 1) \ {0}
        /\ Top.cond_first_quadno = Top.comparator_quadno
        /\ Top.exit_jmp \in 0 .. N - 1
    BY <1>1, <1>7 DEF KnowsQuads
  <2>2. /\ \A n \in 0 .. N - 1 : n \in 0 .. Len(quads') - 1
        /\ Len(mid) \in 0 .. Len(quads') - 1
    BY <1>1, <1>2, <1>4, <1>5
  <2> HIDE DEF N
  <2> QED
    BY <1>3, <2>1, <2>2 DEF KnowsQuads
<1>11. Kept(item) = (Kept(Top) \ {}) \cup {Len(mid)}
  BY <1>1, <1>3 DEF Kept
<1>12. /\ item.sym \in LoopSyms <=> Top.sym \in LoopSyms
       /\ item.sym = "func" <=> Top.sym = "func"
       /\ item.sym = "program" <=> Top.sym = "program"
  BY <1>1, <1>3 DEF LoopSyms
<1>13. K = Len(stack)
  OBVIOUS
<1> HIDE DEF K, N
<1> QED
  BY <1>1, <1>6, <1>7, <1>8, <1>9, <1>10, <1>11, <1>12, <1>13, ReadFields, ReplacedKeeps

LEMMA StutterKeeps ==
  ASSUME IInv, UNCHANGED <<quads, lp_handler, stack, tokens, outcome>>
  PROVE  IInv'
<1>1. TypeOK' /\ HandlerTypes' /\ StackWellFormed'
  BY DEF IInv, TypeOK, HandlerTypes, StackWellFormed
<1>2. /\ OpenLoops' = OpenLoops /\ OpenFuncs' = OpenFuncs
      /\ \A i \in OpenLoops \cup OpenFuncs : Header(stack'[i]) = Header(stack[i])
  BY DEF OpenLoops, OpenFuncs
<1>3. LoopListsFollowNesting'
  <2>1. \A l \in 1 .. Cardinality(OpenLoops) :
          lp_handler'.breaks[l] \cup lp_handler'.continues[l]
            \subseteq lp_handler.breaks[l] \cup lp_handler.continues[l]
                        \cup (IF l = Cardinality(OpenLoops) THEN {} ELSE {})
    OBVIOUS
  <2> QED
    BY <1>2, <2>1, NestingStays
<1>4. OneKeeperPerJump'
  <2>1. Keepings' = Keepings
    BY DEF Keepings
  <2> QED
    BY <2>1 DEF IInv, OneKeeperPerJump
<1>5. OnlyStrayJumpsRefused'
  <2>1. InnerStart' = InnerStart
    BY DEF InnerStart
  <2> QED
    BY <1>2, <2>1 DEF IInv, OnlyStrayJumpsRefused
<1> QED
  BY <1>1, <1>3, <1>4, <1>5 DEF IInv

-----------------------------------------------------------------------------
(* Loops and functions that are closed.                                    *)

LEMMA FuncClosedKeeps ==
  ASSUME IInv, Parsing, Top.sym = "func",
         NEW m, NEW item, Cut(stack, stack', m, item),
         OpenLoops' = OpenLoops, OpenFuncs' = OpenFuncs \ {Len(stack)},
         \A i \in OpenLoops \cup OpenFuncs' : Header(stack'[i]) = Header(stack[i]),
         Shaped(item), KnowsQuads(item, quads'), item.sym = "program" <=> m = 1,
         StackKeepings' = StackKeepings, Grown(quads, quads', {}, {}),
         lp_handler' = ExitFunction(lp_handler), tokens' \in 0 .. MaxTokens, outcome' = outcome
  PROVE  IInv'
<1>1. ListKeepings' = ListKeepings
  <2>1. lp_handler'.breaks = lp_handler.breaks /\ lp_handler'.continues = lp_handler.continues
    BY LoopHandlerFields DEF ExitFunction
  <2> QED
    BY <2>1 DEF ListKeepings
<1>2. OneKeeperPerJump' /\ \A k \in Keepings' : k[3] \in 0 .. Len(quads') - 1
  <2>1. Keepings' = StackKeepings' \cup ListKeepings'
    BY DEF Keepings, StackKeepings, ListKeepings, KeptOf
  <2>2. Keepings' = (Keepings \ {}) \cup {}
    BY <1>1, <2>1, KeepingsAre
  <2>3. Exchanged({}, {}, {}, {})
    BY DEF Exchanged
  <2> QED
    BY <2>2, <2>3, KeepersFollow
<1>3. /\ LoopListsFollowNesting'
      /\ lp_handler' \in [depths : Seq(Nat), breaks : Seq(SUBSET Nat), continues : Seq(SUBSET Nat)]
  <2>1. Len(stack) \in OpenFuncs
    BY ParserFields DEF OpenFuncs
  <2>2. \A i \in OpenLoops \cup OpenFuncs : i <= Len(stack)
    BY NestingFields
  <2> QED
    BY <2>1, <2>2, NestingFuncClosed
<1> QED
  BY <1>2, <1>3, StepKeeps

(* A function within the increment of a for statement.                     *)
LEMMA FuncInIncrementKeeps ==
  ASSUME IInv, Parsing, Top.sym = "func", Below.sym = "incr",
         NEW funcs, stack' = ReplaceTop(Popped(1), [Below EXCEPT !.funcs = funcs]),
         Grown(quads, quads', {}, {}),
         lp_handler' = ExitFunction(lp_handler), tokens' \in 0 .. MaxTokens, outcome' = outcome
  PROVE  IInv'
<1> DEFINE m    == Len(stack) - 1
           item == [Below EXCEPT !.funcs = funcs]
<1>1. /\ stack \in Seq(ToSet(stack)) /\ Len(stack) \in Nat /\ DOMAIN stack = 1 .. Len(stack)
      /\ Len(stack) > 1
  <2>1. /\ stack \in Seq(ToSet(stack)) /\ Len(stack) \in Nat \ {0} /\ DOMAIN stack = 1 .. Len(stack)
        /\ Len(stack) # 1
    BY ParserFields
  <2> QED
    BY <2>1
<1>2. /\ m \in DOMAIN stack /\ Below = stack[m] /\ Shaped(Below) /\ KnowsQuads(Below, quads)
      /\ Len(stack) \in DOMAIN stack /\ Top = stack[Len(stack)] /\ m < Len(stack) /\ m \in Nat
      /\ \A i \in DOMAIN stack : i < m \/ i = m \/ i = Len(stack)
  BY <1>1, ParserFields DEF Below
<1>3. /\ item.sym = "incr" /\ item.comparator_quadno = Below.comparator_quadno
      /\ item.cond_first_quadno = Below.cond_first_quadno /\ item.exit_jmp = Below.exit_jmp
      /\ Shaped(item)
  BY <1>2 DEF Shaped, ListSyms
<1>4. stack' = ReplaceTop(SubSeq(stack, 1, Len(stack) - 1), item)
  BY DEF Popped
<1> HIDE DEF item
<1>5. Cut(stack, stack', m, item)
  <2>1. 1 \in Nat /\ 1 <= Len(stack) /\ 1 < Len(stack)
    BY <1>1
  <2> QED
    BY <1>1, <1>4, <2>1, CutFields
<1>6. Kept(item) = Kept(Below) /\ Header(item) = Header(Below)
  BY <1>3 DEF Kept, Header
<1>7. KnowsQuads(item, quads')
  <2>1. KnowsQuads(item, quads)
    BY <1>2, <1>3 DEF KnowsQuads
  <2> QED
    BY <2>1, CodeIsOK, KnowsMore DEF CodeOK
<1>8. m = Len(stack) - 1
  OBVIOUS
<1> HIDE DEF m
<1>9. StackKeepings' = StackKeepings
  <2>1. Kept(Top) = {}
    BY DEF Kept
  <2>2. PICK gone \in SUBSET StackKeepings :
          /\ StackKeepings' = (StackKeepings \ gone) \cup Pairs("stack", m, Kept(item))
          /\ (m = Len(stack) - 1 /\ Kept(Top) = {})
               => gone = Pairs("stack", Len(stack) - 1, Kept(Below))
    BY <1>5, KeptByStack
  <2>3. gone = Pairs("stack", m, Kept(item))
    BY <1>6, <1>8, <2>1, <2>2
  <2> QED
    BY <2>2, <2>3
<1>10. /\ OpenLoops' = {i \in OpenLoops : i < m} \cup {m}
       /\ OpenFuncs' = {i \in OpenFuncs : i < m}
       /\ \A i \in OpenLoops \cup OpenFuncs : i < m => stack'[i] = stack[i]
  <2>1. item.sym \in LoopSyms /\ item.sym # "func"
    BY <1>3 DEF LoopSyms
  <2> QED
    BY <1>5, <2>1, OpenOfCut
<1>11. /\ m \in OpenLoops /\ m \notin OpenFuncs
       /\ Len(stack) \in OpenFuncs /\ Len(stack) \notin OpenLoops
       /\ \A i \in OpenLoops \cup OpenFuncs : i \in DOMAIN stack
  BY <1>2 DEF OpenLoops, OpenFuncs, LoopSyms
<1>12. ~(m < m) /\ ~(Len(stack) < m) /\ m # Len(stack)
  BY <1>1, <1>2
<1>13. OpenLoops' = OpenLoops /\ OpenFuncs' = OpenFuncs \ {Len(stack)}
  BY <1>2, <1>10, <1>11, <1>12
<1>14. \A i \in OpenLoops \cup OpenFuncs' : Header(stack'[i]) = Header(stack[i])
  <2>1. stack'[m] = item
    BY <1>5 DEF Cut
  <2>2. \A i \in OpenLoops \cup OpenFuncs' : i < m \/ i = m
    BY <1>2, <1>11, <1>13
  <2> QED
    BY <1>2, <1>6, <1>10, <1>13, <2>1, <2>2
<1>15. item.sym = "program" <=> m = 1
  <2>1. m # 1
    BY <1>1, <1>2, <1>8, ParserFields
  <2> QED
    BY <1>3, <2>1
<1> QED
  BY <1>3, <1>5, <1>7, <1>9, <1>13, <1>14, <1>15, FuncClosedKeeps

LEMMA FuncStmtKeeps ==
  ASSUME IInv, Parsing, Top.sym = "func",
         NEW f, Reduced(1, f), Grown(quads, quads', {}, {}),
         lp_handler' = ExitFunction(lp_handler), tokens' \in 0 .. MaxTokens, outcome' = outcome
  PROVE  IInv'
<1> DEFINE K    == Len(stack)
           item == Stmt(f)
<1>1. /\ stack \in Seq(ToSet(stack)) /\ K \in Nat \ {0} /\ DOMAIN stack = 1 .. K
      /\ K # 1 /\ Top = stack[K]
  BY ParserFields
<1>2. stack' = Append(SubSeq(stack, 1, K - 1), item) /\ item.sym = "stmt" /\ Shaped(item)
  BY DEF Reduced, Popped, Shaped, Stmt
<1> HIDE DEF item
<1>3. Cut(stack, stack', K, item)
  <2>1. 1 <= K /\ K - 1 + 1 = K
    BY <1>1
  <2>2. Cut(stack, Append(SubSeq(stack, 1, K - 1), item), K - 1 + 1, item)
    BY <1>1, <2>1, CutFields
  <2> QED
    BY <1>2, <2>1, <2>2
<1>4. Kept(item) = {} /\ KnowsQuads(item, quads') /\ item.sym \notin LoopSyms /\ item.sym # "func"
  BY <1>2 DEF Kept, KnowsQuads, LoopSyms
<1>5. StackKeepings' = StackKeepings
  <2>1. Pairs("stack", K, Kept(item)) = {} /\ Pairs("stack", K, Kept(Top)) = {}
    BY <1>4 DEF Kept, Pairs
  <2>2. PICK gone \in SUBSET StackKeepings :
          /\ StackKeepings' = (StackKeepings \ gone) \cup Pairs("stack", K, Kept(item))
          /\ K = Len(stack) => gone = Pairs("stack", Len(stack), Kept(Top))
    BY <1>3, KeptByStack
  <2> QED
    BY <2>1, <2>2
<1>6. /\ OpenLoops' = {i \in OpenLoops : i < K}
      /\ OpenFuncs' = {i \in OpenFuncs : i < K}
      /\ \A i \in OpenLoops \cup OpenFuncs : i < K => stack'[i] = stack[i]
  <2> HIDE DEF K
  <2> QED
    BY <1>3, <1>4, OpenOfCut
<1>7. /\ K \in OpenFuncs /\ K \notin OpenLoops
      /\ \A i \in OpenLoops \cup OpenFuncs : i \in DOMAIN stack
  BY <1>1 DEF OpenLoops, OpenFuncs, LoopSyms
<1>8. ~(K < K) /\ \A i \in DOMAIN stack : i < K \/ i = K
  BY <1>1
<1>9. K = Len(stack)
  OBVIOUS
<1> HIDE DEF K
<1>10. OpenLoops' = OpenLoops /\ OpenFuncs' = OpenFuncs \ {Len(stack)}
  BY <1>6, <1>7, <1>8, <1>9
<1>11. \A i \in OpenLoops \cup OpenFuncs' : Header(stack'[i]) = Header(stack[i])
  BY <1>6, <1>7, <1>8
<1>12. item.sym = "program" <=> K = 1
  BY <1>1, <1>2
<1> QED
  BY <1>2, <1>3, <1>4, <1>5, <1>10, <1>11, <1>12, FuncClosedKeeps

LEMMA FuncCloseKeeps ==
  ASSUME IInv, FuncClose
  PROVE  IInv'
<1> DEFINE def  == Function(Top.id, Top.frag)
           quad == Quad("funcend", None, Place(Top.id), None)
           all  == Below.funcs \cup def.edges
<1>1. /\ Parsing /\ Top.sym = "func"
      /\ quads' = Emit(quads, quad) /\ lp_handler' = ExitFunction(lp_handler)
      /\ UNCHANGED <<tokens, outcome>>
  BY DEF FuncClose
<1>2. IF Below.sym = "incr" THEN stack' = ReplaceTop(Popped(1), [Below EXCEPT !.funcs = all])
                            ELSE Reduced(1, def)
  BY DEF FuncClose
<1>3. Grown(quads, quads', {}, {})
  <2>1. Top.id \in Nat
    BY <1>1, ParserFields DEF Shaped, ListSyms
  <2>2. CodeOK(quads) /\ quad \in QuadSet /\ quad.op \notin Jumps
    BY <2>1, CodeIsOK, QuadsEmitted DEF Jumps
  <2> HIDE DEF quad
  <2> QED
    BY <1>1, <2>2, PlainEmitted
<1>4. tokens' \in 0 .. MaxTokens /\ outcome' = outcome
  BY <1>1 DEF IInv, TypeOK
<1> HIDE DEF def, all
<1>5. CASE Below.sym = "incr"
  BY <1>1, <1>2, <1>3, <1>4, <1>5, FuncInIncrementKeeps
<1>6. CASE Below.sym # "incr"
  BY <1>1, <1>2, <1>3, <1>4, <1>6, FuncStmtKeeps
<1> QED
  BY <1>5, <1>6
(* One more step of patching. *)
LEMMA PatchedGrown ==
  ASSUME NEW code, CodeOK(code), NEW mid, CodeOK(mid),
         NEW patched, NEW waiting, Grown(code, mid, patched, waiting),
         NEW quadnos, NEW label \in 0 .. Len(mid) + 1, MayLeadTo(mid, label)
  PROVE  LET new == PatchLabel(mid, quadnos, label)
         IN  /\ CodeOK(new) /\ Len(new) = Len(mid)
             /\ Grown(code, new, patched \cup quadnos, waiting \ quadnos)
<1> DEFINE new == PatchLabel(mid, quadnos, label)
<1>1. CodeOK(new) /\ Len(new) = Len(mid) /\ Grown(mid, new, quadnos, {})
  BY PatchGrown
<1> HIDE DEF new
<1>2. Grown(code, new, patched \cup quadnos, (waiting \ quadnos) \cup {})
  BY <1>1, GrownTwice
<1>3. (waiting \ quadnos) \cup {} = waiting \ quadnos
  OBVIOUS
<1>4. Grown(code, new, patched \cup quadnos, waiting \ quadnos)
  BY <1>2, <1>3
<1> QED
  BY <1>1, <1>4 DEF new

LEMMA MayStillLeadTo ==
  ASSUME NEW code, CodeOK(code), NEW new, NEW patched, NEW waiting,
         Grown(code, new, patched, waiting), NEW label, MayLeadTo(code, label)
  PROVE  MayLeadTo(new, label)
<1>1. /\ Len(code) \in Nat /\ Len(new) \in Nat /\ Len(code) <= Len(new)
      /\ DOMAIN code = 1 .. Len(code)
  BY ItemsOfSeq DEF CodeOK, Grown
<1>2. Len(code) > 0 => new[1].op = code[1].op
  <2>1. Len(code) > 0 => 1 \in DOMAIN code
    BY <1>1
  <2> QED
    BY <2>1 DEF Grown
<1> QED
  BY <1>1, <1>2 DEF MayLeadTo

(* A loop takes its statement, and the jumps out of it and to its start    *)
(* get their targets.                                                      *)
Loosened == Kept(Below) \cup TopOf(lp_handler.breaks) \cup TopOf(lp_handler.continues)

LEMMA LoopClosedKeeps ==
  ASSUME IInv, Parsing, Top.sym = "stmt", Len(stack) > 1, Below.sym \in {"while", "for"},
         NEW f, Reduced(2, f), lp_handler' = ExitLoop(lp_handler),
         NEW patched, Grown(quads, quads', patched, {}),
         Loosened \subseteq patched, \A n \in patched \ Loosened : ~(n < Len(quads)),
         UNCHANGED <<tokens, outcome>>
  PROVE  IInv'
<1> DEFINE m    == Len(stack) - 1
           item == Stmt(f)
           L    == Cardinality(OpenLoops)
           goneS == Pairs("stack", m, Kept(Below))
           goneL == Pairs("breaks", L, TopOf(lp_handler.breaks))
                      \cup Pairs("continues", L, TopOf(lp_handler.continues))
<1>1. stack' = Append(SubSeq(stack, 1, Len(stack) - 2), item) /\ item.sym = "stmt" /\ Shaped(item)
  BY DEF Reduced, Popped, Shaped, Stmt
<1>2. /\ stack \in Seq(ToSet(stack)) /\ Len(stack) \in Nat /\ DOMAIN stack = 1 .. Len(stack)
      /\ m \in DOMAIN stack /\ Below = stack[m] /\ m < Len(stack) /\ m \in Nat
      /\ Len(stack) \in DOMAIN stack /\ Top = stack[Len(stack)]
      /\ \A i \in DOMAIN stack : i < m \/ i = m \/ i = Len(stack)
      /\ ~(m < m) /\ ~(Len(stack) < m)
  <2>1. /\ stack \in Seq(ToSet(stack)) /\ Len(stack) \in Nat /\ DOMAIN stack = 1 .. Len(stack)
        /\ Top = stack[Len(stack)]
    BY ParserFields
  <2>2. /\ m \in DOMAIN stack /\ m < Len(stack) /\ m \in Nat /\ Len(stack) \in DOMAIN stack
        /\ \A i \in DOMAIN stack : i < m \/ i = m \/ i = Len(stack)
        /\ ~(m < m) /\ ~(Len(stack) < m)
    BY <2>1
  <2> QED
    BY <2>1, <2>2 DEF Below
<1> HIDE DEF item
<1>3. Cut(stack, stack', m, item)
  <2>1. Len(stack) - 2 + 1 = m /\ 2 <= Len(stack) /\ 2 \in Nat /\ 2 > 0
    BY <1>2
  <2>2. Cut(stack, Append(SubSeq(stack, 1, Len(stack) - 2), item), Len(stack) - 2 + 1, item)
    BY <1>2, <2>1, CutFields
  <2> QED
    BY <1>1, <2>1, <2>2
<1>4. /\ Kept(item) = {} /\ KnowsQuads(item, quads')
      /\ item.sym \notin LoopSyms /\ item.sym # "func" /\ item.sym # "program"
  BY <1>1 DEF Kept, KnowsQuads, LoopSyms
<1>5. m # 1
  BY <1>2, ParserFields
<1>6. m = Len(stack) - 1
  OBVIOUS
<1> HIDE DEF m
<1>7. goneS \in SUBSET StackKeepings /\ StackKeepings' = StackKeepings \ goneS
  <2>1. Kept(Top) = {} /\ Pairs("stack", m, Kept(item)) = {}
    BY <1>4 DEF Kept, Pairs
  <2>2. PICK gone \in SUBSET StackKeepings :
          /\ StackKeepings' = (StackKeepings \ gone) \cup Pairs("stack", m, Kept(item))
          /\ (m = Len(stack) - 1 /\ Kept(Top) = {})
               => gone = Pairs("stack", Len(stack) - 1, Kept(Below))
    BY <1>3, KeptByStack
  <2> QED
    BY <1>6, <2>1, <2>2
<1>8. /\ m \in OpenLoops /\ m \notin OpenFuncs
      /\ Len(stack) \notin OpenLoops /\ Len(stack) \notin OpenFuncs
      /\ \A i \in OpenLoops \cup OpenFuncs : i \in DOMAIN stack
  BY <1>2 DEF OpenLoops, OpenFuncs, LoopSyms
<1>9. goneL \in SUBSET ListKeepings /\ ListKeepings' = ListKeepings \ goneL
  <2>1. OpenLoops # {}
    BY <1>8
  <2> QED
    BY <2>1, ExitLoopKeeps
<1>10. goneS \cup goneL \in SUBSET Keepings /\ Keepings' = (Keepings \ (goneS \cup goneL)) \cup {}
  <2> HIDE DEF goneS, goneL
  <2>1. Keepings' = StackKeepings' \cup ListKeepings'
    BY DEF Keepings, StackKeepings, ListKeepings, KeptOf
  <2> QED
    BY <1>7, <1>9, <2>1, KeepingsAre
<1>11. Exchanged(goneS \cup goneL, {}, patched, {})
  <2>1. ASSUME NEW keeper, NEW i, NEW ns
        PROVE  /\ \A k \in Pairs(keeper, i, ns) : k[3] \in ns
               /\ \A n \in ns : \E k \in Pairs(keeper, i, ns) : k[3] = n
    <3>1. \A n \in ns : <<keeper, i, n>> \in Pairs(keeper, i, ns) /\ <<keeper, i, n>>[3] = n
      BY DEF Pairs
    <3> QED
      BY <3>1 DEF Pairs
  <2>2. \A k \in goneS \cup goneL : k[3] \in patched
    BY <2>1 DEF Loosened
  <2>3. ASSUME NEW n \in patched, n < Len(quads)
        PROVE  \E k \in goneS \cup goneL : k[3] = n
    <3>1. n \in Kept(Below) \/ n \in TopOf(lp_handler.breaks) \/ n \in TopOf(lp_handler.continues)
      BY <2>3 DEF Loosened
    <3> QED
      BY <2>1, <3>1
  <2> HIDE DEF goneS, goneL
  <2> QED
    BY <2>2, <2>3 DEF Exchanged
<1> HIDE DEF goneS, goneL, L
<1>12. OneKeeperPerJump' /\ \A k \in Keepings' : k[3] \in 0 .. Len(quads') - 1
  BY <1>10, <1>11, KeepersFollow
<1>13. /\ OpenLoops' = {i \in OpenLoops : i < m} /\ OpenFuncs' = {i \in OpenFuncs : i < m}
       /\ \A i \in OpenLoops \cup OpenFuncs : i < m => stack'[i] = stack[i]
  BY <1>3, <1>4, OpenOfCut
<1>14. OpenLoops' = OpenLoops \ {m} /\ OpenFuncs' = OpenFuncs
  BY <1>2, <1>8, <1>13
<1>15. /\ \A i \in OpenLoops \cup OpenFuncs : i <= m
       /\ \A i \in OpenLoops' \cup OpenFuncs : stack'[i] = stack[i]
  <2>1. \A i \in OpenLoops \cup OpenFuncs : i < m \/ i = m
    BY <1>2, <1>8
  <2>2. \A i \in OpenLoops \cup OpenFuncs : i \in Nat
    BY <1>2, <1>8
  <2>3. \A i \in OpenLoops \cup OpenFuncs : i <= m
    BY <1>2, <2>1, <2>2
  <2>4. \A i \in OpenLoops' \cup OpenFuncs : i < m
    BY <1>8, <1>13, <2>1
  <2> QED
    BY <1>13, <2>3, <2>4
<1>16. /\ LoopListsFollowNesting'
       /\ lp_handler' \in [depths : Seq(Nat), breaks : Seq(SUBSET Nat), continues : Seq(SUBSET Nat)]
  BY <1>8, <1>14, <1>15, NestingLoopClosed
<1>17. tokens' \in 0 .. MaxTokens
  BY DEF IInv, TypeOK
<1> QED
  BY <1>1, <1>3, <1>4, <1>5, <1>12, <1>16, <1>17, StepKeeps

LEMMA WhileStmtKeeps ==
  ASSUME IInv, WhileStmt
  PROVE  IInv'
<1> DEFINE N      == Len(quads)
           first  == Below.first_quadno
           looped == EmitLabelled(quads, Jump, first)
           out    == {Below.whilecond} \cup TopOf(lp_handler.breaks)
           left   == PatchLabel(looped, out, Len(looped))
           again  == TopOf(lp_handler.continues)
           new    == PatchLabel(left, again, first)
           f      == Loop(Below.id, Top.frag, Event(Below.id))
<1>1. /\ Parsing /\ Top.sym = "stmt" /\ Len(stack) > 1 /\ Below.sym = "while"
      /\ quads' = new /\ lp_handler' = ExitLoop(lp_handler)
      /\ Reduced(2, f) /\ UNCHANGED <<tokens, outcome>>
  BY DEF WhileStmt, Under, NextQuadLabel
<1> HIDE DEF f
<1>2. CodeOK(quads) /\ N \in Nat
  BY CodeIsOK
<1>3. first \in 0 .. N - 1 /\ MayLeadTo(quads, first)
  <2>1. first \in 0 .. N - 1 /\ (first = 0 => quads[1].op = "if_eq")
    BY <1>1, ParserFields DEF KnowsQuads
  <2>2. N > 0
    BY <1>2, <2>1
  <2> QED
    BY <2>1, <2>2 DEF MayLeadTo
<1> HIDE DEF first
<1>4. CodeOK(looped) /\ Len(looped) = N + 1 /\ Grown(quads, looped, {}, {})
  <2>1. Jump \in QuadSet /\ first \in 0 .. Len(quads) + 2
    BY <1>2, <1>3, QuadsEmitted
  <2> QED
    BY <1>2, <1>3, <2>1, EmitGrown
<1> HIDE DEF looped, out
<1>5. CodeOK(left) /\ Len(left) = N + 1 /\ Grown(quads, left, {} \cup out, {} \ out)
  <2>1. Len(looped) \in 0 .. Len(looped) + 1 /\ MayLeadTo(looped, Len(looped))
    BY <1>2, <1>4 DEF MayLeadTo
  <2> QED
    BY <1>2, <1>4, <2>1, PatchedGrown
<1> HIDE DEF left, again
<1>6. Grown(quads, new, ({} \cup out) \cup again, ({} \ out) \ again)
  <2>1. MayLeadTo(left, first)
    BY <1>2, <1>3, <1>5, MayStillLeadTo
  <2>2. first \in 0 .. Len(left) + 1
    BY <1>2, <1>3, <1>5
  <2> QED
    BY <1>2, <1>5, <2>1, <2>2, PatchedGrown
<1> HIDE DEF new
<1>7. Kept(Below) = {Below.whilecond}
  BY <1>1 DEF Kept
<1>8. Grown(quads, quads', Loosened, {})
  <2>1. ({} \cup out) \cup again = Loosened /\ ({} \ out) \ again = {}
    BY <1>7 DEF out, again, Loosened
  <2> QED
    BY <1>1, <1>6, <2>1
<1>9. Below.sym \in {"while", "for"} /\ Loosened \ Loosened = {}
  BY <1>1
<1> QED
  BY <1>1, <1>8, <1>9, LoopClosedKeeps

LEMMA ForStmtKeeps ==
  ASSUME IInv, ForStmt
  PROVE  IInv'
<1> DEFINE N       == Len(quads)
           closed  == IncompleteJump(quads)
           test    == {Below.comparator_quadno}
           entered == PatchLabel(closed, test, Below.cond_jmp + 1)
           out     == {Below.exit_jmp} \cup TopOf(lp_handler.breaks)
           left    == PatchLabel(entered, out, Len(closed))
           again   == {Below.cond_jmp}
           tested  == PatchLabel(left, again, Below.cond_first_quadno)
           on      == {N} \cup TopOf(lp_handler.continues)
           new     == PatchLabel(tested, on, Below.exit_jmp + 1)
<1>1. /\ Parsing /\ Top.sym = "stmt" /\ Len(stack) > 1 /\ Below.sym = "for"
      /\ quads' = new /\ lp_handler' = ExitLoop(lp_handler)
      /\ UNCHANGED <<tokens, outcome>>
  BY DEF ForStmt, Under, NextQuadLabel
<1>2. PICK f : Reduced(2, f)
  BY DEF ForStmt
<1>3. CodeOK(quads) /\ N \in Nat
  BY CodeIsOK
<1>4. /\ Below.comparator_quadno \in (0 .. N - 1) \ {0}
      /\ Below.cond_first_quadno = Below.comparator_quadno
      /\ Below.exit_jmp \in 0 .. N - 1
      /\ Below.cond_jmp \in 0 .. N - 1
  BY <1>1, ParserFields DEF KnowsQuads
<1>5. ASSUME NEW e \in 0 .. N - 1
      PROVE  e + 1 \in 0 .. (N + 1) + 1 /\ e + 1 # 0 /\ e \in 0 .. (N + 1) + 1
  BY <1>3
<1>6. CodeOK(closed) /\ Len(closed) = N + 1 /\ Grown(quads, closed, {}, {N})
  BY <1>3, JumpEmitted
<1> HIDE DEF closed, test
<1> DEFINE patched1 == {} \cup test
           waiting1 == {N} \ test
           patched2 == patched1 \cup out
           waiting2 == waiting1 \ out
           patched3 == patched2 \cup again
           waiting3 == waiting2 \ again
           patched4 == patched3 \cup on
           waiting4 == waiting3 \ on
<1>7. CodeOK(entered) /\ Len(entered) = N + 1 /\ Grown(quads, entered, patched1, waiting1)
  <2>1. /\ Below.cond_jmp + 1 \in 0 .. Len(closed) + 1
        /\ MayLeadTo(closed, Below.cond_jmp + 1)
    BY <1>4, <1>5, <1>6 DEF MayLeadTo
  <2> QED
    BY <1>3, <1>6, <2>1, PatchedGrown
<1> HIDE DEF entered, out, patched1, waiting1
<1>8. CodeOK(left) /\ Len(left) = N + 1 /\ Grown(quads, left, patched2, waiting2)
  <2>1. Len(closed) \in 0 .. Len(entered) + 1 /\ MayLeadTo(entered, Len(closed))
    BY <1>3, <1>6, <1>7 DEF MayLeadTo
  <2> QED
    BY <1>3, <1>7, <2>1, PatchedGrown
<1> HIDE DEF left, again, patched2, waiting2
<1>9. CodeOK(tested) /\ Len(tested) = N + 1 /\ Grown(quads, tested, patched3, waiting3)
  <2>1. /\ Below.cond_first_quadno \in 0 .. Len(left) + 1
        /\ MayLeadTo(left, Below.cond_first_quadno)
    BY <1>4, <1>5, <1>8 DEF MayLeadTo
  <2> QED
    BY <1>3, <1>8, <2>1, PatchedGrown
<1> HIDE DEF tested, on, patched3, waiting3
<1>10. Grown(quads, new, patched4, waiting4)
  <2>1. /\ Below.exit_jmp + 1 \in 0 .. Len(tested) + 1
        /\ MayLeadTo(tested, Below.exit_jmp + 1)
    BY <1>4, <1>5, <1>9 DEF MayLeadTo
  <2> QED
    BY <1>3, <1>9, <2>1, PatchedGrown
<1> HIDE DEF new, patched4, waiting4
<1>11. Kept(Below) = {Below.comparator_quadno, Below.exit_jmp, Below.cond_jmp}
  BY <1>1 DEF Kept
<1>12. patched4 = Loosened \cup {N} /\ waiting4 = {}
  BY <1>11 DEF patched1, waiting1, patched2, waiting2, patched3, waiting3, patched4, waiting4,
               test, out, again, on, Loosened
<1>13. Grown(quads, quads', patched4, {})
  BY <1>1, <1>10, <1>12
<1>14. Loosened \subseteq patched4 /\ \A n \in patched4 \ Loosened : ~(n < Len(quads))
  BY <1>3, <1>12
<1>15. Below.sym \in {"while", "for"}
  BY <1>1
<1> HIDE DEF N
<1> QED
  BY <1>1, <1>2, <1>13, <1>14, <1>15, LoopClosedKeeps

-----------------------------------------------------------------------------
(* The specification.                                                      *)

LEMMA EndOfFileKeeps ==
  ASSUME IInv, EndOfFile
  PROVE  IInv'
<1>1. tokens' \in 0 .. MaxTokens
  BY DEF EndOfFile, IInv, TypeOK
<1>2. OnlyStrayJumpsRefused'
  BY DEF EndOfFile, OnlyStrayJumpsRefused
<1> QED
  BY <1>1, <1>2, StopKeeps DEF EndOfFile

LEMMA InitHolds ==
  Init => IInv
<1> SUFFICES ASSUME Init PROVE IInv
  OBVIOUS
<1> DEFINE item == [sym |-> "program", frag |-> Empty]
<1>1. /\ quads = << >> /\ stack = <<item>> /\ tokens = 0 /\ outcome = "parsing"
      /\ lp_handler.depths = <<0>> /\ lp_handler.breaks = << >> /\ lp_handler.continues = << >>
      /\ lp_handler = [depths |-> <<0>>, breaks |-> << >>, continues |-> << >>]
  BY DEF Init, NewLoopHandler
<1>2. item.sym = "program" /\ Shaped(item) /\ KnowsQuads(item, quads) /\ Kept(item) = {}
  BY DEF Shaped, ListSyms, KnowsQuads, Kept
<1>3. Len(stack) = 1 /\ DOMAIN stack = {1} /\ stack[1].sym = "program" /\ stack[1] = item
  BY <1>1
<1> HIDE DEF item
<1>4. OpenLoops = {} /\ OpenFuncs = {}
  BY <1>3 DEF OpenLoops, OpenFuncs, LoopSyms
<1>5. Len(quads) = 0 /\ DOMAIN quads = {} /\ ToSet(quads) = {}
  <2>1. Len(quads) = 0 /\ DOMAIN quads = {}
    BY <1>1
  <2> QED
    BY <2>1 DEF ToSet
<1>6. HandlerTypes
  BY <1>1 DEF HandlerTypes
<1>7. TypeOK
  <2>1. \A q \in ToSet(quads) : q.label \in 0 .. NextQuadLabel(quads) + 1
    BY <1>5
  <2>2. Range(lp_handler.depths) \subseteq Nat
    BY <1>1 DEF Range
  <2>3. Range(lp_handler.breaks \o lp_handler.continues) = {}
    <3>1. DOMAIN (<< >> \o << >>) = {}
      OBVIOUS
    <3> QED
      BY <1>1, <3>1 DEF Range
  <2>4. tokens \in 0 .. MaxTokens
    BY <1>1, StatementsAssumption
  <2>5. \A i \in DOMAIN stack : stack[i].sym \in
          LoopSyms \cup {"program", "block", "func", "if", "else", "stmt"}
    BY <1>3
  <2> QED
    BY <2>1, <2>2, <2>3, <2>4, <2>5 DEF TypeOK
<1>8. StackWellFormed
  <2>1. ToSet(stack) = {item}
    BY <1>3 DEF ToSet
  <2>2. stack \in Seq({item})
    BY <1>1
  <2>3. stack \in Seq(ToSet(stack))
    BY <2>1, <2>2
  <2> QED
    BY <1>2, <1>3, <2>3 DEF StackWellFormed
<1>9. OneKeeperPerJump
  <2>1. \A k : k \notin KeptIn("breaks", lp_handler.breaks)
               /\ k \notin KeptIn("continues", lp_handler.continues)
    <3>1. DOMAIN lp_handler.breaks = {} /\ DOMAIN lp_handler.continues = {}
      BY <1>1
    <3> QED
      BY <3>1, KeptInMember
  <2>2. \A k : k \notin KeptIn("stack", [i \in DOMAIN stack |-> Kept(stack[i])])
    <3> DEFINE kept == [i \in DOMAIN stack |-> Kept(stack[i])]
    <3>1. \A i \in DOMAIN kept : kept[i] = {}
      BY <1>2, <1>3
    <3> HIDE DEF kept
    <3>2. \A k : k \notin KeptIn("stack", kept)
      BY <3>1, KeptInMember
    <3> QED
      BY <3>2 DEF kept
  <2>3. Keepings = {}
    BY <2>1, <2>2 DEF Keepings
  <2> QED
    BY <1>5, <2>3 DEF OneKeeperPerJump
<1>10. LoopListsFollowNesting
  <2>1. Cardinality({}) = 0
    BY FS_EmptySet
  <2>2. \A d : LoopsOf(d) = {}
    BY <1>4 DEF LoopsOf
  <2>3. Len(lp_handler.depths) = 1 /\ \A d \in DOMAIN lp_handler.depths : lp_handler.depths[d] = 0
    BY <1>1
  <2>4. Len(lp_handler.breaks) = 0 /\ Len(lp_handler.continues) = 0
    BY <1>1
  <2>5. /\ Cardinality(OpenFuncs) + 1 = 1 /\ Cardinality(OpenLoops) = 0
        /\ \A d : Cardinality(LoopsOf(d)) = 0
    BY <1>4, <2>1, <2>2
  <2>6. \A i \in OpenLoops : FALSE
    BY <1>4
  <2> QED
    BY <2>3, <2>4, <2>5, <2>6 DEF LoopListsFollowNesting
<1>11. OnlyStrayJumpsRefused
  BY <1>1 DEF OnlyStrayJumpsRefused
<1> QED
  BY <1>6, <1>7, <1>8, <1>9, <1>10, <1>11 DEF IInv

LEMMA NextKeeps ==
  IInv /\ [Next]_vars => IInv'
<1> SUFFICES ASSUME IInv, [Next]_vars PROVE IInv'
  OBVIOUS
<1>1. CASE ExprStmt \/ EmptyStmt \/ BlockOpen
  BY <1>1, SimpleStmtKeeps
<1>2. CASE ReturnStmt
  BY <1>2, ReturnStmtKeeps
<1>3. CASE BreakStmt
  BY <1>3, BreakStmtKeeps
<1>4. CASE ContinueStmt
  BY <1>4, ContinueStmtKeeps
<1>5. CASE StmtsStmt
  BY <1>5, StmtsStmtKeeps
<1>6. CASE BlockClose
  BY <1>6, BlockCloseKeeps
<1>7. CASE FuncOpen
  BY <1>7, FuncOpenKeeps
<1>8. CASE FuncClose
  BY <1>8, FuncCloseKeeps
<1>9. CASE IfPrefix
  BY <1>9, IfPrefixKeeps
<1>10. CASE IfStmt
  BY <1>10, IfStmtKeeps
<1>11. CASE ElsePrefix
  BY <1>11, ElsePrefixKeeps
<1>12. CASE IfElseStmt
  BY <1>12, IfElseStmtKeeps
<1>13. CASE WhileCond
  BY <1>13, WhileCondKeeps
<1>14. CASE WhileStmt
  BY <1>14, WhileStmtKeeps
<1>15. CASE ForPrefix
  BY <1>15, ForPrefixKeeps
<1>16. CASE ForStmt
  BY <1>16, ForStmtKeeps
<1>17. CASE \E increments \in BOOLEAN : ForIncrement(increments)
  BY <1>17, ForIncrementKeeps
<1>18. CASE EndOfFile
  BY <1>18, EndOfFileKeeps
<1>19. CASE UNCHANGED vars
  BY <1>19, StutterKeeps DEF vars
<1> QED
  BY <1>1, <1>2, <1>3, <1>4, <1>5, <1>6, <1>7, <1>8, <1>9, <1>10, <1>11, <1>12, <1>13, <1>14,
     <1>15, <1>16, <1>17, <1>18, <1>19 DEF Next

(* The inductive invariant holds at every moment of the parser's run. *)
THEOREM InvariantHolds == Spec => []IInv
<1> QED
  BY InitHolds, NextKeeps, PTL DEF Spec

(* Labels lead to quads that are there or to the next two, the lists hold  *)
(* numbers of quads, and the loop handler's depths never become negative.  *)
THEOREM TypeCorrect == Spec => []TypeOK
<1>1. IInv => TypeOK
  BY DEF IInv
<1> QED
  BY <1>1, InvariantHolds, PTL

(* Each jump that waits for its target is kept in one place, an open       *)
(* statement or a list of the loop handler, until it is patched; a jump    *)
(* that nobody keeps has its target.                                       *)
THEOREM JumpsKept == Spec => []OneKeeperPerJump
<1>1. IInv => OneKeeperPerJump
  BY DEF IInv
<1> QED
  BY <1>1, InvariantHolds, PTL

(* The loop handler's stacks follow the nesting of the loops and functions *)
(* in the source, and a loop's lists hold jumps of its own body alone.     *)
THEOREM NestingFollowed == Spec => []LoopListsFollowNesting
<1>1. IInv => LoopListsFollowNesting
  BY DEF IInv
<1> QED
  BY <1>1, InvariantHolds, PTL

(* A break or continue is refused only outside of every loop of its        *)
(* function, a return only outside of every function.                      *)
THEOREM RefusalsJustified == Spec => []OnlyStrayJumpsRefused
<1>1. IInv => OnlyStrayJumpsRefused
  BY DEF IInv
<1> QED
  BY <1>1, InvariantHolds, PTL
=============================================================================
