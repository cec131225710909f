-------------------------- MODULE ExpressionsProofs --------------------------
(***************************************************************************)
(* Proofs about TableExpressions for statements of every size: the types,  *)
(* every jump without a target waits on one list of one value, and hidden  *)
(* variables in use are not handed out again.  The invariant is IInv.      *)
(*                                                                         *)
(* A handler gives the generator on (Later) in a good state (GenOK), with  *)
(* other jumps waiting, and replaces the symbols on top by one.  There is  *)
(* a lemma for each operator of ExprCode, and one lemma, Replaced, about   *)
(* the stack.                                                              *)
(***************************************************************************)
EXTENDS TableExpressions, NaturalSets, SequenceTheorems, FiniteSetTheorems, TLAPS

ExprTypes ==
  {"VAR_E", "TABLE_ITEM_E", "ARITHM_E", "ASSIGN_E", "CONST_NUM_E", "CONST_BOOL_E", "CONST_STR_E",
   "CONST_NIL_E", "BOOL_E", "LIBRARY_FUNC_E", "PROGRAM_FUNC_E", "NEW_TABLE_E"}

ExprSet == [type : ExprTypes, place : Places, index : Places,
            truelist : SUBSET Nat, falselist : SUBSET Nat]

PlainOps == ArithmOps \cup {"tablegetelem", "tablesetelem", "assign", "uminus", "param", "call",
                            "tablecreate", "getretval", "funcstart", "funcend"}

QuadSet == [op : PlainOps \cup Jumps, result : Places, arg1 : Places, arg2 : Places, label : Nat]

-----------------------------------------------------------------------------
(* The generator.                                                          *)

Defines(g) == \E i \in DOMAIN g.quads : g.quads[i].op = "funcstart"

(* A place that is no hidden variable still to be handed out. *)
Taken(place, g) == Defines(g) \/ (\A n \in Nat : place = Hidden(n) => n < g.count)

(* A quad has its operands, and a member is not fetched into the variable  *)
(* that holds its table.                                                   *)
Sound(q, g) ==
  /\ None \notin Operands(q)
  /\ q.op = "tablegetelem" /\ ~Defines(g) => q.result # q.arg1

GenOK(g) ==
  /\ g \in [quads : Seq(QuadSet), count : Nat]
  /\ \A i \in DOMAIN g.quads : /\ Sound(g.quads[i], g)
                               /\ g.quads[i].label <= Len(g.quads) + 1

(* The numbers of the jumps without a target. *)
Waiting(quads) == {n \in 0 .. Len(quads) - 1 : quads[n + 1].op \in Jumps /\ quads[n + 1].label = 0}

(* Nothing that is known of a generator is undone in a later one. *)
Later(g, h) ==
  /\ Len(g.quads) <= Len(h.quads)
  /\ Defines(g) => Defines(h)
  /\ Defines(h) \/ g.count <= h.count

-----------------------------------------------------------------------------
(* The values.                                                             *)

(* A value has a place unless it is a BOOL_E, and an index if it is the    *)
(* member of a table; no jump is on both of its lists.                     *)
ValueOK(e, g) ==
  /\ e \in ExprSet
  /\ e.type = "BOOL_E" <=> e.place = None
  /\ e.type = "TABLE_ITEM_E" => e.index # None
  /\ e.type = "CONST_NUM_E" => e.place \in {Const(Number(n)) : n \in Int}
  /\ e.truelist \cap e.falselist = {}
  /\ Taken(e.place, g) /\ Taken(e.index, g)

(* Only a BOOL_E has to be patched. *)
Settled(e) == MustBePatched(e) <=> e.type = "BOOL_E"

Plain(e, g) == ValueOK(e, g) /\ e.type # "BOOL_E" /\ ~MustBePatched(e)

-----------------------------------------------------------------------------
(* The symbols of the stack.                                               *)

Logicals  == {"and", "or"}
Infixes   == {"+", "-", "*", "/", "%", "<", "<=", ">", ">=", "==", "!="}
Tables    == {"lvalue", "=", "call", "index", "method"}

Fields(sym) ==
  CASE sym \in {"expr", "lvalue", "=", "call", "index"} -> {"sym", "e", "ast"}
    [] sym = "method"                         -> {"sym", "e", "ast", "name"}
    [] sym \in Logicals \cup Infixes          -> {"sym", "e", "ast", "next"}
    [] sym = "tmp_elist"                      -> {"sym", "es", "asts"}
    [] sym \in {"key", "indexed"}             -> {"sym", "pairs", "asts"}
    [] sym = "value"                          -> {"sym", "e", "ast", "pairs", "asts"}
    [] sym = "refused"                        -> {"sym", "ast"}
    [] sym \in {"not", "uminus", "object"} \cup Increments -> {"sym"}
    [] OTHER                                  -> {}

(* The values that are done: elements of lists, keys and values of pairs.  *)
PlainSeq(s, g)  == s \in Seq(ToSet(s)) /\ \A i \in DOMAIN s : Plain(s[i], g)
PlainPairs(s, g) == /\ s \in Seq(ToSet(s))
                    /\ \A i \in DOMAIN s : Plain(s[i].key, g) /\ Plain(s[i].value, g)

(* What may be called or have members has a place; only the left operand   *)
(* of a logical operator keeps its place and has jumps too.                *)
ItemOK(item, g) ==
  /\ DOMAIN item = Fields(item.sym) /\ "sym" \in DOMAIN item
  /\ "e" \in DOMAIN item => /\ ValueOK(item.e, g)
                            /\ item.sym \notin Logicals => Settled(item.e)
  /\ item.sym \in Tables \cup {"==", "!="} => item.e.type # "BOOL_E"
  /\ item.sym = "expr" /\ item.ast.node \in {"call", "method"} => item.e.type # "BOOL_E"
  /\ item.sym \in Logicals => item.next \in 1 .. Len(g.quads)
  /\ item.sym = "method" => item.name \in MemberNames
  /\ "es" \in DOMAIN item => PlainSeq(item.es, g)
  /\ "pairs" \in DOMAIN item => PlainPairs(item.pairs, g)

(* A list of elements follows an element, which follows an opener. *)
ListsFollow(s) ==
  \A i \in DOMAIN s : s[i].sym = "tmp_elist" =>
    /\ i >= 3
    /\ s[i - 1].sym = "expr"
    /\ s[i - 2].sym \in Openers

StackOK(s, g) ==
  /\ s \in Seq(ToSet(s))
  /\ \A i \in DOMAIN s : ItemOK(s[i], g)
  /\ ListsFollow(s)

(* The jumps that an item keeps. *)
Kept(item) == IF "e" \in DOMAIN item THEN item.e.truelist \cup item.e.falselist ELSE {}

(* No jump is kept twice, and those kept are those without a target. *)
Balanced(s, g) ==
  /\ \A i, j \in DOMAIN s : i # j => Kept(s[i]) \cap Kept(s[j]) = {}
  /\ \A n \in Nat : n \in Waiting(g.quads) <=> \E i \in DOMAIN s : n \in Kept(s[i])

IInv ==
  /\ fragment \in Fragments
  /\ tokens \in 0 .. fragment.MaxTokens
  /\ outcome \in {"parsing", "compiled", "semantic_error", "numeric_error", "syntax_error"}
  /\ hazards \subseteq {"recycled", "late_argument", "late_index", "late_key"}
  /\ GenOK(gen)
  /\ StackOK(stack, gen)
  /\ outcome = "parsing" => Balanced(stack, gen)
  /\ outcome = "compiled" => Waiting(gen.quads) = {}
  /\ "recycled" \in hazards => Defines(gen)

-----------------------------------------------------------------------------
(* Sequences, places and quads.                                            *)

LEMMA ItemsOfSeq ==
  ASSUME NEW S, NEW s \in Seq(S)
  PROVE  /\ s \in Seq(ToSet(s))
         /\ Len(s) \in Nat
         /\ DOMAIN s = 1 .. Len(s)
         /\ \A i \in 1 .. Len(s) : s[i] \in S
<1>1. Len(s) \in Nat /\ s \in [1 .. Len(s) -> S] /\ DOMAIN s = 1 .. Len(s)
  BY LenProperties
<1>2. s \in [1 .. Len(s) -> ToSet(s)]
  BY <1>1 DEF ToSet
<1>3. s \in Seq(ToSet(s))
  BY <1>1, <1>2, SeqDef
<1> QED
  BY <1>1, <1>3

LEMMA SeqMade ==
  ASSUME NEW S, NEW n \in Nat, NEW f \in [1 .. n -> S]
  PROVE  f \in Seq(S) /\ Len(f) = n
BY SeqDef, LenProperties

LEMMA PlaceFacts ==
  /\ None \in Places
  /\ \A n \in Nat : Hidden(n) \in Places /\ Hidden(n) # None
  /\ \A c \in Memcell : Const(c) \in Places /\ Const(c) # None
  /\ \A v \in Variables : Var(v) \in Places /\ Var(v) # None
  /\ \A m, n \in Nat : Hidden(m) = Hidden(n) => m = n
  /\ \A c \in Memcell, n \in Nat : Const(c) # Hidden(n)
  /\ \A v \in Variables, n \in Nat : Var(v) # Hidden(n)
  /\ \A n \in Nat : None # Hidden(n)
BY DEF Places, None, Hidden, Const, Var

LEMMA QuadFields ==
  ASSUME NEW op \in PlainOps \cup Jumps, NEW result \in Places, NEW arg1 \in Places,
         NEW arg2 \in Places
  PROVE  /\ Quad(op, result, arg1, arg2) \in QuadSet
         /\ Quad(op, result, arg1, arg2).op = op
         /\ Quad(op, result, arg1, arg2).result = result
         /\ Quad(op, result, arg1, arg2).arg1 = arg1
         /\ Quad(op, result, arg1, arg2).arg2 = arg2
         /\ Quad(op, result, arg1, arg2).label = 0
BY DEF Quad, QuadSet

(* Quads that differ in their label at most. *)
Alike(p, q) == p.op = q.op /\ p.result = q.result /\ p.arg1 = q.arg1 /\ p.arg2 = q.arg2

LEMMA Labelled ==
  ASSUME NEW q \in QuadSet, NEW label \in Nat, NEW p, p = [q EXCEPT !.label = label]
  PROVE  p \in QuadSet /\ Alike(p, q) /\ p.label = label
BY DEF QuadSet, Alike

LEMMA SameSound ==
  ASSUME NEW p, NEW q, NEW g, NEW h, Sound(q, g), Defines(g) => Defines(h), Alike(p, q)
  PROVE  Sound(p, h)
BY DEF Sound, Operands, Alike

-----------------------------------------------------------------------------
(* The generator goes on.                                                  *)

LEMMA GenFields ==
  ASSUME NEW g, GenOK(g)
  PROVE  /\ g \in [quads : Seq(QuadSet), count : Nat]
         /\ g.quads \in Seq(QuadSet)
         /\ Len(g.quads) \in Nat
         /\ DOMAIN g.quads = 1 .. Len(g.quads)
         /\ g.count \in Nat
         /\ \A i \in 1 .. Len(g.quads) : /\ g.quads[i] \in QuadSet
                                         /\ Sound(g.quads[i], g)
                                         /\ g.quads[i].label <= Len(g.quads) + 1
<1>1. g.quads \in Seq(QuadSet) /\ g.count \in Nat
  BY DEF GenOK
<1>2. Len(g.quads) \in Nat /\ DOMAIN g.quads = 1 .. Len(g.quads)
      /\ \A i \in 1 .. Len(g.quads) : g.quads[i] \in QuadSet
  BY <1>1, ItemsOfSeq
<1> QED
  BY <1>1, <1>2 DEF GenOK

LEMMA LaterReflexive == \A g : GenOK(g) => Later(g, g)
<1> SUFFICES ASSUME NEW g, GenOK(g) PROVE Later(g, g)
  OBVIOUS
<1> QED
  BY GenFields DEF Later

LEMMA LaterTransitive ==
  ASSUME NEW g, NEW h, NEW k, GenOK(g), GenOK(h), GenOK(k), Later(g, h), Later(h, k)
  PROVE  Later(g, k)
<1>1. Len(g.quads) \in Nat /\ Len(h.quads) \in Nat /\ Len(k.quads) \in Nat
      /\ g.count \in Nat /\ h.count \in Nat /\ k.count \in Nat
  BY GenFields
<1> QED
  BY <1>1 DEF Later

(* The quads whose numbers are in patched get a target, and others are     *)
(* added.                                                                  *)
Patches(g, h, patched) ==
  \A i \in 1 .. Len(g.quads) :
    /\ Alike(h.quads[i], g.quads[i])
    /\ i - 1 \notin patched => h.quads[i].label = g.quads[i].label
    /\ i - 1 \in patched => h.quads[i].label # 0 /\ h.quads[i].label <= Len(h.quads) + 1

Adds(g, h) ==
  \A i \in Len(g.quads) + 1 .. Len(h.quads) : /\ Sound(h.quads[i], h)
                                              /\ h.quads[i].label <= Len(h.quads) + 1

(* The jumps among what is added that have no target. *)
Fresh(g, h) == {n \in Len(g.quads) .. Len(h.quads) - 1 :
                  h.quads[n + 1].op \in Jumps /\ h.quads[n + 1].label = 0}

LEMMA GoesOn ==
  ASSUME NEW g, NEW h, NEW patched, GenOK(g), h \in [quads : Seq(QuadSet), count : Nat],
         Len(g.quads) <= Len(h.quads), g.count <= h.count \/ Defines(h),
         Patches(g, h, patched), Adds(g, h)
  PROVE  /\ GenOK(h)
         /\ Later(g, h)
         /\ Waiting(h.quads) = (Waiting(g.quads) \ patched) \cup Fresh(g, h)
         /\ \A n \in Fresh(g, h) : n \notin Waiting(g.quads)
<1>1. /\ Len(g.quads) \in Nat /\ DOMAIN g.quads = 1 .. Len(g.quads) /\ g.count \in Nat
      /\ \A i \in 1 .. Len(g.quads) : /\ g.quads[i] \in QuadSet
                                      /\ Sound(g.quads[i], g)
                                      /\ g.quads[i].label <= Len(g.quads) + 1
  BY GenFields
<1>2. /\ h.quads \in Seq(QuadSet)
      /\ Len(h.quads) \in Nat /\ DOMAIN h.quads = 1 .. Len(h.quads) /\ h.count \in Nat
      /\ \A i \in 1 .. Len(h.quads) : h.quads[i] \in QuadSet
  BY ItemsOfSeq
<1>3. \A i \in 1 .. Len(g.quads) : i \in 1 .. Len(h.quads)
  BY <1>1, <1>2
<1>4. Defines(g) => Defines(h)
  BY <1>1, <1>2, <1>3 DEF Defines, Patches, Alike
<1>5. \A i \in 1 .. Len(g.quads) : Sound(h.quads[i], h)
  BY <1>1, <1>2, <1>3, <1>4, SameSound DEF Patches
<1>6. \A i \in 1 .. Len(g.quads) : h.quads[i].label <= Len(h.quads) + 1
  <2> SUFFICES ASSUME NEW i \in 1 .. Len(g.quads) PROVE h.quads[i].label <= Len(h.quads) + 1
    OBVIOUS
  <2>1. CASE i - 1 \in patched
    BY <2>1 DEF Patches
  <2>2. CASE i - 1 \notin patched
    <3>1. h.quads[i].label = g.quads[i].label /\ g.quads[i].label <= Len(g.quads) + 1
          /\ g.quads[i].label \in Nat
      BY <1>1, <2>2 DEF Patches, QuadSet
    <3> QED
      BY <1>1, <1>2, <3>1
  <2> QED
    BY <2>1, <2>2
<1>7. \A i \in 1 .. Len(h.quads) : i \in 1 .. Len(g.quads) \/ i \in Len(g.quads) + 1 .. Len(h.quads)
  BY <1>1, <1>2
<1>8. GenOK(h)
  BY <1>2, <1>5, <1>6, <1>7 DEF GenOK, Adds
<1>9. Later(g, h)
  BY <1>4 DEF Later
<1>10. ASSUME NEW n \in 0 .. Len(g.quads) - 1
       PROVE  n \in Waiting(h.quads) <=> n \in Waiting(g.quads) /\ n \notin patched
  <2>1. n + 1 \in 1 .. Len(g.quads) /\ n + 1 - 1 = n /\ n \in 0 .. Len(h.quads) - 1
    BY <1>1, <1>2
  <2> QED
    BY <2>1 DEF Waiting, Patches, Alike
<1>11. \A n : n \in Waiting(g.quads) => n \in 0 .. Len(g.quads) - 1
  BY DEF Waiting
<1>12. \A n \in Fresh(g, h) : n \notin 0 .. Len(g.quads) - 1
  BY <1>1, <1>2 DEF Fresh
<1>13. \A n : n \in Waiting(h.quads) => n \in 0 .. Len(g.quads) - 1 \/ n \in Fresh(g, h)
  BY <1>1, <1>2 DEF Waiting, Fresh
<1>14. \A n \in Fresh(g, h) : n \in Waiting(h.quads)
  BY <1>1, <1>2 DEF Waiting, Fresh
<1> QED
  BY <1>8, <1>9, <1>10, <1>11, <1>12, <1>13, <1>14

-----------------------------------------------------------------------------
(* Quads that are no jumps.                                                *)

(* The generator goes on and no jump comes to wait or ceases to. *)
Keeps(g, h) == GenOK(h) /\ Later(g, h) /\ Waiting(h.quads) = Waiting(g.quads)

LEMMA KeepsTransitive ==
  ASSUME NEW g, NEW h, NEW k, GenOK(g), Keeps(g, h), Keeps(h, k)
  PROVE  Keeps(g, k)
BY LaterTransitive DEF Keeps

LEMMA KeepsReflexive == \A g : GenOK(g) => Keeps(g, g)
BY LaterReflexive DEF Keeps

LEMMA NewHiddenKeeps ==
  ASSUME NEW g, GenOK(g)
  PROVE  /\ Keeps(g, NewHidden(g))
         /\ NewHidden(g).count = g.count + 1
         /\ NewHidden(g).quads = g.quads
         /\ Defines(NewHidden(g)) <=> Defines(g)
         /\ \A q : Sound(q, NewHidden(g)) <=> Sound(q, g)
<1>1. g \in [quads : Seq(QuadSet), count : Nat] /\ Len(g.quads) \in Nat
  BY GenFields
<1>2. /\ NewHidden(g) \in [quads : Seq(QuadSet), count : Nat]
      /\ NewHidden(g).count = g.count + 1
      /\ NewHidden(g).quads = g.quads
  BY <1>1 DEF NewHidden
<1>3. Defines(NewHidden(g)) <=> Defines(g)
  BY <1>2 DEF Defines
<1>4. \A q : Sound(q, NewHidden(g)) <=> Sound(q, g)
  BY <1>3 DEF Sound
<1>5. GenOK(NewHidden(g))
  BY <1>2, <1>4 DEF GenOK
<1>6. Later(g, NewHidden(g))
  BY <1>1, <1>2, <1>3 DEF Later
<1> QED
  BY <1>2, <1>3, <1>4, <1>5, <1>6 DEF Keeps

(* new is code and one quad more. *)
Extended(code, q, label, new) ==
  /\ new \in Seq(QuadSet)
  /\ Len(new) = Len(code) + 1
  /\ Alike(new[Len(code) + 1], q)
  /\ new[Len(code) + 1].label = label
  /\ \A i \in 1 .. Len(code) : new[i] = code[i]

LEMMA EmitFields ==
  ASSUME NEW code \in Seq(QuadSet), NEW q \in QuadSet, NEW label \in Nat
  PROVE  Extended(code, q, label, EmitLabelled(code, q, label))
<1> DEFINE labelled == [q EXCEPT !.label = label]
<1>1. labelled \in QuadSet /\ Alike(labelled, q) /\ labelled.label = label
  BY Labelled
<1> HIDE DEF labelled
<1>2. /\ Append(code, labelled) \in Seq(QuadSet)
      /\ Len(Append(code, labelled)) = Len(code) + 1
      /\ Append(code, labelled)[Len(code) + 1] = labelled
      /\ \A i \in 1 .. Len(code) : Append(code, labelled)[i] = code[i]
  BY <1>1, AppendProperties
<1> QED
  BY <1>1, <1>2 DEF EmitLabelled, Extended, labelled

LEMMA NoJump == \A op \in PlainOps : op \notin Jumps
BY DEF PlainOps, Jumps, ArithmOps

(* Quads are added, none of which is a jump. *)
LEMMA AddedKeep ==
  ASSUME NEW g, NEW code, NEW h, h = [g EXCEPT !.quads = code], GenOK(g), code \in Seq(QuadSet), Len(g.quads) <= Len(code),
         \A i \in 1 .. Len(g.quads) : code[i] = g.quads[i],
         \A i \in Len(g.quads) + 1 .. Len(code) :
           code[i].op \in PlainOps /\ Sound(code[i], g) /\ code[i].label <= Len(code) + 1
  PROVE  Keeps(g, h) /\ h.count = g.count
<1>1. g \in [quads : Seq(QuadSet), count : Nat] /\ Len(g.quads) \in Nat
      /\ DOMAIN g.quads = 1 .. Len(g.quads)
  BY GenFields
<1>2. h \in [quads : Seq(QuadSet), count : Nat] /\ h.count = g.count /\ h.quads = code
  BY <1>1
<1>3. Len(code) \in Nat /\ DOMAIN code = 1 .. Len(code) /\ \A i \in 1 .. Len(code) : code[i] \in QuadSet
  BY ItemsOfSeq
<1>4. Patches(g, h, {})
  BY <1>2 DEF Patches, Alike
<1>5. Defines(g) => Defines(h)
  BY <1>1, <1>2, <1>3 DEF Defines
<1>6. Adds(g, h)
  <2> SUFFICES ASSUME NEW i \in Len(g.quads) + 1 .. Len(code)
               PROVE  Sound(code[i], h) /\ code[i].label <= Len(code) + 1
    BY <1>2 DEF Adds
  <2>1. i \in 1 .. Len(code)
    BY <1>1, <1>3
  <2> QED
    BY <1>3, <1>5, <2>1, SameSound DEF Alike
<1>7. Fresh(g, h) = {}
  <2> SUFFICES ASSUME NEW n \in Len(g.quads) .. Len(code) - 1 PROVE code[n + 1].op \notin Jumps
    BY <1>2 DEF Fresh
  <2>1. n + 1 \in Len(g.quads) + 1 .. Len(code)
    BY <1>1, <1>3
  <2> QED
    BY <2>1, NoJump
<1>8. g.count <= h.count
  BY <1>1, <1>2
<1>9. Len(g.quads) <= Len(h.quads)
  BY <1>2
<1>10. /\ GenOK(h)
       /\ Later(g, h)
       /\ Waiting(h.quads) = (Waiting(g.quads) \ {}) \cup Fresh(g, h)
  BY <1>2, <1>4, <1>6, <1>8, <1>9, GoesOn
<1> QED
  BY <1>2, <1>7, <1>10 DEF Keeps

LEMMA EmitKeeps ==
  ASSUME NEW g, NEW q \in QuadSet, GenOK(g), q.op \in PlainOps, Sound(q, g)
  PROVE  Keeps(g, EmitQuad(g, q)) /\ EmitQuad(g, q).count = g.count
<1> DEFINE code == EmitLabelled(g.quads, q, Len(g.quads))
<1> HIDE DEF code
<1>1. g.quads \in Seq(QuadSet) /\ Len(g.quads) \in Nat
  BY GenFields
<1>2. /\ code \in Seq(QuadSet)
      /\ Len(code) = Len(g.quads) + 1
      /\ Alike(code[Len(g.quads) + 1], q)
      /\ code[Len(g.quads) + 1].label = Len(g.quads)
      /\ \A i \in 1 .. Len(g.quads) : code[i] = g.quads[i]
  <2>1. Extended(g.quads, q, Len(g.quads), code)
    BY <1>1, EmitFields DEF code
  <2> QED
    BY <2>1 DEF Extended
<1>3. EmitQuad(g, q) = [g EXCEPT !.quads = code]
  BY DEF EmitQuad, Emit, NextQuadLabel, code
<1>4. ASSUME NEW i \in Len(g.quads) + 1 .. Len(code)
      PROVE  code[i].op \in PlainOps /\ Sound(code[i], g) /\ code[i].label <= Len(code) + 1
  <2>1. i = Len(g.quads) + 1
    BY <1>1, <1>2
  <2>3. code[i].op \in PlainOps /\ Alike(code[i], q) /\ code[i].label = Len(g.quads)
    BY <1>2, <2>1 DEF Alike
  <2>4. Sound(code[i], g)
    BY <2>3, SameSound
  <2> QED
    BY <1>1, <1>2, <2>3, <2>4
<1>5. Len(g.quads) <= Len(code)
  BY <1>1, <1>2
<1> QED
  BY <1>2, <1>3, <1>4, <1>5, AddedKeep

LEMMA EmitAllKeeps ==
  ASSUME NEW g, NEW qs \in Seq(QuadSet), GenOK(g),
         \A i \in 1 .. Len(qs) : qs[i].op \in PlainOps /\ Sound(qs[i], g)
  PROVE  Keeps(g, EmitQuads(g, qs)) /\ EmitQuads(g, qs).count = g.count
<1> DEFINE next == Len(g.quads)
           added == [i \in DOMAIN qs |-> [qs[i] EXCEPT !.label = next + i - 1]]
           code == g.quads \o added
<1>1. g.quads \in Seq(QuadSet) /\ next \in Nat
  BY GenFields
<1>2. Len(qs) \in Nat /\ DOMAIN qs = 1 .. Len(qs) /\ \A i \in 1 .. Len(qs) : qs[i] \in QuadSet
  BY ItemsOfSeq
<1>3. ASSUME NEW i \in 1 .. Len(qs)
      PROVE  /\ added[i] \in QuadSet
             /\ added[i].op \in PlainOps /\ Sound(added[i], g) /\ added[i].label = next + i - 1
  <2> HIDE DEF next
  <2>1. next + i - 1 \in Nat
    BY <1>1, <1>2
  <2>2. added[i] = [qs[i] EXCEPT !.label = next + i - 1]
    BY <1>2
  <2> HIDE DEF added
  <2>3. added[i] \in QuadSet /\ Alike(added[i], qs[i]) /\ added[i].label = next + i - 1
    BY <1>2, <2>1, <2>2, Labelled
  <2>4. Sound(added[i], g) /\ added[i].op \in PlainOps
    BY <1>2, <2>3, SameSound DEF Alike
  <2> QED
    BY <2>3, <2>4
<1>4. added \in [1 .. Len(qs) -> QuadSet]
  <2>1. added = [i \in 1 .. Len(qs) |-> [qs[i] EXCEPT !.label = next + i - 1]]
    BY <1>2
  <2> HIDE DEF next
  <2> QED
    BY <1>3, <2>1
<1>5. EmitQuads(g, qs) = [g EXCEPT !.quads = code]
  BY DEF EmitQuads, NextQuadLabel
<1> HIDE DEF added, next
<1>6. added \in Seq(QuadSet) /\ Len(added) = Len(qs)
  BY <1>2, <1>4, SeqDef, LenProperties
<1>7. /\ code \in Seq(QuadSet)
      /\ Len(code) = Len(g.quads) + Len(added)
      /\ \A i \in 1 .. Len(g.quads) + Len(added) :
           code[i] = IF i <= Len(g.quads) THEN g.quads[i] ELSE added[i - Len(g.quads)]
  BY <1>1, <1>6, ConcatProperties
<1> HIDE DEF code
<1>8. ASSUME NEW i \in Len(g.quads) + 1 .. Len(code)
      PROVE  code[i].op \in PlainOps /\ Sound(code[i], g) /\ code[i].label <= Len(code) + 1
  <2>1. i - Len(g.quads) \in 1 .. Len(qs) /\ i \in 1 .. Len(g.quads) + Len(added)
        /\ ~(i <= Len(g.quads))
    BY <1>1, <1>2, <1>6, <1>7 DEF next
  <2>2. code[i] = added[i - Len(g.quads)]
    BY <1>7, <2>1
  <2>3. code[i].op \in PlainOps /\ Sound(code[i], g)
        /\ code[i].label = Len(g.quads) + (i - Len(g.quads)) - 1
    BY <1>3, <2>1, <2>2 DEF next
  <2>4. Len(g.quads) + (i - Len(g.quads)) - 1 <= Len(code) + 1
    BY <1>1, <1>2, <1>6, <1>7 DEF next
  <2> QED
    BY <2>3, <2>4
<1>9. Len(g.quads) <= Len(code)
  BY <1>1, <1>2, <1>6, <1>7 DEF next
<1>10. \A i \in 1 .. Len(g.quads) : code[i] = g.quads[i]
  BY <1>1, <1>2, <1>6, <1>7 DEF next
<1> QED
  BY <1>5, <1>7, <1>8, <1>9, <1>10, AddedKeep

-----------------------------------------------------------------------------
(* Jumps: made, patched and merged.                                        *)

(* The jumps that a value keeps. *)
Lists(e) == e.truelist \cup e.falselist

(* A handler's result: the generator goes on, the jumps in old are patched *)
(* or handed over, and the value keeps those that wait besides the others. *)
Result(g, old, r) ==
  /\ GenOK(r.gen)
  /\ Later(g, r.gen)
  /\ ValueOK(r.e, r.gen)
  /\ Waiting(r.gen.quads) = (Waiting(g.quads) \ old) \cup Lists(r.e)
  /\ Lists(r.e) \cap (Waiting(g.quads) \ old) = {}

LEMMA ResultsCompose ==
  ASSUME NEW g, NEW first, NEW old, NEW second, NEW older, GenOK(g), Result(g, older, first),
         Lists(first.e) = {}, Result(first.gen, old, second)
  PROVE  Result(g, older \cup old, second)
<1>1. Later(g, second.gen)
  BY LaterTransitive DEF Result
<1> QED
  BY <1>1 DEF Result

LEMMA ValueLater ==
  ASSUME NEW e, NEW g, NEW h, GenOK(g), GenOK(h), Later(g, h), ValueOK(e, g)
  PROVE  ValueOK(e, h)
<1>1. g.count \in Nat /\ h.count \in Nat
  BY GenFields
<1>2. \A place : Taken(place, g) => Taken(place, h)
  BY <1>1 DEF Taken, Later
<1> QED
  BY <1>2 DEF ValueOK

LEMMA PlainLater ==
  ASSUME NEW e, NEW g, NEW h, GenOK(g), GenOK(h), Later(g, h), Plain(e, g)
  PROVE  Plain(e, h)
BY ValueLater DEF Plain

LEMMA PlainFields ==
  ASSUME NEW e, NEW g, Plain(e, g)
  PROVE  /\ Lists(e) = {} /\ e.truelist = {} /\ e.falselist = {}
         /\ e.place \in Places \ {None}
         /\ Settled(e)
BY DEF Plain, ValueOK, MustBePatched, Lists, Settled, ExprSet

(* A value without a list is made of a place. *)
LEMMA ExprFields ==
  ASSUME NEW type \in ExprTypes, NEW place \in Places
  PROVE  /\ Expr(type, place) \in ExprSet
         /\ Expr(type, place).type = type /\ Expr(type, place).place = place
         /\ Expr(type, place).index = None
         /\ Expr(type, place).truelist = {} /\ Expr(type, place).falselist = {}
         /\ ~MustBePatched(Expr(type, place))
         /\ Lists(Expr(type, place)) = {}
<1>1. None \in Places
  BY PlaceFacts
<1> QED
  BY <1>1 DEF Expr, ExprSet, MustBePatched, Lists

LEMMA ExprPlain ==
  ASSUME NEW type \in ExprTypes \ {"BOOL_E", "TABLE_ITEM_E", "CONST_NUM_E"},
         NEW place \in Places \ {None}, NEW g, GenOK(g), Taken(place, g)
  PROVE  Plain(Expr(type, place), g)
<1>1. Taken(None, g)
  BY PlaceFacts DEF Taken
<1>2. /\ Expr(type, place) \in ExprSet
      /\ Expr(type, place).type = type /\ Expr(type, place).place = place
      /\ Expr(type, place).index = None
      /\ Expr(type, place).truelist = {} /\ Expr(type, place).falselist = {}
      /\ ~MustBePatched(Expr(type, place))
  BY ExprFields
<1> QED
  BY <1>1, <1>2 DEF Plain, ValueOK

(* The hidden variable just handed out. *)
LEMMA HiddenPlain ==
  ASSUME NEW type \in ExprTypes \ {"BOOL_E", "TABLE_ITEM_E", "CONST_NUM_E"},
         NEW n \in Nat, NEW g, GenOK(g), n < g.count
  PROVE  Plain(Expr(type, Hidden(n)), g)
<1>1. Hidden(n) \in Places \ {None}
  BY PlaceFacts
<1>2. Taken(Hidden(n), g)
  BY PlaceFacts DEF Taken
<1> QED
  BY <1>1, <1>2, ExprPlain

LEMMA JumpFields == Jump \in QuadSet /\ Jump.op = "jump" /\ None \notin Operands(Jump)
<1>1. None \in Places
  BY PlaceFacts
<1> QED
  BY <1>1 DEF Jump, Quad, QuadSet, Jumps, Operands, ArithmOps

LEMMA EmitTestResult ==
  ASSUME NEW g, NEW op \in Jumps \ {"jump"}, NEW arg1 \in Places \ {None},
         NEW arg2 \in Places \ {None}, NEW e, GenOK(g), ValueOK(e, g), Lists(e) = {}
  PROVE  /\ Result(g, {}, EmitTest(g, op, arg1, arg2, e))
         /\ MustBePatched(EmitTest(g, op, arg1, arg2, e).e)
         /\ EmitTest(g, op, arg1, arg2, e).e.type = e.type
<1> DEFINE next == Len(g.quads)
           test == Quad(op, None, arg1, arg2)
           one  == EmitLabelled(g.quads, test, 0)
           two  == EmitLabelled(one, Jump, 0)
           h    == [g EXCEPT !.quads = two]
           f    == [e EXCEPT !.truelist = @ \cup {next}, !.falselist = @ \cup {next + 1}]
<1>1. g \in [quads : Seq(QuadSet), count : Nat] /\ g.quads \in Seq(QuadSet) /\ next \in Nat
      /\ g.count \in Nat
  BY GenFields
<1>2. test \in QuadSet /\ test.op = op /\ test.arg1 = arg1 /\ test.arg2 = arg2
  BY PlaceFacts, QuadFields
<1>3. \A k : Sound(test, k)
  BY <1>2 DEF Sound, Operands, Jumps, ArithmOps
<1>4. \A k : Sound(Jump, k)
  BY JumpFields DEF Sound
<1> HIDE DEF test, one, two
<1>5. /\ one \in Seq(QuadSet)
      /\ Len(one) = next + 1
      /\ Alike(one[next + 1], test) /\ one[next + 1].label = 0
      /\ \A i \in 1 .. next : one[i] = g.quads[i]
  <2> HIDE DEF test, next
  <2>1. Extended(g.quads, test, 0, one)
    BY <1>1, <1>2, EmitFields DEF one
  <2> QED
    BY <2>1 DEF Extended, next
<1>6. /\ two \in Seq(QuadSet)
      /\ Len(two) = next + 1 + 1
      /\ Alike(two[next + 1 + 1], Jump) /\ two[next + 1 + 1].label = 0
      /\ \A i \in 1 .. next + 1 : two[i] = one[i]
  <2> HIDE DEF next
  <2>1. Extended(one, Jump, 0, two)
    BY <1>5, JumpFields, EmitFields DEF two
  <2> QED
    BY <1>5, <2>1 DEF Extended
<1>7. EmitTest(g, op, arg1, arg2, e) = With(h, f)
  BY DEF EmitTest, NextQuadLabel, one, two, test
<1>8. h \in [quads : Seq(QuadSet), count : Nat] /\ h.quads = two /\ h.count = g.count
  BY <1>1, <1>6
<1> HIDE DEF h, next
<1>9. \A i \in next + 1 .. next + 1 + 1 : i = next + 1 \/ i = next + 1 + 1
  BY <1>1
<1>10. Patches(g, h, {})
  BY <1>1, <1>5, <1>6, <1>8 DEF Patches, Alike, next
<1>11. two[next + 1] = one[next + 1]
  BY <1>1, <1>6
<1>12. Adds(g, h)
  <2>1. Sound(two[next + 1], h) /\ two[next + 1].label = 0
    BY <1>3, <1>5, <1>11, SameSound
  <2>2. Sound(two[next + 1 + 1], h) /\ two[next + 1 + 1].label = 0
    BY <1>4, <1>6, SameSound
  <2> QED
    BY <1>1, <1>6, <1>8, <1>9, <2>1, <2>2 DEF Adds, next
<1>13. Fresh(g, h) = {next, next + 1}
  <2>1. two[next + 1].op \in Jumps /\ two[next + 1].label = 0
    BY <1>2, <1>5, <1>11 DEF Alike
  <2>2. two[next + 1 + 1].op \in Jumps /\ two[next + 1 + 1].label = 0
    BY <1>6, JumpFields DEF Alike, Jumps
  <2>3. Len(h.quads) - 1 = next + 1
    BY <1>1, <1>6, <1>8
  <2>4. \A n : n \in next .. next + 1 <=> n = next \/ n = next + 1
    BY <1>1
  <2>5. Fresh(g, h) = {n \in next .. next + 1 : two[n + 1].op \in Jumps /\ two[n + 1].label = 0}
    BY <1>8, <2>3 DEF Fresh, next
  <2> QED
    BY <2>1, <2>2, <2>4, <2>5
<1>14. Len(g.quads) <= Len(h.quads) /\ g.count <= h.count
  BY <1>1, <1>6, <1>8 DEF next
<1>15. /\ GenOK(h)
       /\ Later(g, h)
       /\ Waiting(h.quads) = (Waiting(g.quads) \ {}) \cup Fresh(g, h)
       /\ \A n \in Fresh(g, h) : n \notin Waiting(g.quads)
  BY <1>8, <1>10, <1>12, <1>14, GoesOn
<1>16. e \in ExprSet /\ e.truelist = {} /\ e.falselist = {}
  BY DEF ValueOK, Lists
<1>17. /\ f \in ExprSet /\ f.type = e.type /\ f.place = e.place /\ f.index = e.index
       /\ f.truelist = {next} /\ f.falselist = {next + 1}
  <2> HIDE DEF next
  <2>1. f = [e EXCEPT !.truelist = {next}, !.falselist = {next + 1}]
    BY <1>16
  <2>2. {next} \in SUBSET Nat /\ {next + 1} \in SUBSET Nat
    BY <1>1
  <2> HIDE DEF f
  <2> QED
    BY <1>16, <2>1, <2>2 DEF ExprSet
<1> HIDE DEF f
<1>18. ValueOK(e, h)
  BY <1>15, ValueLater
<1>19. ValueOK(f, h)
  BY <1>1, <1>17, <1>18 DEF ValueOK
<1>20. Lists(f) = {next, next + 1} /\ MustBePatched(f)
  BY <1>17 DEF Lists, MustBePatched
<1>21. Result(g, {}, With(h, f))
  BY <1>13, <1>15, <1>19, <1>20 DEF Result, With
<1> QED
  BY <1>7, <1>17, <1>20, <1>21 DEF With

LEMMA OneIsMemcell == Boolean(0) \in Memcell /\ Boolean(1) \in Memcell /\ Number(1) \in Memcell
BY DEF Boolean, Number, Memcell, MemcellType

LEMMA ConvertResult ==
  ASSUME NEW g, NEW e, GenOK(g), ValueOK(e, g), Settled(e), Lists(e) \subseteq Waiting(g.quads)
  PROVE  /\ Result(g, Lists(e), ConvertToBool(g, e))
         /\ MustBePatched(ConvertToBool(g, e).e)
<1>1. CASE e.type = "BOOL_E"
  <2>1. ConvertToBool(g, e) = With(g, e)
    BY <1>1 DEF ConvertToBool
  <2>2. Result(g, Lists(e), With(g, e))
    BY LaterReflexive DEF Result, With
  <2>3. MustBePatched(e)
    BY <1>1 DEF Settled
  <2> QED
    BY <2>1, <2>2, <2>3 DEF With
<1>2. CASE e.type # "BOOL_E"
  <2>1. Lists(e) = {} /\ e.place \in Places \ {None}
    BY <1>2 DEF Settled, MustBePatched, Lists, ValueOK, ExprSet
  <2>2. Const(Boolean(1)) \in Places \ {None}
    BY OneIsMemcell, PlaceFacts
  <2>3. "if_eq" \in Jumps \ {"jump"}
    BY DEF Jumps
  <2>4. ConvertToBool(g, e) = EmitTest(g, "if_eq", e.place, Const(Boolean(1)), e)
    BY <1>2 DEF ConvertToBool
  <2> QED
    BY <2>1, <2>2, <2>3, <2>4, EmitTestResult
<1> QED
  BY <1>1, <1>2

(* new is code with the label in the quads whose numbers are given. *)
Patched(code, quadnos, label, new) ==
  /\ new \in Seq(QuadSet)
  /\ Len(new) = Len(code)
  /\ \A i \in 1 .. Len(code) :
       /\ Alike(new[i], code[i])
       /\ new[i].label = IF i - 1 \in quadnos THEN label ELSE code[i].label

LEMMA PatchFields ==
  ASSUME NEW code \in Seq(QuadSet), NEW quadnos, NEW label \in Nat
  PROVE  Patched(code, quadnos, label, PatchLabel(code, quadnos, label))
<1> DEFINE new == PatchLabel(code, quadnos, label)
<1>1. Len(code) \in Nat /\ DOMAIN code = 1 .. Len(code) /\ \A i \in 1 .. Len(code) : code[i] \in QuadSet
  BY ItemsOfSeq
<1>2. new = [i \in 1 .. Len(code) |-> IF i - 1 \in quadnos THEN [code[i] EXCEPT !.label = label]
                                                         ELSE code[i]]
  BY <1>1 DEF PatchLabel
<1> HIDE DEF new
<1>3. ASSUME NEW i \in 1 .. Len(code)
      PROVE  /\ new[i] \in QuadSet
             /\ Alike(new[i], code[i])
             /\ new[i].label = IF i - 1 \in quadnos THEN label ELSE code[i].label
  <2>1. CASE i - 1 \in quadnos
    <3>1. new[i] = [code[i] EXCEPT !.label = label]
      BY <1>2, <2>1
    <3> QED
      BY <1>1, <2>1, <3>1, Labelled
  <2>2. CASE i - 1 \notin quadnos
    BY <1>1, <1>2, <2>2 DEF Alike
  <2> QED
    BY <2>1, <2>2
<1>4. new \in [1 .. Len(code) -> QuadSet]
  BY <1>2, <1>3
<1>5. new \in Seq(QuadSet) /\ Len(new) = Len(code)
  BY <1>1, <1>4, SeqDef, LenProperties
<1>6. Patched(code, quadnos, label, new)
  BY <1>3, <1>5 DEF Patched
<1> QED
  BY <1>6 DEF new

LEMMA AlikeTransitive == \A p, q, r : Alike(p, q) /\ Alike(q, r) => Alike(p, r)
BY DEF Alike

LEMMA PatchResult ==
  ASSUME NEW g, NEW e, GenOK(g), ValueOK(e, g), Settled(e), Lists(e) \subseteq Waiting(g.quads)
  PROVE  /\ Result(g, Lists(e), PatchPossible(g, e))
         /\ Plain(PatchPossible(g, e).e, PatchPossible(g, e).gen)
<1>1. CASE ~MustBePatched(e)
  <2>1. PatchPossible(g, e) = With(g, e)
    BY <1>1 DEF PatchPossible
  <2>2. Plain(e, g)
    BY <1>1 DEF Plain, Settled
  <2>3. Result(g, Lists(e), With(g, e))
    BY LaterReflexive DEF Result, With
  <2> QED
    BY <2>1, <2>2, <2>3 DEF With
<1>2. CASE MustBePatched(e)
  <2> DEFINE next == Len(g.quads)
             place == Hidden(g.count)
             yes   == Quad("assign", place, Const(Boolean(1)), None)
             no    == Quad("assign", place, Const(Boolean(0)), None)
             half  == PatchLabel(g.quads, e.truelist, next)
             whole == PatchLabel(half, e.falselist, next + 2)
             one   == EmitLabelled(whole, yes, Len(whole))
             two   == EmitLabelled(one, Jump, next + 3)
             three == EmitLabelled(two, no, Len(two))
             h     == [NewHidden(g) EXCEPT !.quads = three]
  <2>1. g \in [quads : Seq(QuadSet), count : Nat] /\ g.quads \in Seq(QuadSet) /\ next \in Nat
        /\ g.count \in Nat
    BY GenFields
  <2>2. PatchPossible(g, e) = With(h, Expr("VAR_E", place))
    BY <1>2 DEF PatchPossible, Emit, NextQuadLabel
  <2>3. /\ yes \in QuadSet /\ yes.op = "assign" /\ yes.result = place /\ yes.arg1 = Const(Boolean(1))
        /\ no \in QuadSet /\ no.op = "assign" /\ no.result = place /\ no.arg1 = Const(Boolean(0))
        /\ place # None /\ yes.arg1 # None /\ no.arg1 # None
    <3>1. place \in Places /\ place # None /\ None \in Places
          /\ Const(Boolean(1)) \in Places \ {None} /\ Const(Boolean(0)) \in Places \ {None}
      BY <2>1, OneIsMemcell, PlaceFacts
    <3>2. "assign" \in PlainOps \cup Jumps
      BY DEF PlainOps
    <3> HIDE DEF place
    <3> QED
      BY <3>1, <3>2, QuadFields
  <2> HIDE DEF place, yes, no
  <2>4. \A k : Sound(yes, k) /\ Sound(no, k) /\ Sound(Jump, k)
    BY <2>3, JumpFields DEF Sound, Operands, Jumps, ArithmOps
  <2> HIDE DEF half, whole, one, two, three
  <2>5. Patched(g.quads, e.truelist, next, half)
    BY <2>1, PatchFields DEF half
  <2>6. Patched(half, e.falselist, next + 2, whole)
    <3>1. next + 2 \in Nat
      BY <2>1
    <3> HIDE DEF next
    <3>2. half \in Seq(QuadSet)
      BY <2>5 DEF Patched
    <3> QED
      BY <3>1, <3>2, PatchFields DEF whole
  <2>7. whole \in Seq(QuadSet) /\ Len(whole) = next
    BY <2>5, <2>6 DEF Patched
  <2> HIDE DEF next
  <2>8. Extended(whole, yes, next, one)
    BY <2>1, <2>3, <2>7, EmitFields DEF one
  <2>9. one \in Seq(QuadSet) /\ Len(one) = next + 1
    BY <2>7, <2>8 DEF Extended
  <2>10. Extended(one, Jump, next + 3, two)
    <3>1. next + 3 \in Nat
      BY <2>1
    <3> QED
      BY <2>9, <3>1, JumpFields, EmitFields DEF two
  <2>11. two \in Seq(QuadSet) /\ Len(two) = next + 2
    BY <2>1, <2>9, <2>10 DEF Extended
  <2>12. Extended(two, no, next + 2, three)
    <3>1. next + 2 \in Nat
      BY <2>1
    <3> QED
      BY <2>3, <2>11, <3>1, EmitFields DEF three
  <2>13. three \in Seq(QuadSet) /\ Len(three) = next + 3
    BY <2>1, <2>11, <2>12 DEF Extended
  <2>14. h \in [quads : Seq(QuadSet), count : Nat] /\ h.quads = three /\ h.count = g.count + 1
    <3>1. NewHidden(g) \in [quads : Seq(QuadSet), count : Nat] /\ NewHidden(g).count = g.count + 1
      BY NewHiddenKeeps, GenFields DEF Keeps
    <3> QED
      BY <2>13, <3>1
  <2> HIDE DEF h
  <2>15. ASSUME NEW i \in 1 .. next
         PROVE  three[i] = whole[i]
    <3>1. i \in 1 .. next + 1 /\ i \in 1 .. next + 2
      BY <2>1
    <3> QED
      BY <2>7, <2>8, <2>9, <2>10, <2>11, <2>12, <3>1 DEF Extended
  <2>16. /\ three[next + 1] = one[next + 1]
         /\ three[next + 2] = two[next + 2]
    <3>1. next + 1 \in 1 .. next + 1 /\ next + 1 \in 1 .. next + 2 /\ next + 2 \in 1 .. next + 2
      BY <2>1
    <3> QED
      BY <2>9, <2>10, <2>11, <2>12, <3>1 DEF Extended
  <2>17. /\ Alike(three[next + 1], yes) /\ three[next + 1].label = next
         /\ Alike(three[next + 2], Jump) /\ three[next + 2].label = next + 3
         /\ Alike(three[next + 3], no) /\ three[next + 3].label = next + 2
    <3>1. Alike(one[next + 1], yes) /\ one[next + 1].label = next
      BY <2>7, <2>8 DEF Extended
    <3>2. next + 1 + 1 = next + 2 /\ next + 2 + 1 = next + 3
      BY <2>1
    <3>3. Alike(two[next + 2], Jump) /\ two[next + 2].label = next + 3
      BY <2>9, <2>10, <3>2 DEF Extended
    <3>4. Alike(three[next + 3], no) /\ three[next + 3].label = next + 2
      BY <2>11, <2>12, <3>2 DEF Extended
    <3> QED
      BY <2>16, <3>1, <3>3, <3>4
  <2>18. \A i \in next + 1 .. next + 3 : i = next + 1 \/ i = next + 2 \/ i = next + 3
    BY <2>1
  <2>19. next # 0
    <3>1. PICK n : n \in Lists(e)
      BY <1>2 DEF MustBePatched, Lists
    <3>2. n \in 0 .. next - 1
      BY <3>1 DEF Waiting, next
    <3> QED
      BY <2>1, <3>2
  <2>20. Patches(g, h, Lists(e))
    <3> SUFFICES ASSUME NEW i \in 1 .. next
                 PROVE  /\ Alike(three[i], g.quads[i])
                        /\ i - 1 \notin Lists(e) => three[i].label = g.quads[i].label
                        /\ i - 1 \in Lists(e) => three[i].label # 0 /\ three[i].label <= next + 3 + 1
      BY <2>13, <2>14 DEF Patches, next
    <3>1. /\ Alike(half[i], g.quads[i])
          /\ half[i].label = IF i - 1 \in e.truelist THEN next ELSE g.quads[i].label
          /\ Alike(whole[i], half[i])
          /\ whole[i].label = IF i - 1 \in e.falselist THEN next + 2 ELSE half[i].label
      BY <2>5, <2>6, <2>7 DEF Patched, next
    <3>2. Alike(three[i], g.quads[i])
      BY <2>15, <3>1, AlikeTransitive
    <3>3. i - 1 \in Lists(e) <=> i - 1 \in e.truelist \/ i - 1 \in e.falselist
      BY DEF Lists
    <3>4. three[i] = whole[i]
      BY <2>15
    <3>5. CASE i - 1 \notin Lists(e)
      BY <3>1, <3>2, <3>3, <3>4, <3>5
    <3>6. CASE i - 1 \in Lists(e)
      <4>1. three[i].label = next \/ three[i].label = next + 2
        BY <3>1, <3>3, <3>4, <3>6
      <4> QED
        BY <2>1, <2>19, <3>2, <3>6, <4>1
    <3> QED
      BY <3>5, <3>6
  <2>21. Adds(g, h)
    <3>1. Sound(three[next + 1], h) /\ Sound(three[next + 2], h) /\ Sound(three[next + 3], h)
      BY <2>4, <2>17, SameSound
    <3>2. next <= next + 3 + 1 /\ next + 3 <= next + 3 + 1 /\ next + 2 <= next + 3 + 1
      BY <2>1
    <3> QED
      BY <2>13, <2>14, <2>17, <2>18, <3>1, <3>2 DEF Adds, next
  <2>22. Fresh(g, h) = {}
    <3> SUFFICES ASSUME NEW n \in next .. next + 3 - 1
                 PROVE  three[n + 1].op \notin Jumps \/ three[n + 1].label # 0
      BY <2>13, <2>14 DEF Fresh, next
    <3>1. n + 1 \in next + 1 .. next + 3
      BY <2>1
    <3>2. CASE n + 1 = next + 1
      BY <2>3, <2>17, <3>2 DEF Alike, Jumps
    <3>3. CASE n + 1 = next + 2
      BY <2>1, <2>17, <3>3
    <3>4. CASE n + 1 = next + 3
      BY <2>3, <2>17, <3>4 DEF Alike, Jumps
    <3> QED
      BY <2>18, <3>1, <3>2, <3>3, <3>4
  <2>23. Len(g.quads) <= Len(h.quads) /\ g.count <= h.count
    BY <2>1, <2>13, <2>14 DEF next
  <2>24. /\ GenOK(h)
         /\ Later(g, h)
         /\ Waiting(h.quads) = (Waiting(g.quads) \ Lists(e)) \cup Fresh(g, h)
    BY <2>14, <2>20, <2>21, <2>23, GoesOn
  <2>25. Plain(Expr("VAR_E", place), h)
    BY <2>1, <2>14, <2>24, HiddenPlain DEF place, ExprTypes
  <2>26. Lists(Expr("VAR_E", place)) = {}
    BY <2>25, PlainFields
  <2>27. ValueOK(Expr("VAR_E", place), h)
    BY <2>25 DEF Plain
  <2>28. Result(g, Lists(e), With(h, Expr("VAR_E", place)))
    BY <2>22, <2>24, <2>26, <2>27 DEF Result, With
  <2> QED
    BY <2>2, <2>25, <2>28 DEF With
<1> QED
  BY <1>1, <1>2

(* The lists of the first value go to the second one, or are patched. *)
LEMMA ResultHandedOn ==
  ASSUME NEW g, NEW first, NEW old, NEW second, NEW older, GenOK(g), Result(g, older, first),
         Result(first.gen, old \cup Lists(first.e), second)
  PROVE  Result(g, older \cup old, second)
<1>1. Later(g, second.gen)
  BY LaterTransitive DEF Result
<1> QED
  BY <1>1 DEF Result

LEMMA BoolExpr ==
  ASSUME NEW yes \in SUBSET Nat, NEW no \in SUBSET Nat, yes \cap no = {}, yes \cup no # {}, NEW g,
         NEW e, e = [Expr("BOOL_E", None) EXCEPT !.truelist = yes, !.falselist = no]
  PROVE  ValueOK(e, g) /\ Settled(e) /\ MustBePatched(e) /\ Lists(e) = yes \cup no
<1>1. "BOOL_E" \in ExprTypes /\ None \in Places
  BY PlaceFacts DEF ExprTypes
<1>2. Expr("BOOL_E", None) \in ExprSet
      /\ Expr("BOOL_E", None).type = "BOOL_E" /\ Expr("BOOL_E", None).place = None
      /\ Expr("BOOL_E", None).index = None
  BY <1>1, ExprFields
<1>3. /\ e \in ExprSet /\ e.type = "BOOL_E" /\ e.place = None /\ e.index = None
      /\ e.truelist = yes /\ e.falselist = no
  BY <1>2 DEF ExprSet
<1>4. Taken(None, g)
  BY PlaceFacts DEF Taken
<1> QED
  BY <1>3, <1>4 DEF ValueOK, Settled, MustBePatched, Lists

LEMMA LogicalResult ==
  ASSUME NEW g, NEW op, NEW l, NEW r, NEW next, GenOK(g), ValueOK(l, g), ValueOK(r, g),
         MustBePatched(r), Lists(l) \subseteq Waiting(g.quads), Lists(r) \subseteq Waiting(g.quads),
         Lists(l) \cap Lists(r) = {}, next \in 1 .. Len(g.quads)
  PROVE  /\ Result(g, Lists(l) \cup Lists(r), Logical(g, op, l, r, next))
         /\ Settled(Logical(g, op, l, r, next).e)
<1> DEFINE patched == IF op = "and" THEN l.truelist ELSE l.falselist
           yes     == IF op = "and" THEN r.truelist ELSE l.truelist \cup r.truelist
           no      == IF op = "and" THEN l.falselist \cup r.falselist ELSE r.falselist
           code    == PatchLabel(g.quads, patched, next)
           h       == [g EXCEPT !.quads = code]
           e       == [Expr("BOOL_E", None) EXCEPT !.truelist = yes, !.falselist = no]
<1>1. g \in [quads : Seq(QuadSet), count : Nat] /\ g.quads \in Seq(QuadSet) /\ Len(g.quads) \in Nat
      /\ g.count \in Nat
  BY GenFields
<1>2. Logical(g, op, l, r, next) = With(h, e)
  <2>1. [Expr("BOOL_E", None) EXCEPT !.falselist = r.falselist, !.truelist = l.truelist \cup r.truelist]
          = [Expr("BOOL_E", None) EXCEPT !.truelist = l.truelist \cup r.truelist,
                                         !.falselist = r.falselist]
    BY DEF Expr
  <2> QED
    BY <2>1 DEF Logical
<1>3. /\ l.truelist \in SUBSET Nat /\ l.falselist \in SUBSET Nat /\ l.truelist \cap l.falselist = {}
      /\ r.truelist \in SUBSET Nat /\ r.falselist \in SUBSET Nat /\ r.truelist \cap r.falselist = {}
      /\ r.truelist \cup r.falselist # {}
  BY DEF ValueOK, ExprSet, MustBePatched
<1>4. yes \in SUBSET Nat /\ no \in SUBSET Nat /\ yes \cap no = {} /\ yes \cup no # {}
  BY <1>3 DEF Lists
<1>5. yes \cup no = (Lists(l) \cup Lists(r)) \ patched /\ patched \subseteq Lists(l)
  BY <1>3 DEF Lists
<1> HIDE DEF patched, yes, no
<1>6. Patched(g.quads, patched, next, code)
  BY <1>1, PatchFields
<1> HIDE DEF code
<1>7. h \in [quads : Seq(QuadSet), count : Nat] /\ h.quads = code /\ h.count = g.count
      /\ Len(code) = Len(g.quads)
  BY <1>1, <1>6 DEF Patched
<1> HIDE DEF h
<1>8. Patches(g, h, patched)
  BY <1>1, <1>6, <1>7 DEF Patches, Patched
<1>9. Adds(g, h) /\ Fresh(g, h) = {}
  BY <1>1, <1>7 DEF Adds, Fresh
<1>10. /\ GenOK(h)
       /\ Later(g, h)
       /\ Waiting(h.quads) = (Waiting(g.quads) \ patched) \cup Fresh(g, h)
  <2>1. Len(g.quads) <= Len(h.quads) /\ g.count <= h.count
    BY <1>1, <1>7
  <2> QED
    BY <1>7, <1>8, <1>9, <2>1, GoesOn
<1>11. ValueOK(e, h) /\ Settled(e) /\ Lists(e) = yes \cup no
  BY <1>4, BoolExpr
<1> HIDE DEF e
<1>12. Result(g, Lists(l) \cup Lists(r), With(h, e))
  BY <1>5, <1>9, <1>10, <1>11 DEF Result, With
<1> QED
  BY <1>2, <1>11, <1>12 DEF With

-----------------------------------------------------------------------------
(* Quads whose operands are there.                                         *)

Good(q) == /\ q \in QuadSet
           /\ q.op \in PlainOps \ {"tablegetelem"}
           /\ None \notin Operands(q)

GoodSeq(qs) == qs \in Seq(QuadSet) /\ \A i \in 1 .. Len(qs) : Good(qs[i])

Solid == Places \ {None}

LEMMA GoodQuads ==
  ASSUME NEW p \in Solid, NEW q \in Solid, NEW r \in Solid
  PROVE  /\ \A op \in ArithmOps : Good(Quad(op, p, q, r))
         /\ Good(Quad("tablesetelem", p, q, r))
         /\ Good(Quad("assign", p, q, None))
         /\ Good(Quad("uminus", p, q, None))
         /\ Good(Quad("param", None, p, None))
         /\ Good(Quad("call", None, p, None))
         /\ Good(Quad("tablecreate", None, p, None))
         /\ Good(Quad("getretval", p, None, None))
         /\ Good(Quad("funcstart", None, p, None))
         /\ Good(Quad("funcend", None, p, None))
<1>1. None \in Places
  BY PlaceFacts
<1>2. \A op \in ArithmOps : Good(Quad(op, p, q, r))
  <2> SUFFICES ASSUME NEW op \in ArithmOps PROVE Good(Quad(op, p, q, r))
    OBVIOUS
  <2>1. op \in PlainOps \cup Jumps /\ op \in PlainOps \ {"tablegetelem"}
    BY DEF PlainOps, ArithmOps
  <2> QED
    BY <2>1 DEF Good, Solid, Operands, Quad, QuadSet
<1>3. Good(Quad("tablesetelem", p, q, r))
  BY <1>1 DEF Good, Solid, Operands, Quad, QuadSet, PlainOps, ArithmOps, Jumps
<1>4. Good(Quad("assign", p, q, None)) /\ Good(Quad("uminus", p, q, None))
  BY <1>1 DEF Good, Solid, Operands, Quad, QuadSet, PlainOps, ArithmOps, Jumps
<1>5. Good(Quad("param", None, p, None)) /\ Good(Quad("call", None, p, None))
  BY <1>1 DEF Good, Solid, Operands, Quad, QuadSet, PlainOps, ArithmOps, Jumps
<1>6. Good(Quad("tablecreate", None, p, None)) /\ Good(Quad("getretval", p, None, None))
  BY <1>1 DEF Good, Solid, Operands, Quad, QuadSet, PlainOps, ArithmOps, Jumps
<1>7. Good(Quad("funcstart", None, p, None)) /\ Good(Quad("funcend", None, p, None))
  BY <1>1 DEF Good, Solid, Operands, Quad, QuadSet, PlainOps, ArithmOps, Jumps
<1> QED
  BY <1>2, <1>3, <1>4, <1>5, <1>6, <1>7

LEMMA GoodSound == \A q, g : Good(q) => q \in QuadSet /\ q.op \in PlainOps /\ Sound(q, g)
BY DEF Good, Sound

LEMMA EmitGood ==
  ASSUME NEW g, NEW q, GenOK(g), Good(q)
  PROVE  Keeps(g, EmitQuad(g, q)) /\ EmitQuad(g, q).count = g.count
BY GoodSound, EmitKeeps

LEMMA EmitGoodSeq ==
  ASSUME NEW g, NEW qs, GenOK(g), GoodSeq(qs)
  PROVE  Keeps(g, EmitQuads(g, qs)) /\ EmitQuads(g, qs).count = g.count
<1>1. qs \in Seq(QuadSet) /\ \A i \in 1 .. Len(qs) : qs[i].op \in PlainOps /\ Sound(qs[i], g)
  BY GoodSound DEF GoodSeq
<1> QED
  BY <1>1, EmitAllKeeps

LEMMA GoodPair == \A p, q : Good(p) /\ Good(q) => GoodSeq(<<p, q>>)
<1> SUFFICES ASSUME NEW p, NEW q, Good(p), Good(q) PROVE GoodSeq(<<p, q>>)
  OBVIOUS
<1>1. p \in QuadSet /\ q \in QuadSet
  BY DEF Good
<1>2. <<p, q>> \in Seq(QuadSet) /\ Len(<<p, q>>) = 2 /\ <<p, q>>[1] = p /\ <<p, q>>[2] = q
  BY <1>1
<1>3. \A i \in 1 .. 2 : i = 1 \/ i = 2
  OBVIOUS
<1> QED
  BY <1>2, <1>3 DEF GoodSeq

LEMMA GoodSingle == \A q : Good(q) => GoodSeq(<<q>>)
<1> SUFFICES ASSUME NEW q, Good(q) PROVE GoodSeq(<<q>>)
  OBVIOUS
<1>1. <<q>> \in Seq(QuadSet) /\ Len(<<q>>) = 1 /\ <<q>>[1] = q
  BY DEF Good
<1>2. \A i \in 1 .. 1 : i = 1
  OBVIOUS
<1> QED
  BY <1>1, <1>2 DEF GoodSeq

LEMMA GoodEmpty == GoodSeq(<< >>)
<1>1. << >> \in Seq(QuadSet) /\ Len(<< >>) = 0
  BY EmptySeq
<1> QED
  BY <1>1 DEF GoodSeq

LEMMA GoodConcat == \A s, t : GoodSeq(s) /\ GoodSeq(t) => GoodSeq(s \o t)
<1> SUFFICES ASSUME NEW s, NEW t, GoodSeq(s), GoodSeq(t) PROVE GoodSeq(s \o t)
  OBVIOUS
<1>1. s \in Seq(QuadSet) /\ t \in Seq(QuadSet) /\ Len(s) \in Nat /\ Len(t) \in Nat
  BY LenProperties DEF GoodSeq
<1>2. /\ s \o t \in Seq(QuadSet)
      /\ Len(s \o t) = Len(s) + Len(t)
      /\ \A i \in 1 .. Len(s) + Len(t) : (s \o t)[i] = IF i <= Len(s) THEN s[i] ELSE t[i - Len(s)]
  BY <1>1, ConcatProperties
<1>3. ASSUME NEW i \in 1 .. Len(s) + Len(t)
      PROVE  Good((s \o t)[i])
  <2>1. CASE i <= Len(s)
    <3>1. i \in 1 .. Len(s)
      BY <1>1, <2>1
    <3> QED
      BY <1>2, <2>1, <3>1 DEF GoodSeq
  <2>2. CASE ~(i <= Len(s))
    <3>1. i - Len(s) \in 1 .. Len(t)
      BY <1>1, <2>2
    <3> QED
      BY <1>2, <2>2, <3>1 DEF GoodSeq
  <2> QED
    BY <2>1, <2>2
<1> QED
  BY <1>2, <1>3 DEF GoodSeq

LEMMA GoodReversed == \A s : GoodSeq(s) => GoodSeq(Reverse(s))
<1> SUFFICES ASSUME NEW s, GoodSeq(s) PROVE GoodSeq(Reverse(s))
  OBVIOUS
<1>1. s \in Seq(QuadSet) /\ Len(s) \in Nat
  BY LenProperties DEF GoodSeq
<1> DEFINE t == Reverse(s)
<1>2. t = [i \in 1 .. Len(s) |-> s[Len(s) - i + 1]]
  BY DEF Reverse
<1>3. \A i \in 1 .. Len(s) : Len(s) - i + 1 \in 1 .. Len(s)
  BY <1>1
<1>4. \A i \in 1 .. Len(s) : t[i] \in QuadSet /\ Good(t[i])
  BY <1>2, <1>3 DEF GoodSeq, Good
<1> HIDE DEF t
<1>5. t \in [1 .. Len(s) -> QuadSet]
  BY <1>2, <1>4
<1>6. t \in Seq(QuadSet) /\ Len(t) = Len(s)
  BY <1>1, <1>5, SeqDef, LenProperties
<1>7. GoodSeq(t)
  BY <1>4, <1>6 DEF GoodSeq
<1> QED
  BY <1>7 DEF t

-----------------------------------------------------------------------------
(* Operators on values.                                                    *)

LEMMA KeepsResult ==
  ASSUME NEW g, NEW h, NEW e, GenOK(g), Keeps(g, h), Plain(e, h)
  PROVE  Result(g, {}, With(h, e)) /\ With(h, e).gen = h /\ With(h, e).e = e
BY PlainFields DEF Keeps, Result, With, Plain

LEMMA ConstPlain ==
  ASSUME NEW c \in Memcell, c.type \in {"number", "boolean", "string", "nil"}, NEW g, GenOK(g)
  PROVE  Plain(ConstExpr(c), g)
<1>1. Const(c) \in Places \ {None}
  BY PlaceFacts
<1>2. Taken(Const(c), g) /\ Taken(None, g)
  BY PlaceFacts DEF Taken
<1>3. CASE c.type = "number"
  <2>1. ConstExpr(c) = Expr("CONST_NUM_E", Const(c))
    BY <1>3 DEF ConstExpr
  <2>2. c = Number(c.value) /\ c.value \in Int
    BY <1>3 DEF Memcell, Number
  <2>3. Const(c) \in {Const(Number(n)) : n \in Int}
    BY <2>2
  <2>4. "CONST_NUM_E" \in ExprTypes /\ Const(c) \in Places
    BY <1>1 DEF ExprTypes
  <2> HIDE <2>2
  <2>5. /\ ConstExpr(c) \in ExprSet
        /\ ConstExpr(c).type = "CONST_NUM_E" /\ ConstExpr(c).place = Const(c)
        /\ ConstExpr(c).index = None
        /\ ConstExpr(c).truelist = {} /\ ConstExpr(c).falselist = {}
        /\ ~MustBePatched(ConstExpr(c))
    BY <2>1, <2>4, ExprFields
  <2> QED
    BY <1>1, <1>2, <2>3, <2>5 DEF Plain, ValueOK
<1>4. CASE c.type # "number"
  <2>1. PICK type \in {"CONST_BOOL_E", "CONST_STR_E", "CONST_NIL_E"} : ConstExpr(c) = Expr(type, Const(c))
    BY <1>4 DEF ConstExpr
  <2>2. type \in ExprTypes \ {"BOOL_E", "TABLE_ITEM_E", "CONST_NUM_E"}
    BY DEF ExprTypes
  <2> QED
    BY <1>1, <1>2, <2>1, <2>2, ExprPlain
<1> QED
  BY <1>3, <1>4

LEMMA NumberPlain ==
  ASSUME NEW n \in Int, NEW g, GenOK(g)
  PROVE  Plain(ConstExpr(Number(n)), g)
<1>1. Number(n) \in Memcell /\ Number(n).type = "number"
  BY DEF Number, Memcell, MemcellType
<1> QED
  BY <1>1, ConstPlain

LEMMA IfTableItemResult ==
  ASSUME NEW g, NEW e, GenOK(g), Plain(e, g)
  PROVE  /\ Keeps(g, EmitIfTableItem(g, e).gen)
         /\ Plain(EmitIfTableItem(g, e).e, EmitIfTableItem(g, e).gen)
         /\ IsTableItem(e) => /\ EmitIfTableItem(g, e).e = Expr("VAR_E", Hidden(g.count))
                              /\ EmitIfTableItem(g, e).gen.count = g.count + 1
<1>1. CASE ~IsTableItem(e)
  BY <1>1, KeepsReflexive DEF EmitIfTableItem, With
<1>2. CASE IsTableItem(e)
  <2> DEFINE q == Quad("tablegetelem", Hidden(g.count), e.place, e.index)
             h == EmitQuad(NewHidden(g), q)
  <2>1. EmitIfTableItem(g, e) = With(h, Expr("VAR_E", Hidden(g.count)))
    BY <1>2 DEF EmitIfTableItem
  <2>2. g.count \in Nat
    BY GenFields
  <2>3. e.place \in Solid /\ e.index \in Solid /\ Hidden(g.count) \in Solid
    BY <1>2, <2>2, PlainFields, PlaceFacts DEF Plain, ValueOK, IsTableItem, ExprSet, Solid
  <2>4. /\ q \in QuadSet /\ q.op = "tablegetelem"
        /\ q.result = Hidden(g.count) /\ q.arg1 = e.place /\ q.arg2 = e.index
    <3>1. "tablegetelem" \in PlainOps
      BY DEF PlainOps
    <3> QED
      BY <2>3, <3>1 DEF Solid, Quad, QuadSet
  <2>5. Sound(q, g)
    <3>1. None \notin Operands(q)
      BY <2>3, <2>4 DEF Operands, Solid, ArithmOps, Jumps
    <3>2. ~Defines(g) => Hidden(g.count) # e.place
      <4>1. Taken(e.place, g)
        BY DEF Plain, ValueOK
      <4> QED
        BY <2>2, <4>1 DEF Taken
    <3> QED
      BY <2>4, <3>1, <3>2 DEF Sound
  <2>6. q.op \in PlainOps
    BY <2>4 DEF PlainOps
  <2> HIDE DEF q
  <2>7. /\ Keeps(g, NewHidden(g)) /\ GenOK(NewHidden(g)) /\ NewHidden(g).count = g.count + 1
        /\ Sound(q, NewHidden(g))
    BY <2>5, NewHiddenKeeps DEF Keeps
  <2>8. Keeps(NewHidden(g), h) /\ h.count = g.count + 1
    BY <2>4, <2>6, <2>7, EmitKeeps
  <2> HIDE DEF h
  <2>9. Keeps(g, h)
    BY <2>7, <2>8, KeepsTransitive
  <2>10. Plain(Expr("VAR_E", Hidden(g.count)), h)
    <3>1. "VAR_E" \in ExprTypes \ {"BOOL_E", "TABLE_ITEM_E", "CONST_NUM_E"} /\ GenOK(h)
      BY <2>8 DEF ExprTypes, Keeps
    <3>2. g.count < h.count
      BY <2>2, <2>8
    <3> QED
      BY <2>2, <3>1, <3>2, HiddenPlain
  <2> QED
    BY <2>1, <2>8, <2>9, <2>10 DEF With
<1> QED
  BY <1>1, <1>2

(* A quad that puts its result into a new hidden variable. *)
LEMMA HiddenResult ==
  ASSUME NEW g, NEW qs, NEW type \in ExprTypes \ {"BOOL_E", "TABLE_ITEM_E", "CONST_NUM_E"},
         GenOK(g), GoodSeq(qs)
  PROVE  /\ Keeps(g, EmitQuads(NewHidden(g), qs))
         /\ Plain(Expr(type, Hidden(g.count)), EmitQuads(NewHidden(g), qs))
<1>1. /\ Keeps(g, NewHidden(g)) /\ GenOK(NewHidden(g)) /\ NewHidden(g).count = g.count + 1
      /\ g.count \in Nat
  BY NewHiddenKeeps, GenFields DEF Keeps
<1> DEFINE h == EmitQuads(NewHidden(g), qs)
<1>2. Keeps(NewHidden(g), h) /\ h.count = g.count + 1
  BY <1>1, EmitGoodSeq
<1> HIDE DEF h
<1>3. Keeps(g, h) /\ GenOK(h)
  BY <1>1, <1>2, KeepsTransitive DEF Keeps
<1>4. g.count < h.count
  BY <1>1, <1>2
<1>5. Plain(Expr(type, Hidden(g.count)), h)
  BY <1>1, <1>3, <1>4, HiddenPlain
<1> QED
  BY <1>3, <1>5 DEF h

(* The same with one quad. *)
LEMMA HiddenResultOne ==
  ASSUME NEW g, NEW q, NEW type \in ExprTypes \ {"BOOL_E", "TABLE_ITEM_E", "CONST_NUM_E"},
         GenOK(g), Good(q)
  PROVE  /\ Keeps(g, EmitQuad(NewHidden(g), q))
         /\ Plain(Expr(type, Hidden(g.count)), EmitQuad(NewHidden(g), q))
<1>1. /\ Keeps(g, NewHidden(g)) /\ GenOK(NewHidden(g)) /\ NewHidden(g).count = g.count + 1
      /\ g.count \in Nat
  BY NewHiddenKeeps, GenFields DEF Keeps
<1> DEFINE h == EmitQuad(NewHidden(g), q)
<1>2. Keeps(NewHidden(g), h) /\ h.count = g.count + 1
  BY <1>1, EmitGood
<1> HIDE DEF h
<1>3. Keeps(g, h) /\ GenOK(h)
  BY <1>1, <1>2, KeepsTransitive DEF Keeps
<1>4. g.count < h.count
  BY <1>1, <1>2
<1>5. Plain(Expr(type, Hidden(g.count)), h)
  BY <1>1, <1>3, <1>4, HiddenPlain
<1> QED
  BY <1>3, <1>5 DEF h

LEMMA HiddenSolid == \A g : GenOK(g) => Hidden(g.count) \in Solid
BY GenFields, PlaceFacts DEF Solid

LEMMA UminusResult ==
  ASSUME NEW g, NEW e, GenOK(g), Plain(e, g)
  PROVE  Keeps(g, Uminus(g, e).gen) /\ Plain(Uminus(g, e).e, Uminus(g, e).gen)
<1>1. e.place \in Solid /\ Hidden(g.count) \in Solid
  BY HiddenSolid, PlainFields DEF Solid
<1>2. Good(Quad("uminus", Hidden(g.count), e.place, None))
  BY <1>1, GoodQuads
<1>3. "ARITHM_E" \in ExprTypes \ {"BOOL_E", "TABLE_ITEM_E", "CONST_NUM_E"}
  BY DEF ExprTypes
<1> QED
  BY <1>2, <1>3, HiddenResultOne DEF Uminus, With

LEMMA ConstNumber ==
  ASSUME NEW g, NEW e, ValueOK(e, g), e.type = "CONST_NUM_E"
  PROVE  e.place.const.value \in Int
<1>1. PICK n \in Int : e.place = Const(Number(n))
  BY DEF ValueOK
<1> QED
  BY <1>1 DEF Const, Number

LEMMA ComputeInt ==
  ASSUME NEW op \in ArithmOps, NEW m \in Int, NEW n \in Int, ~NumericError(op, n)
  PROVE  Compute(op, m, n) \in Int
<1>1. n # 0 => Abs(n) \in Nat \ {0} /\ Abs(m) \in Nat
  BY DEF Abs
<1>2. n # 0 => Quot(m, n) \in Int
  BY <1>1 DEF Quot
<1>3. op \in {"add", "sub", "mul", "div", "mod"}
  BY DEF ArithmOps
<1>4. CASE op = "mod"
  <2>1. Quot(m, n) \in Int
    BY <1>2, <1>4 DEF NumericError
  <2>2. Compute(op, m, n) = m - n * Quot(m, n)
    BY <1>4 DEF Compute
  <2> QED
    BY <2>1, <2>2
<1>5. CASE op = "div"
  BY <1>2, <1>5 DEF NumericError, Compute
<1>6. CASE op \in {"add", "sub", "mul"}
  BY <1>6 DEF Compute
<1> QED
  BY <1>3, <1>4, <1>5, <1>6

LEMMA ArithmopResult ==
  ASSUME NEW g, NEW op \in ArithmOps, NEW l, NEW r, GenOK(g), Plain(l, g), Plain(r, g),
         BothNumbers(l, r) => ~NumericError(op, r.place.const.value)
  PROVE  /\ Keeps(g, Arithmop(g, op, l, r).gen)
         /\ Plain(Arithmop(g, op, l, r).e, Arithmop(g, op, l, r).gen)
<1>1. CASE BothNumbers(l, r)
  <2> DEFINE n == Compute(op, l.place.const.value, r.place.const.value)
  <2>1. l.place.const.value \in Int /\ r.place.const.value \in Int
    BY <1>1, ConstNumber DEF BothNumbers, Plain
  <2>2. n \in Int
    BY <1>1, <2>1, ComputeInt
  <2>3. Arithmop(g, op, l, r) = With(g, ConstExpr(Number(n)))
    BY <1>1 DEF Arithmop
  <2> HIDE DEF n
  <2> QED
    BY <2>2, <2>3, NumberPlain, KeepsReflexive DEF With
<1>2. CASE ~BothNumbers(l, r)
  <2>1. l.place \in Solid /\ r.place \in Solid /\ Hidden(g.count) \in Solid
    BY HiddenSolid, PlainFields DEF Solid
  <2>2. Good(Quad(op, Hidden(g.count), l.place, r.place))
    BY <2>1, GoodQuads
  <2>3. "ARITHM_E" \in ExprTypes \ {"BOOL_E", "TABLE_ITEM_E", "CONST_NUM_E"}
    BY DEF ExprTypes
  <2> QED
    BY <1>2, <2>2, <2>3, HiddenResultOne DEF Arithmop, With
<1> QED
  BY <1>1, <1>2

LEMMA RelopResult ==
  ASSUME NEW g, NEW op \in Jumps \ {"jump"}, NEW l, NEW r, GenOK(g), Plain(l, g), Plain(r, g)
  PROVE  Result(g, {}, Relop(g, op, l, r)) /\ Settled(Relop(g, op, l, r).e)
<1>1. CASE BothNumbers(l, r)
  <2> DEFINE b == IF Compare(op, l.place.const.value, r.place.const.value) THEN 1 ELSE 0
  <2>1. Relop(g, op, l, r) = With(g, ConstExpr(Boolean(b)))
    BY <1>1 DEF Relop
  <2>2. Boolean(b) \in Memcell /\ Boolean(b).type = "boolean"
    BY DEF Boolean, Memcell, MemcellType
  <2> HIDE DEF b
  <2>3. Plain(ConstExpr(Boolean(b)), g)
    BY <2>2, ConstPlain
  <2> QED
    BY <2>1, <2>3, KeepsResult, KeepsReflexive, PlainFields
<1>2. CASE ~BothNumbers(l, r)
  <2> DEFINE e == Expr("BOOL_E", None)
  <2>1. l.place \in Places \ {None} /\ r.place \in Places \ {None}
    BY PlainFields
  <2>2. Relop(g, op, l, r) = EmitTest(g, op, l.place, r.place, e)
    BY <1>2 DEF Relop
  <2>3. "BOOL_E" \in ExprTypes /\ None \in Places /\ Taken(None, g)
    BY PlaceFacts DEF ExprTypes, Taken
  <2>4. /\ e \in ExprSet /\ e.type = "BOOL_E" /\ e.place = None /\ e.index = None
        /\ e.truelist = {} /\ e.falselist = {} /\ Lists(e) = {}
    BY <2>3, ExprFields
  <2> HIDE DEF e
  <2>5. ValueOK(e, g)
    BY <2>3, <2>4 DEF ValueOK
  <2> QED
    BY <2>1, <2>2, <2>4, <2>5, EmitTestResult DEF Settled
<1> QED
  BY <1>1, <1>2

LEMMA TableItemPlain ==
  ASSUME NEW g, NEW e, NEW index, GenOK(g), Plain(e, g), Plain(index, g)
  PROVE  Plain(TableItem(e, index), g) /\ IsTableItem(TableItem(e, index))
<1> DEFINE base == Expr("TABLE_ITEM_E", e.place)
           item == [base EXCEPT !.index = index.place]
<1>1. e.place \in Solid /\ index.place \in Solid
  BY PlainFields DEF Solid
<1>2. Taken(e.place, g) /\ Taken(index.place, g)
  BY DEF Plain, ValueOK
<1>3. "TABLE_ITEM_E" \in ExprTypes
  BY DEF ExprTypes
<1>4. /\ base \in ExprSet /\ base.type = "TABLE_ITEM_E" /\ base.place = e.place
      /\ base.truelist = {} /\ base.falselist = {}
  BY <1>1, <1>3, ExprFields DEF Solid
<1> HIDE DEF base
<1>5. /\ item \in ExprSet /\ item.type = "TABLE_ITEM_E" /\ item.place = e.place
      /\ item.index = index.place /\ item.truelist = {} /\ item.falselist = {}
  BY <1>1, <1>4 DEF ExprSet, Solid
<1>6. TableItem(e, index) = item
  BY DEF TableItem, base
<1> HIDE DEF item
<1>7. Plain(item, g) /\ IsTableItem(item)
  BY <1>1, <1>2, <1>5 DEF Plain, ValueOK, MustBePatched, IsTableItem, Solid
<1> QED
  BY <1>6, <1>7

LEMMA PlainKeeps ==
  ASSUME NEW g, NEW h, NEW e, GenOK(g), Keeps(g, h), Plain(e, g)
  PROVE  Plain(e, h)
BY PlainLater DEF Keeps

LEMMA ItemIndex ==
  ASSUME NEW g, NEW e, Plain(e, g), IsTableItem(e)
  PROVE  e.place \in Solid /\ e.index \in Solid
BY PlainFields DEF Plain, ValueOK, IsTableItem, ExprSet, Solid

LEMMA AssignmentResult ==
  ASSUME NEW g, NEW lvalue, NEW right, GenOK(g), Plain(lvalue, g), Plain(right, g)
  PROVE  /\ Keeps(g, Assignment(g, lvalue, right).gen)
         /\ Plain(Assignment(g, lvalue, right).e, Assignment(g, lvalue, right).gen)
<1>0. lvalue.place \in Solid /\ right.place \in Solid /\ Hidden(g.count) \in Solid
  BY HiddenSolid, PlainFields DEF Solid
<1>1. CASE IsTableItem(lvalue)
  <2> DEFINE stored == EmitQuad(g, Quad("tablesetelem", right.place, lvalue.place, lvalue.index))
             back   == EmitIfTableItem(stored, lvalue)
  <2>1. Assignment(g, lvalue, right) = With(back.gen, [back.e EXCEPT !.type = "ASSIGN_E"])
    BY <1>1 DEF Assignment
  <2>2. Good(Quad("tablesetelem", right.place, lvalue.place, lvalue.index))
    BY <1>0, <1>1, ItemIndex, GoodQuads
  <2>3. Keeps(g, stored) /\ GenOK(stored)
    BY <2>2, EmitGood DEF Keeps
  <2> HIDE DEF stored
  <2>4. Plain(lvalue, stored)
    BY <2>3, PlainKeeps
  <2>5. Keeps(stored, back.gen) /\ Plain(back.e, back.gen) /\ GenOK(back.gen)
        /\ back.e = Expr("VAR_E", Hidden(stored.count))
    BY <1>1, <2>3, <2>4, IfTableItemResult DEF Keeps
  <2>6. [back.e EXCEPT !.type = "ASSIGN_E"] = Expr("ASSIGN_E", Hidden(stored.count))
    <3> HIDE DEF back
    <3>1. \A p : [Expr("VAR_E", p) EXCEPT !.type = "ASSIGN_E"] = Expr("ASSIGN_E", p)
      BY DEF Expr
    <3> QED
      BY <2>5, <3>1
  <2> HIDE DEF back
  <2>7. Keeps(g, back.gen)
    BY <2>3, <2>5, KeepsTransitive
  <2>8. Plain(Expr("ASSIGN_E", Hidden(stored.count)), back.gen)
    <3>1. back.e.place = Hidden(stored.count)
      BY <2>5 DEF Expr
    <3>2. Taken(Hidden(stored.count), back.gen)
      BY <2>5, <3>1 DEF Plain, ValueOK
    <3>3. Hidden(stored.count) \in Places \ {None}
      BY <2>3, HiddenSolid DEF Solid
    <3>4. "ASSIGN_E" \in ExprTypes \ {"BOOL_E", "TABLE_ITEM_E", "CONST_NUM_E"}
      BY DEF ExprTypes
    <3> QED
      BY <2>5, <3>2, <3>3, <3>4, ExprPlain
  <2> QED
    BY <2>1, <2>6, <2>7, <2>8 DEF With
<1>2. CASE ~IsTableItem(lvalue)
  <2> DEFINE copy == Hidden(g.count)
             qs   == <<Quad("assign", lvalue.place, right.place, None),
                       Quad("assign", copy, lvalue.place, None)>>
  <2>1. Assignment(g, lvalue, right) = With(EmitQuads(NewHidden(g), qs), Expr("ASSIGN_E", copy))
    BY <1>2 DEF Assignment
  <2>2. GoodSeq(qs)
    <3> HIDE DEF copy
    <3>1. copy \in Solid
      BY <1>0 DEF copy
    <3> QED
      BY <1>0, <3>1, GoodQuads, GoodPair
  <2> HIDE DEF qs
  <2>3. "ASSIGN_E" \in ExprTypes \ {"BOOL_E", "TABLE_ITEM_E", "CONST_NUM_E"}
    BY DEF ExprTypes
  <2> QED
    BY <2>1, <2>2, <2>3, HiddenResult DEF With
<1> QED
  BY <1>1, <1>2

LEMMA OneSolid == One \in Solid
BY OneIsMemcell, PlaceFacts DEF One, Solid

LEMMA PostopResult ==
  ASSUME NEW g, NEW op \in ArithmOps, NEW lvalue, GenOK(g), Plain(lvalue, g)
  PROVE  /\ Keeps(g, Postop(g, op, lvalue).gen)
         /\ Plain(Postop(g, op, lvalue).e, Postop(g, op, lvalue).gen)
<1> DEFINE term   == Hidden(g.count)
           k      == NewHidden(g)
           member == EmitIfTableItem(k, lvalue)
           x      == member.e.place
           first  == <<Quad("assign", term, x, None), Quad(op, x, x, One)>>
           second == IF IsTableItem(lvalue)
                     THEN <<Quad("tablesetelem", x, lvalue.place, lvalue.index)>> ELSE << >>
           h      == EmitQuads(member.gen, first \o second)
<1>1. Postop(g, op, lvalue) = With(h, Expr("VAR_E", term))
  BY DEF Postop
<1>2. Keeps(g, k) /\ GenOK(k) /\ k.count = g.count + 1 /\ g.count \in Nat
  BY NewHiddenKeeps, GenFields DEF Keeps
<1> HIDE DEF k
<1>3. Plain(lvalue, k)
  BY <1>2, PlainKeeps
<1>4. Keeps(k, member.gen) /\ Plain(member.e, member.gen) /\ GenOK(member.gen)
  BY <1>2, <1>3, IfTableItemResult DEF Keeps
<1> HIDE DEF member
<1>5. x \in Solid /\ term \in Solid
  BY <1>4, HiddenSolid, PlainFields DEF Solid
<1>6. Taken(term, k)
  BY <1>2, PlaceFacts DEF Taken
<1> HIDE DEF x, term
<1>7. GoodSeq(first)
  BY <1>5, OneSolid, GoodQuads, GoodPair
<1>8. GoodSeq(second)
  <2>1. CASE IsTableItem(lvalue)
    <3>1. Good(Quad("tablesetelem", x, lvalue.place, lvalue.index))
      BY <1>5, <2>1, ItemIndex, GoodQuads
    <3> QED
      BY <2>1, <3>1, GoodSingle
  <2>2. CASE ~IsTableItem(lvalue)
    BY <2>2, GoodEmpty
  <2> QED
    BY <2>1, <2>2
<1> HIDE DEF first, second
<1>9. Keeps(member.gen, h)
  BY <1>4, <1>7, <1>8, GoodConcat, EmitGoodSeq
<1> HIDE DEF h
<1>10. Keeps(k, h) /\ GenOK(h)
  BY <1>2, <1>4, <1>9, KeepsTransitive DEF Keeps
<1>11. Keeps(g, h)
  BY <1>2, <1>10, KeepsTransitive
<1>12. Plain(Expr("VAR_E", term), k)
  <2>1. "VAR_E" \in ExprTypes \ {"BOOL_E", "TABLE_ITEM_E", "CONST_NUM_E"}
    BY DEF ExprTypes
  <2> QED
    BY <1>2, <1>5, <1>6, <2>1, ExprPlain DEF Solid
<1>13. Plain(Expr("VAR_E", term), h)
  BY <1>2, <1>10, <1>12, PlainKeeps
<1> QED
  BY <1>1, <1>11, <1>13 DEF With

LEMMA PreopResult ==
  ASSUME NEW g, NEW op \in ArithmOps, NEW lvalue, GenOK(g), Plain(lvalue, g)
  PROVE  /\ Keeps(g, Preop(g, op, lvalue).gen)
         /\ Plain(Preop(g, op, lvalue).e, Preop(g, op, lvalue).gen)
<1> DEFINE member == EmitIfTableItem(g, lvalue)
           x      == member.e.place
           copy   == Hidden(g.count)
<1>1. Keeps(g, member.gen) /\ Plain(member.e, member.gen) /\ GenOK(member.gen)
  BY IfTableItemResult DEF Keeps
<1>2. x \in Solid /\ copy \in Solid
  BY <1>1, HiddenSolid, PlainFields DEF Solid
<1>3. CASE IsTableItem(lvalue)
  <2> DEFINE qs == <<Quad(op, x, x, One), Quad("tablesetelem", x, lvalue.place, lvalue.index)>>
  <2>1. Preop(g, op, lvalue) = With(EmitQuads(member.gen, qs), member.e)
    BY <1>3 DEF Preop
  <2> HIDE DEF member
  <2>2. GoodSeq(qs)
    <3> HIDE DEF x
    <3> QED
      BY <1>2, <1>3, ItemIndex, OneSolid, GoodQuads, GoodPair
  <2> HIDE DEF qs
  <2>3. Keeps(member.gen, EmitQuads(member.gen, qs))
    BY <1>1, <2>2, EmitGoodSeq
  <2>4. Keeps(g, EmitQuads(member.gen, qs)) /\ Plain(member.e, EmitQuads(member.gen, qs))
    BY <1>1, <2>3, KeepsTransitive, PlainKeeps
  <2> QED
    BY <2>1, <2>4 DEF With
<1>4. CASE ~IsTableItem(lvalue)
  <2> DEFINE qs == <<Quad(op, x, x, One), Quad("assign", copy, x, None)>>
  <2>1. Preop(g, op, lvalue) = With(EmitQuads(NewHidden(g), qs), Expr("ARITHM_E", copy))
    BY <1>4 DEF Preop
  <2>2. GoodSeq(qs)
    <3> HIDE DEF x, copy
    <3> QED
      BY <1>2, OneSolid, GoodQuads, GoodPair
  <2> HIDE DEF qs
  <2>3. "ARITHM_E" \in ExprTypes \ {"BOOL_E", "TABLE_ITEM_E", "CONST_NUM_E"}
    BY DEF ExprTypes
  <2> QED
    BY <2>1, <2>2, <2>3, HiddenResult DEF With
<1> QED
  BY <1>3, <1>4

LEMMA CallResult ==
  ASSUME NEW g, NEW func, NEW args, GenOK(g), Plain(func, g), PlainSeq(args, g)
  PROVE  /\ Keeps(g, EmitCall(g, func, args).gen)
         /\ Plain(EmitCall(g, func, args).e, EmitCall(g, func, args).gen)
<1> DEFINE callee == EmitIfTableItem(g, func)
           params == [i \in DOMAIN args |-> Quad("param", None, args[i].place, None)]
           qs     == Append(Reverse(params), Quad("call", None, callee.e.place, None))
           called == EmitQuads(callee.gen, qs)
           place  == Hidden(called.count)
           h      == EmitQuad(NewHidden(called), Quad("getretval", place, None, None))
<1>1. EmitCall(g, func, args) = With(h, Expr("VAR_E", place))
  BY DEF EmitCall
<1>2. Keeps(g, callee.gen) /\ Plain(callee.e, callee.gen) /\ GenOK(callee.gen)
  BY IfTableItemResult DEF Keeps
<1> HIDE DEF callee
<1>3. Good(Quad("call", None, callee.e.place, None))
  BY <1>2, PlainFields, GoodQuads DEF Solid
<1>4. Len(args) \in Nat /\ DOMAIN args = 1 .. Len(args)
  BY ItemsOfSeq DEF PlainSeq
<1>5. \A i \in 1 .. Len(args) : Good(Quad("param", None, args[i].place, None))
  BY <1>4, PlainFields, GoodQuads DEF PlainSeq, Solid
<1>6. GoodSeq(params)
  <2>1. params = [i \in 1 .. Len(args) |-> Quad("param", None, args[i].place, None)]
    BY <1>4
  <2> HIDE DEF params
  <2>2. \A i \in 1 .. Len(args) : Good(params[i]) /\ params[i] \in QuadSet
    BY <1>5, <2>1 DEF Good
  <2>3. params \in [1 .. Len(args) -> QuadSet]
    BY <2>1, <2>2
  <2>4. params \in Seq(QuadSet) /\ Len(params) = Len(args)
    BY <1>4, <2>3, SeqDef, LenProperties
  <2> QED
    BY <2>2, <2>4 DEF GoodSeq
<1> HIDE DEF params
<1>7. GoodSeq(qs)
  <2> DEFINE last == Quad("call", None, callee.e.place, None)
  <2>1. GoodSeq(Reverse(params)) /\ GoodSeq(<<last>>)
    BY <1>3, <1>6, GoodReversed, GoodSingle
  <2>2. last \in QuadSet
    BY <1>3 DEF Good
  <2> HIDE DEF last
  <2>3. Append(Reverse(params), last) = Reverse(params) \o <<last>>
    BY <2>1, <2>2, AppendIsConcat DEF GoodSeq
  <2> QED
    BY <2>1, <2>3, GoodConcat DEF last
<1> HIDE DEF qs
<1>8. Keeps(callee.gen, called) /\ GenOK(called)
  BY <1>2, <1>7, EmitGoodSeq DEF Keeps
<1> HIDE DEF called
<1>9. Keeps(g, called)
  BY <1>2, <1>8, KeepsTransitive
<1>10. Good(Quad("getretval", place, None, None))
  BY <1>8, HiddenSolid, GoodQuads
<1>11. "VAR_E" \in ExprTypes \ {"BOOL_E", "TABLE_ITEM_E", "CONST_NUM_E"}
  BY DEF ExprTypes
<1>12. Keeps(called, h) /\ Plain(Expr("VAR_E", place), h)
  BY <1>8, <1>10, <1>11, HiddenResultOne
<1> HIDE DEF h
<1>13. Keeps(g, h)
  BY <1>9, <1>12, KeepsTransitive
<1> QED
  BY <1>1, <1>12, <1>13 DEF With

(* Lists of values. *)
LEMMA PlainSeqFields ==
  ASSUME NEW s, NEW g, PlainSeq(s, g)
  PROVE  /\ s \in Seq(ExprSet) /\ Len(s) \in Nat /\ DOMAIN s = 1 .. Len(s)
         /\ \A i \in 1 .. Len(s) : Plain(s[i], g)
<1>1. s \in Seq(ToSet(s)) /\ Len(s) \in Nat /\ DOMAIN s = 1 .. Len(s)
  BY ItemsOfSeq DEF PlainSeq
<1>2. \A i \in 1 .. Len(s) : Plain(s[i], g) /\ s[i] \in ExprSet
  BY <1>1 DEF PlainSeq, Plain, ValueOK
<1>3. s \in [1 .. Len(s) -> ExprSet]
  BY <1>1, <1>2, LenProperties
<1>4. s \in Seq(ExprSet)
  BY <1>1, <1>3, SeqDef
<1> QED
  BY <1>1, <1>2, <1>4

LEMMA PlainSeqMade ==
  ASSUME NEW S, NEW s \in Seq(S), NEW g, \A i \in 1 .. Len(s) : Plain(s[i], g)
  PROVE  PlainSeq(s, g)
BY ItemsOfSeq DEF PlainSeq

LEMMA PlainSeqKeeps ==
  ASSUME NEW g, NEW h, NEW s, GenOK(g), Keeps(g, h), PlainSeq(s, g)
  PROVE  PlainSeq(s, h)
BY PlainKeeps DEF PlainSeq

LEMMA PlainConcat ==
  ASSUME NEW g, NEW s, NEW t, PlainSeq(s, g), PlainSeq(t, g)
  PROVE  PlainSeq(s \o t, g)
<1>1. /\ s \in Seq(ExprSet) /\ Len(s) \in Nat /\ t \in Seq(ExprSet) /\ Len(t) \in Nat
      /\ \A i \in 1 .. Len(s) : Plain(s[i], g)
      /\ \A i \in 1 .. Len(t) : Plain(t[i], g)
  BY PlainSeqFields
<1>2. /\ s \o t \in Seq(ExprSet)
      /\ Len(s \o t) = Len(s) + Len(t)
      /\ \A i \in 1 .. Len(s) + Len(t) : (s \o t)[i] = IF i <= Len(s) THEN s[i] ELSE t[i - Len(s)]
  BY <1>1, ConcatProperties
<1>3. ASSUME NEW i \in 1 .. Len(s) + Len(t)
      PROVE  Plain((s \o t)[i], g)
  <2>1. CASE i <= Len(s)
    <3>1. i \in 1 .. Len(s)
      BY <1>1, <2>1
    <3> QED
      BY <1>1, <1>2, <2>1, <3>1
  <2>2. CASE ~(i <= Len(s))
    <3>1. i - Len(s) \in 1 .. Len(t)
      BY <1>1, <2>2
    <3> QED
      BY <1>1, <1>2, <2>2, <3>1
  <2> QED
    BY <2>1, <2>2
<1> QED
  BY <1>2, <1>3, PlainSeqMade

LEMMA PlainSingle ==
  ASSUME NEW g, NEW e, Plain(e, g)
  PROVE  PlainSeq(<<e>>, g)
<1>1. e \in ExprSet
  BY DEF Plain, ValueOK
<1>2. <<e>> \in Seq(ExprSet) /\ Len(<<e>>) = 1 /\ <<e>>[1] = e
  BY <1>1
<1>3. \A i \in 1 .. 1 : i = 1
  OBVIOUS
<1> QED
  BY <1>2, <1>3, PlainSeqMade

LEMMA PlainEmpty == \A g : PlainSeq(<< >>, g)
<1>1. << >> \in Seq(ExprSet) /\ Len(<< >>) = 0
  BY EmptySeq
<1>2. \A i : i \notin 1 .. 0
  OBVIOUS
<1> QED
  BY <1>1, <1>2, PlainSeqMade

LEMMA PlainAppend ==
  ASSUME NEW g, NEW s, NEW e, PlainSeq(s, g), Plain(e, g)
  PROVE  PlainSeq(Append(s, e), g)
<1>1. s \in Seq(ExprSet) /\ e \in ExprSet
  BY PlainSeqFields DEF Plain, ValueOK
<1>2. Append(s, e) = s \o <<e>>
  BY <1>1, AppendIsConcat
<1> QED
  BY <1>2, PlainSingle, PlainConcat

LEMMA MethodCallResult ==
  ASSUME NEW g, NEW lvalue, NEW name \in MemberNames, NEW args, GenOK(g), Plain(lvalue, g),
         PlainSeq(args, g)
  PROVE  /\ Keeps(g, EmitMethodCall(g, lvalue, name, args).gen)
         /\ Plain(EmitMethodCall(g, lvalue, name, args).e, EmitMethodCall(g, lvalue, name, args).gen)
<1> DEFINE self   == EmitIfTableItem(g, lvalue)
           method == TableItem(self.e, ConstExpr(name))
           all    == <<self.e>> \o args
           result == EmitCall(self.gen, method, all)
<1>1. EmitMethodCall(g, lvalue, name, args) = result
  BY DEF EmitMethodCall
<1>2. Keeps(g, self.gen) /\ Plain(self.e, self.gen) /\ GenOK(self.gen)
  BY IfTableItemResult DEF Keeps
<1> HIDE DEF self
<1>3. name \in Memcell /\ name.type = "string"
  BY MemberNamesAssumption
<1>4. Plain(ConstExpr(name), self.gen)
  BY <1>2, <1>3, ConstPlain
<1>5. Plain(method, self.gen)
  BY <1>2, <1>4, TableItemPlain
<1>6. PlainSeq(all, self.gen)
  BY <1>2, PlainSeqKeeps, PlainSingle, PlainConcat
<1> HIDE DEF method, all
<1>7. Keeps(self.gen, result.gen) /\ Plain(result.e, result.gen)
  BY <1>2, <1>5, <1>6, CallResult
<1> HIDE DEF result
<1>8. Keeps(g, result.gen)
  BY <1>2, <1>7, KeepsTransitive
<1> QED
  BY <1>1, <1>7, <1>8

LEMMA PlainPairsKeeps ==
  ASSUME NEW g, NEW h, NEW s, GenOK(g), Keeps(g, h), PlainPairs(s, g)
  PROVE  PlainPairs(s, h)
BY PlainKeeps DEF PlainPairs

LEMMA PlainPairsAppend ==
  ASSUME NEW g, NEW s, NEW p, PlainPairs(s, g), Plain(p.key, g), Plain(p.value, g)
  PROVE  PlainPairs(Append(s, p), g)
<1> DEFINE S == ToSet(s) \cup {p}
           t == Append(s, p)
<1>1. Len(s) \in Nat /\ DOMAIN s = 1 .. Len(s) /\ \A i \in 1 .. Len(s) : s[i] \in ToSet(s)
  BY ItemsOfSeq DEF PlainPairs
<1>2. s \in Seq(S) /\ p \in S
  <2>1. s \in Seq(ToSet(s))
    BY DEF PlainPairs
  <2> QED
    BY <2>1, SeqMonotonic
<1> HIDE DEF S
<1>3. /\ t \in Seq(S) /\ Len(t) = Len(s) + 1
      /\ \A i \in 1 .. Len(s) : t[i] = s[i]
      /\ t[Len(s) + 1] = p
  BY <1>2, AppendProperties
<1> HIDE DEF t
<1>4. t \in Seq(ToSet(t)) /\ DOMAIN t = 1 .. Len(s) + 1
  BY <1>1, <1>3, ItemsOfSeq
<1>5. \A i \in 1 .. Len(s) + 1 : i \in 1 .. Len(s) \/ i = Len(s) + 1
  BY <1>1
<1>6. PlainPairs(t, g)
  BY <1>1, <1>3, <1>4, <1>5 DEF PlainPairs
<1> QED
  BY <1>6 DEF t

LEMMA EnumeratedPlain ==
  ASSUME NEW g, NEW es, GenOK(g), PlainSeq(es, g)
  PROVE  PlainPairs(Enumerated(es), g)
<1>1. Len(es) \in Nat /\ DOMAIN es = 1 .. Len(es) /\ \A i \in 1 .. Len(es) : Plain(es[i], g)
  BY PlainSeqFields
<1> DEFINE s == Enumerated(es)
<1>2. s = [i \in 1 .. Len(es) |-> [key |-> ConstExpr(Number(i - 1)), value |-> es[i]]]
  BY <1>1 DEF Enumerated
<1> HIDE DEF s
<1>3. \A i \in 1 .. Len(es) : s[i].key = ConstExpr(Number(i - 1)) /\ s[i].value = es[i]
  BY <1>2
<1>4. \A i \in 1 .. Len(es) : Plain(s[i].key, g) /\ Plain(s[i].value, g)
  <2>1. \A i \in 1 .. Len(es) : i - 1 \in Int
    BY <1>1
  <2> QED
    BY <1>1, <1>3, <2>1, NumberPlain
<1>5. s \in [1 .. Len(es) -> ToSet(s)] /\ DOMAIN s = 1 .. Len(es)
  BY <1>2 DEF ToSet
<1>6. s \in Seq(ToSet(s))
  BY <1>1, <1>5, SeqDef
<1>7. PlainPairs(s, g)
  BY <1>4, <1>5, <1>6 DEF PlainPairs
<1> QED
  BY <1>7 DEF s

LEMMA ObjectResult ==
  ASSUME NEW g, NEW pairs, GenOK(g), PlainPairs(pairs, g)
  PROVE  Keeps(g, ObjectDef(g, pairs).gen) /\ Plain(ObjectDef(g, pairs).e, ObjectDef(g, pairs).gen)
<1> DEFINE table == Hidden(g.count)
           first == <<Quad("tablecreate", None, table, None)>>
           sets  == [i \in DOMAIN pairs |->
                       Quad("tablesetelem", pairs[i].value.place, table, pairs[i].key.place)]
<1>1. ObjectDef(g, pairs) = With(EmitQuads(NewHidden(g), first \o sets), Expr("NEW_TABLE_E", table))
  BY DEF ObjectDef
<1>2. table \in Solid
  BY HiddenSolid
<1> HIDE DEF table
<1>3. GoodSeq(first)
  BY <1>2, GoodQuads, GoodSingle
<1>4. Len(pairs) \in Nat /\ DOMAIN pairs = 1 .. Len(pairs)
  BY ItemsOfSeq DEF PlainPairs
<1>5. \A i \in 1 .. Len(pairs) : pairs[i].value.place \in Solid /\ pairs[i].key.place \in Solid
  BY <1>4, PlainFields DEF PlainPairs, Solid
<1>6. \A i \in 1 .. Len(pairs) :
        Good(Quad("tablesetelem", pairs[i].value.place, table, pairs[i].key.place))
  BY <1>2, <1>5, GoodQuads
<1>7. GoodSeq(sets)
  <2>1. sets = [i \in 1 .. Len(pairs) |->
                  Quad("tablesetelem", pairs[i].value.place, table, pairs[i].key.place)]
    BY <1>4
  <2> HIDE DEF sets
  <2>2. \A i \in 1 .. Len(pairs) : Good(sets[i]) /\ sets[i] \in QuadSet
    BY <1>6, <2>1 DEF Good
  <2>3. sets \in [1 .. Len(pairs) -> QuadSet]
    BY <2>1, <2>2
  <2>4. sets \in Seq(QuadSet) /\ Len(sets) = Len(pairs)
    BY <1>4, <2>3, SeqDef, LenProperties
  <2> QED
    BY <2>2, <2>4 DEF GoodSeq
<1> HIDE DEF first, sets
<1>8. "NEW_TABLE_E" \in ExprTypes \ {"BOOL_E", "TABLE_ITEM_E", "CONST_NUM_E"}
  BY DEF ExprTypes
<1>9. GoodSeq(first \o sets)
  BY <1>3, <1>7, GoodConcat
<1> QED
  BY <1>1, <1>8, <1>9, HiddenResult DEF With, table

(* A function's quads; the counter starts again. *)
LEMMA FuncDefKeeps ==
  ASSUME NEW g, NEW func, func = Const(UserFunc(Len(g.quads))), NEW h, GenOK(g),
         h = [EmitQuads(g, <<Quad("funcstart", None, func, None), Quad("funcend", None, func, None)>>)
                EXCEPT !.count = 0]
  PROVE  Keeps(g, h) /\ Defines(h) /\ Plain(Expr("PROGRAM_FUNC_E", func), h)
<1> DEFINE start == Quad("funcstart", None, func, None)
           end   == Quad("funcend", None, func, None)
           qs    == <<start, end>>
           body  == EmitQuads(g, qs)
           next  == Len(g.quads)
           added == [i \in DOMAIN qs |-> [qs[i] EXCEPT !.label = next + i - 1]]
           code  == g.quads \o added
<1>1. g.quads \in Seq(QuadSet) /\ next \in Nat /\ g \in [quads : Seq(QuadSet), count : Nat]
  BY GenFields
<1>2. func \in Solid
  <2>1. UserFunc(next) \in Memcell
    BY <1>1 DEF UserFunc, Memcell, MemcellType
  <2> QED
    BY <2>1, PlaceFacts DEF Solid
<1>3. Good(start) /\ Good(end) /\ GoodSeq(qs) /\ start \in QuadSet /\ end \in QuadSet
  <2>1. Good(start) /\ Good(end)
    BY <1>2, GoodQuads
  <2> HIDE DEF start, end
  <2> QED
    BY <2>1, GoodPair DEF Good
<1>4. start.op = "funcstart"
  BY DEF Quad
<1> HIDE DEF start, end
<1>5. Keeps(g, body) /\ GenOK(body)
  BY <1>3, EmitGoodSeq DEF Keeps
<1>6. body.quads = code
  <2>1. body = [g EXCEPT !.quads = code]
    BY DEF EmitQuads, NextQuadLabel
  <2> HIDE DEF body, code
  <2> QED
    BY <1>1, <2>1
<1>7. \E i \in DOMAIN body.quads : body.quads[i].op = "funcstart"
  <2> HIDE DEF body
  <2>1. DOMAIN qs = 1 .. 2 /\ qs[1] = start /\ qs[2] = end
    OBVIOUS
  <2> HIDE DEF qs
  <2>2. added = [i \in 1 .. 2 |-> [qs[i] EXCEPT !.label = next + i - 1]]
    BY <2>1
  <2> HIDE DEF added
  <2>3. added[1] = [start EXCEPT !.label = next + 1 - 1] /\ added[2] = [end EXCEPT !.label = next + 2 - 1]
    BY <2>1, <2>2
  <2>4. next + 1 - 1 \in Nat /\ next + 2 - 1 \in Nat
    BY <1>1
  <2>5. added[1] \in QuadSet /\ added[1].op = "funcstart" /\ added[2] \in QuadSet
    BY <1>3, <1>4, <2>3, <2>4, Labelled DEF Alike
  <2>6. \A i \in 1 .. 2 : i = 1 \/ i = 2
    OBVIOUS
  <2>7. added \in [1 .. 2 -> QuadSet]
    BY <2>2, <2>5, <2>6
  <2>8. added \in Seq(QuadSet) /\ Len(added) = 2
    BY <2>7, SeqMade
  <2>9. code[next + 1] = added[1] /\ Len(code) = next + 2 /\ code \in Seq(QuadSet)
    <3>1. /\ code \in Seq(QuadSet) /\ Len(code) = Len(g.quads) + Len(added)
          /\ \A i \in 1 .. Len(g.quads) + Len(added) :
               code[i] = IF i <= Len(g.quads) THEN g.quads[i] ELSE added[i - Len(g.quads)]
      BY <1>1, <2>8, ConcatProperties
    <3> HIDE DEF code
    <3>2. next = Len(g.quads)
      OBVIOUS
    <3> HIDE DEF next
    <3>3. next + 1 \in 1 .. next + 2 /\ ~(next + 1 <= next) /\ next + 1 - next = 1
      BY <1>1
    <3>4. Len(code) = next + 2
      BY <2>8, <3>1, <3>2
    <3>5. next + 1 \in 1 .. Len(g.quads) + Len(added) /\ ~(next + 1 <= Len(g.quads))
          /\ next + 1 - Len(g.quads) = 1
      BY <2>8, <3>2, <3>3
    <3>6. PICK j \in Nat : j = next + 1
      BY <1>1, <3>2
    <3>7. j \in 1 .. Len(g.quads) + Len(added) /\ ~(j <= Len(g.quads)) /\ j - Len(g.quads) = 1
      BY <1>1, <2>8, <3>2, <3>6
    <3>8. code[j] = added[1]
      BY <3>1, <3>7
    <3> QED
      BY <3>1, <3>4, <3>6, <3>8
  <2> HIDE DEF code
  <2>10. next + 1 \in DOMAIN code
    BY <1>1, <2>9, ItemsOfSeq
  <2> QED
    BY <1>6, <2>5, <2>9, <2>10
<1> HIDE DEF qs, body
<1>8. body \in [quads : Seq(QuadSet), count : Nat]
  BY <1>5, GenFields
<1>9. h \in [quads : Seq(QuadSet), count : Nat] /\ h.quads = body.quads /\ h = [body EXCEPT !.count = 0]
  <2>1. h = [body EXCEPT !.count = 0]
    BY DEF body, qs, start, end
  <2>2. 0 \in Nat
    OBVIOUS
  <2> QED
    BY <1>8, <2>1, <2>2
<1>10. Defines(h)
  BY <1>7, <1>9 DEF Defines
<1>11. \A q : Sound(q, body) => Sound(q, h)
  BY <1>10 DEF Sound
<1>12. GenOK(h)
  BY <1>5, <1>9, <1>11 DEF GenOK
<1>13. Keeps(g, h)
  BY <1>5, <1>9, <1>10, <1>12 DEF Keeps, Later
<1>14. Taken(func, h)
  BY <1>10 DEF Taken
<1>15. "PROGRAM_FUNC_E" \in ExprTypes \ {"BOOL_E", "TABLE_ITEM_E", "CONST_NUM_E"}
  BY DEF ExprTypes
<1> QED
  BY <1>2, <1>10, <1>12, <1>13, <1>14, <1>15, ExprPlain DEF Solid

-----------------------------------------------------------------------------
(* Items of the stack.                                                     *)

LEMMA ItemFields ==
  ASSUME NEW item, NEW g, ItemOK(item, g)
  PROVE  /\ item.sym \in {"expr", "value"} \cup Tables \cup Logicals \cup Infixes =>
              "e" \in DOMAIN item /\ ValueOK(item.e, g) /\ Kept(item) = Lists(item.e)
         /\ item.sym \in {"expr", "value"} \cup Infixes => Settled(item.e)
         /\ item.sym \in Tables \cup {"==", "!="} => Plain(item.e, g) /\ Kept(item) = {}
         /\ item.sym \in Logicals => item.next \in 1 .. Len(g.quads)
         /\ item.sym = "method" => item.name \in MemberNames
         /\ item.sym = "tmp_elist" => PlainSeq(item.es, g) /\ Kept(item) = {}
         /\ item.sym \in {"key", "indexed", "value"} => PlainPairs(item.pairs, g)
         /\ item.sym \in {"key", "indexed", "object", "not", "uminus"} \cup Increments => Kept(item) = {}
<1>1. item.sym \in {"expr", "value"} \cup Tables \cup Logicals \cup Infixes =>
        "e" \in DOMAIN item /\ ValueOK(item.e, g) /\ Kept(item) = Lists(item.e)
  BY DEF ItemOK, Fields, Tables, Logicals, Infixes, Increments, Kept, Lists
<1>2. item.sym \in {"expr", "value"} \cup Infixes => Settled(item.e)
  BY <1>1 DEF ItemOK, Logicals, Infixes
<1>3. item.sym \in Tables \cup {"==", "!="} => Plain(item.e, g) /\ Kept(item) = {}
  <2> HAVE item.sym \in Tables \cup {"==", "!="}
  <2>1. item.sym \in Tables \cup Infixes /\ item.sym \notin Logicals /\ item.e.type # "BOOL_E"
    BY DEF ItemOK, Tables, Infixes, Logicals
  <2>2. ValueOK(item.e, g) /\ Kept(item) = Lists(item.e) /\ Settled(item.e)
    BY <1>1, <2>1 DEF ItemOK
  <2> QED
    BY <2>1, <2>2 DEF Plain, Settled, Lists, MustBePatched
<1>4. item.sym \in Logicals => item.next \in 1 .. Len(g.quads)
  BY DEF ItemOK
<1>5. item.sym = "method" => item.name \in MemberNames
  BY DEF ItemOK
<1>6. item.sym = "tmp_elist" => PlainSeq(item.es, g) /\ Kept(item) = {}
  BY DEF ItemOK, Fields, Logicals, Infixes, Increments, Kept
<1>7. item.sym \in {"key", "indexed", "value"} => PlainPairs(item.pairs, g)
  BY DEF ItemOK, Fields, Logicals, Infixes, Increments
<1>8. item.sym \in {"key", "indexed", "object", "not", "uminus"} \cup Increments => Kept(item) = {}
  BY DEF ItemOK, Fields, Logicals, Infixes, Increments, Kept
<1> QED
  BY <1>1, <1>2, <1>3, <1>4, <1>5, <1>6, <1>7, <1>8

(* A value that an item may hold. *)
Holdable(e, ast, g) ==
  /\ ValueOK(e, g)
  /\ Settled(e)
  /\ e.type = "BOOL_E" => ast.node \notin {"call", "method"}

LEMMA PlainHoldable == \A e, ast, g : Plain(e, g) => Holdable(e, ast, g)
BY DEF Plain, Holdable, Settled

LEMMA ExprItem ==
  ASSUME NEW e, NEW ast, NEW g, Holdable(e, ast, g)
  PROVE  /\ ItemOK(Item(e, ast), g)
         /\ Kept(Item(e, ast)) = Lists(e)
         /\ Item(e, ast).sym = "expr"
<1> DEFINE item == Item(e, ast)
<1>1. DOMAIN item = {"sym", "e", "ast"} /\ item.sym = "expr" /\ item.e = e /\ item.ast = ast
  BY DEF Item
<1> HIDE DEF item
<1>2. ItemOK(item, g)
  <2>1. Fields("expr") = {"sym", "e", "ast"}
    BY DEF Fields, Logicals, Infixes, Increments
  <2>2. "expr" \notin Tables \cup {"==", "!="} \cup Logicals /\ "expr" # "method"
    BY DEF Tables, Logicals
  <2> QED
    BY <1>1, <2>1, <2>2 DEF ItemOK, Holdable
<1>3. Kept(item) = Lists(e)
  BY <1>1 DEF Kept, Lists
<1> QED
  BY <1>1, <1>2, <1>3 DEF item

(* Items of tables, calls and assignments hold what has a place. *)
LEMMA PlainItem ==
  ASSUME NEW item, NEW g, DOMAIN item = Fields(item.sym), item.sym \in Tables, Plain(item.e, g),
         item.sym = "method" => item.name \in MemberNames
  PROVE  ItemOK(item, g) /\ Kept(item) = {}
<1>1. "sym" \in DOMAIN item /\ "e" \in DOMAIN item /\ "es" \notin DOMAIN item
      /\ "pairs" \notin DOMAIN item
  BY DEF Fields, Tables, Logicals, Infixes, Increments
<1>2. ValueOK(item.e, g) /\ Settled(item.e) /\ item.e.type # "BOOL_E" /\ Lists(item.e) = {}
  BY PlainFields DEF Plain
<1>3. ItemOK(item, g)
  BY <1>1, <1>2 DEF ItemOK, Tables, Logicals
<1> QED
  BY <1>1, <1>2, <1>3 DEF Kept, Lists

LEMMA TokenItem ==
  ASSUME NEW sym \in {"not", "uminus", "object"} \cup Increments, NEW g
  PROVE  ItemOK([sym |-> sym], g) /\ Kept([sym |-> sym]) = {} /\ [sym |-> sym].sym = sym
<1> DEFINE item == [sym |-> sym]
<1>1. DOMAIN item = {"sym"} /\ item.sym = sym
  OBVIOUS
<1> HIDE DEF item
<1>2. Fields(sym) = {"sym"}
  BY DEF Fields, Increments, Logicals, Infixes
<1>3. ItemOK(item, g)
  BY <1>1, <1>2 DEF ItemOK, Tables, Logicals, Increments
<1>4. Kept(item) = {}
  BY <1>1 DEF Kept
<1> QED
  BY <1>1, <1>3, <1>4 DEF item

LEMMA PrefixFields == \A sym \in Logicals \cup Infixes : Fields(sym) = {"sym", "e", "ast", "next"}
<1> TAKE sym \in Logicals \cup Infixes
<1>1. sym \notin {"expr", "lvalue", "=", "call", "index", "method", "tmp_elist", "key", "indexed",
                  "value", "refused", "not", "uminus", "object", "++", "--"}
  BY DEF Logicals, Infixes
<1> QED
  BY <1>1 DEF Fields, Increments

LEMMA InfixItem ==
  ASSUME NEW sym \in Infixes, NEW e, NEW ast, NEW next, NEW g, ValueOK(e, g), Settled(e),
         sym \in {"==", "!="} => e.type # "BOOL_E"
  PROVE  /\ ItemOK(Prefix(sym, e, ast, next), g)
         /\ Kept(Prefix(sym, e, ast, next)) = Lists(e)
         /\ Prefix(sym, e, ast, next).sym = sym
<1> DEFINE item == Prefix(sym, e, ast, next)
<1>1. DOMAIN item = {"sym", "e", "ast", "next"} /\ item.sym = sym /\ item.e = e /\ item.next = next
  BY DEF Prefix
<1> HIDE DEF item
<1>2. sym \in Logicals \cup Infixes
  OBVIOUS
<1>3. Fields(sym) = {"sym", "e", "ast", "next"}
  BY <1>2, PrefixFields
<1>4. ItemOK(item, g)
  BY <1>1, <1>3 DEF ItemOK, Tables, Logicals, Infixes
<1>5. Kept(item) = Lists(e)
  BY <1>1 DEF Kept, Lists
<1> QED
  BY <1>1, <1>4, <1>5 DEF item

(* The numbers of the quads that a right operand may begin with. *)
Starts(g) == 1 .. Len(g.quads)

LEMMA LogicalItem ==
  ASSUME NEW sym \in Logicals, NEW e, NEW ast, NEW g, ValueOK(e, g), NEW next, next \in Starts(g)
  PROVE  /\ ItemOK(Prefix(sym, e, ast, next), g)
         /\ Kept(Prefix(sym, e, ast, next)) = Lists(e)
         /\ Prefix(sym, e, ast, next).sym = sym
<1> DEFINE item == Prefix(sym, e, ast, next)
<1>1. DOMAIN item = {"sym", "e", "ast", "next"} /\ item.sym = sym /\ item.e = e /\ item.next = next
  BY DEF Prefix
<1> HIDE DEF item
<1>2. sym \in Logicals \cup Infixes
  OBVIOUS
<1>3. Fields(sym) = {"sym", "e", "ast", "next"}
  BY <1>2, PrefixFields
<1>4. ItemOK(item, g)
  BY <1>1, <1>3 DEF ItemOK, Tables, Logicals, Starts
<1>5. Kept(item) = Lists(e)
  BY <1>1 DEF Kept, Lists
<1> QED
  BY <1>1, <1>4, <1>5 DEF item

LEMMA RefusedItem ==
  ASSUME NEW ast, NEW g
  PROVE  ItemOK([sym |-> "refused", ast |-> ast], g)
<1> DEFINE item == [sym |-> "refused", ast |-> ast]
<1>1. DOMAIN item = {"sym", "ast"} /\ item.sym = "refused"
  OBVIOUS
<1> HIDE DEF item
<1>2. ItemOK(item, g)
  BY <1>1 DEF ItemOK, Fields, Tables, Logicals, Infixes, Increments
<1> QED
  BY <1>2 DEF item

-----------------------------------------------------------------------------
(* The stack.                                                              *)

(* t is the first m - 1 items of s and a new one. *)
Cut(s, t, m, item) ==
  /\ m \in 1 .. Len(s) + 1
  /\ t \in Seq(ToSet(t))
  /\ Len(t) = m
  /\ t[m] = item
  /\ \A i \in 1 .. m - 1 : t[i] = s[i]

LEMMA CutAppended ==
  ASSUME NEW S, NEW s \in Seq(S), NEW r \in Seq(S), NEW item, Len(r) <= Len(s),
         \A i \in 1 .. Len(r) : r[i] = s[i]
  PROVE  Cut(s, Append(r, item), Len(r) + 1, item)
<1> DEFINE T == S \cup {item}
           t == Append(r, item)
<1>1. r \in Seq(T) /\ item \in T /\ Len(r) \in Nat /\ Len(s) \in Nat
  BY SeqMonotonic, LenProperties
<1> HIDE DEF T
<1>2. /\ t \in Seq(T) /\ Len(t) = Len(r) + 1
      /\ t[Len(r) + 1] = item
      /\ \A i \in 1 .. Len(r) : t[i] = r[i]
  BY <1>1, AppendProperties
<1> HIDE DEF t
<1>3. t \in Seq(ToSet(t))
  BY <1>2, ItemsOfSeq
<1>4. Len(r) + 1 \in 1 .. Len(s) + 1 /\ Len(r) + 1 - 1 = Len(r)
  BY <1>1
<1>5. Cut(s, t, Len(r) + 1, item)
  BY <1>2, <1>3, <1>4 DEF Cut
<1> QED
  BY <1>5 DEF t

LEMMA PoppedFields ==
  ASSUME NEW S, NEW s \in Seq(S), NEW n \in Nat, n <= Len(s)
  PROVE  /\ SubSeq(s, 1, Len(s) - n) \in Seq(S)
         /\ Len(SubSeq(s, 1, Len(s) - n)) = Len(s) - n
         /\ \A i \in 1 .. Len(s) - n : SubSeq(s, 1, Len(s) - n)[i] = s[i]
<1> DEFINE m == Len(s) - n
<1>1. m \in Nat /\ 1 \in Int /\ m \in Int /\ m <= Len(s) /\ Len(s) \in Nat
  BY LenProperties
<1>2. \A i \in 1 .. m : s[i] \in S
  <2> HIDE DEF m
  <2> QED
    BY <1>1, ItemsOfSeq
<1> HIDE DEF m
<1>3. /\ SubSeq(s, 1, m) \in Seq(S)
      /\ Len(SubSeq(s, 1, m)) = IF 1 <= m THEN m - 1 + 1 ELSE 0
      /\ \A i \in 1 .. m - 1 + 1 : SubSeq(s, 1, m)[i] = s[1 + i - 1]
  BY <1>1, <1>2, SubSeqProperties
<1> QED
  BY <1>1, <1>3 DEF m

LEMMA CutPopped ==
  ASSUME NEW S, NEW s \in Seq(S), NEW n \in Nat, n <= Len(s), NEW item
  PROVE  Cut(s, Append(SubSeq(s, 1, Len(s) - n), item), Len(s) - n + 1, item)
<1> DEFINE r == SubSeq(s, 1, Len(s) - n)
<1>1. Len(s) \in Nat
  BY LenProperties
<1>2. r \in Seq(S) /\ Len(r) = Len(s) - n /\ \A i \in 1 .. Len(s) - n : r[i] = s[i]
  BY PoppedFields
<1> HIDE DEF r
<1>3. Len(r) <= Len(s)
  BY <1>1, <1>2
<1>4. Cut(s, Append(r, item), Len(r) + 1, item)
  BY <1>2, <1>3, CutAppended
<1> QED
  BY <1>2, <1>4 DEF r

LEMMA StackFields ==
  ASSUME NEW s, NEW g, StackOK(s, g)
  PROVE  /\ s \in Seq(ToSet(s)) /\ Len(s) \in Nat /\ DOMAIN s = 1 .. Len(s)
         /\ \A i \in 1 .. Len(s) : ItemOK(s[i], g)
BY ItemsOfSeq DEF StackOK

LEMMA ItemLater ==
  ASSUME NEW item, NEW g, NEW h, GenOK(g), GenOK(h), Later(g, h), ItemOK(item, g)
  PROVE  ItemOK(item, h)
<1>1. "e" \in DOMAIN item => ValueOK(item.e, h)
  BY ValueLater DEF ItemOK
<1>2. "es" \in DOMAIN item => PlainSeq(item.es, h)
  BY PlainLater DEF ItemOK, PlainSeq
<1>3. "pairs" \in DOMAIN item => PlainPairs(item.pairs, h)
  BY PlainLater DEF ItemOK, PlainPairs
<1>4. item.sym \in Logicals => item.next \in 1 .. Len(h.quads)
  <2>1. Len(g.quads) \in Nat /\ Len(h.quads) \in Nat /\ Len(g.quads) <= Len(h.quads)
    BY GenFields DEF Later
  <2> QED
    BY <2>1 DEF ItemOK
<1> QED
  BY <1>1, <1>2, <1>3, <1>4 DEF ItemOK

(* A list of elements stands where it may. *)
Following(s, m, item) ==
  item.sym = "tmp_elist" => m >= 3 /\ s[m - 1].sym = "expr" /\ s[m - 2].sym \in Openers

LEMMA CutStack ==
  ASSUME NEW s, NEW g, NEW t, NEW h, NEW m, NEW item, GenOK(g), GenOK(h), Later(g, h),
         StackOK(s, g), Cut(s, t, m, item), ItemOK(item, h), Following(s, m, item)
  PROVE  StackOK(t, h)
<1>1. Len(s) \in Nat /\ DOMAIN s = 1 .. Len(s) /\ \A i \in 1 .. Len(s) : ItemOK(s[i], g)
  BY StackFields
<1>2. /\ m \in 1 .. Len(s) + 1 /\ t \in Seq(ToSet(t)) /\ Len(t) = m /\ t[m] = item
      /\ \A i \in 1 .. m - 1 : t[i] = s[i]
  BY DEF Cut
<1>3. DOMAIN t = 1 .. m
  BY <1>2, ItemsOfSeq
<1>4. \A i \in 1 .. m : i = m \/ (i \in 1 .. m - 1 /\ i \in 1 .. Len(s))
  BY <1>1, <1>2
<1>5. \A i \in 1 .. m : ItemOK(t[i], h)
  <2> SUFFICES ASSUME NEW i \in 1 .. m PROVE ItemOK(t[i], h)
    OBVIOUS
  <2>1. CASE i = m
    BY <1>2, <2>1
  <2>2. CASE i \in 1 .. m - 1 /\ i \in 1 .. Len(s)
    BY <1>1, <1>2, <2>2, ItemLater
  <2> QED
    BY <1>4, <2>1, <2>2
<1>6. ASSUME NEW i \in 1 .. m, t[i].sym = "tmp_elist"
      PROVE  i >= 3 /\ t[i - 1].sym = "expr" /\ t[i - 2].sym \in Openers
  <2>1. i >= 3 /\ s[i - 1].sym = "expr" /\ s[i - 2].sym \in Openers
    <3>1. CASE i = m
      BY <1>2, <1>6, <3>1 DEF Following
    <3>2. CASE i \in 1 .. m - 1 /\ i \in 1 .. Len(s)
      BY <1>1, <1>2, <1>6, <3>2 DEF StackOK, ListsFollow
    <3> QED
      BY <1>4, <3>1, <3>2
  <2>2. i - 1 \in 1 .. m - 1 /\ i - 2 \in 1 .. m - 1
    BY <1>1, <1>2, <2>1
  <2> QED
    BY <1>2, <2>1, <2>2
<1> QED
  BY <1>2, <1>3, <1>5, <1>6 DEF StackOK, ListsFollow

(* The jumps that the items from m on keep. *)
KeptFrom(s, m) == UNION {Kept(s[i]) : i \in m .. Len(s)}

LEMMA CutBalance ==
  ASSUME NEW s, NEW g, NEW t, NEW h, NEW m, NEW item, StackOK(s, g), Balanced(s, g),
         Cut(s, t, m, item),
         Waiting(h.quads) = (Waiting(g.quads) \ KeptFrom(s, m)) \cup Kept(item),
         Kept(item) \cap (Waiting(g.quads) \ KeptFrom(s, m)) = {}
  PROVE  Balanced(t, h)
<1>1. Len(s) \in Nat /\ DOMAIN s = 1 .. Len(s)
  BY StackFields
<1>2. /\ m \in 1 .. Len(s) + 1 /\ t \in Seq(ToSet(t)) /\ Len(t) = m /\ t[m] = item
      /\ \A i \in 1 .. m - 1 : t[i] = s[i]
  BY DEF Cut
<1>3. DOMAIN t = 1 .. m
  BY <1>2, ItemsOfSeq
<1>4. \A i \in 1 .. m : i = m \/ (i \in 1 .. m - 1 /\ i \in 1 .. Len(s))
  BY <1>1, <1>2
<1>5. \A i \in 1 .. Len(s) : Kept(s[i]) \subseteq Waiting(g.quads)
  <2> SUFFICES ASSUME NEW i \in 1 .. Len(s), NEW n \in Kept(s[i]) PROVE n \in Waiting(g.quads)
    OBVIOUS
  <2>1. n \in Nat
    <3>1. ItemOK(s[i], g)
      BY StackFields
    <3> QED
      BY <3>1 DEF Kept, ItemOK, ValueOK, ExprSet
  <2> QED
    BY <1>1, <2>1 DEF Balanced
<1>6. ASSUME NEW i \in 1 .. m - 1, NEW n \in Kept(s[i])
      PROVE  n \in Waiting(g.quads) /\ n \notin KeptFrom(s, m)
  <2>1. i \in 1 .. Len(s)
    BY <1>1, <1>2
  <2>2. ASSUME NEW j \in m .. Len(s)
        PROVE  n \notin Kept(s[j])
    <3>1. j \in 1 .. Len(s) /\ i # j
      BY <1>1, <1>2
    <3> QED
      BY <1>1, <2>1, <3>1 DEF Balanced
  <2> QED
    BY <1>5, <2>1, <2>2 DEF KeptFrom
<1>7. \A i, j \in 1 .. m : i # j => Kept(t[i]) \cap Kept(t[j]) = {}
  <2> SUFFICES ASSUME NEW i \in 1 .. m, NEW j \in 1 .. m, i # j
               PROVE  Kept(t[i]) \cap Kept(t[j]) = {}
    OBVIOUS
  <2>1. CASE i \in 1 .. m - 1 /\ j \in 1 .. m - 1
    <3>1. i \in 1 .. Len(s) /\ j \in 1 .. Len(s)
      BY <1>1, <1>2, <2>1
    <3> QED
      BY <1>1, <1>2, <2>1, <3>1 DEF Balanced
  <2>2. CASE i = m /\ j \in 1 .. m - 1
    BY <1>2, <1>6, <2>2
  <2>3. CASE j = m /\ i \in 1 .. m - 1
    BY <1>2, <1>6, <2>3
  <2> QED
    BY <1>4, <2>1, <2>2, <2>3
<1>8. ASSUME NEW n \in Nat, n \in Waiting(h.quads)
      PROVE  \E i \in 1 .. m : n \in Kept(t[i])
  <2>1. CASE n \in Kept(item)
    BY <1>2, <1>4, <2>1
  <2>2. CASE n \in Waiting(g.quads) /\ n \notin KeptFrom(s, m)
    <3>1. PICK i \in 1 .. Len(s) : n \in Kept(s[i])
      BY <1>1, <2>2 DEF Balanced
    <3>2. ~(i \in m .. Len(s))
      BY <2>2, <3>1 DEF KeptFrom
    <3>3. i \in 1 .. m - 1 /\ i \in 1 .. m
      BY <1>1, <1>2, <3>2
    <3> QED
      BY <1>2, <3>1, <3>3
  <2> QED
    BY <1>8, <2>1, <2>2
<1>9. ASSUME NEW n \in Nat, NEW i \in 1 .. m, n \in Kept(t[i])
      PROVE  n \in Waiting(h.quads)
  <2>1. CASE i = m
    BY <1>2, <1>9, <2>1
  <2>2. CASE i \in 1 .. m - 1 /\ i \in 1 .. Len(s)
    BY <1>2, <1>6, <1>9, <2>2
  <2> QED
    BY <1>4, <2>1, <2>2
<1> QED
  BY <1>3, <1>7, <1>8, <1>9 DEF Balanced

-----------------------------------------------------------------------------
(* Steps of the parser.                                                    *)

LEMMA ValuesOK ==
  ASSUME NEW s, NEW g, StackOK(s, g), NEW e \in Exprs(s)
  PROVE  ValueOK(e, g)
<1>1. DOMAIN s = 1 .. Len(s) /\ \A i \in 1 .. Len(s) : ItemOK(s[i], g)
  BY StackFields
<1>2. PICK i \in 1 .. Len(s) : e \in Values(s[i]) \/ ("e" \in DOMAIN s[i] /\ e = s[i].e)
  <2>1. \A item \in ToSet(s) : \E i \in 1 .. Len(s) : item = s[i]
    BY <1>1 DEF ToSet
  <2> QED
    BY <2>1 DEF Exprs
<1> DEFINE item == s[i]
<1>3. ItemOK(item, g)
  BY <1>1
<1> HIDE DEF item
<1>4. CASE "e" \in DOMAIN item /\ e = item.e
  BY <1>3, <1>4 DEF ItemOK
<1>5. CASE e \in Values(item)
  <2>1. CASE "pairs" \in DOMAIN item
    <3>1. \A p \in ToSet(item.pairs) : ValueOK(p.key, g) /\ ValueOK(p.value, g)
      BY <1>3, <2>1 DEF ItemOK, PlainPairs, Plain, ToSet
    <3>2. "es" \notin DOMAIN item
      BY <1>3, <2>1 DEF ItemOK, Fields, Logicals, Infixes, Increments
    <3>3. Values(item) = UNION {{p.key, p.value} : p \in ToSet(item.pairs)}
      BY <2>1, <3>2 DEF Values
    <3>4. PICK pair \in {{p.key, p.value} : p \in ToSet(item.pairs)} : e \in pair
      BY <1>5, <3>3
    <3>5. PICK p \in ToSet(item.pairs) : pair = {p.key, p.value}
      BY <3>4
    <3> QED
      BY <3>1, <3>4, <3>5
  <2>2. CASE "pairs" \notin DOMAIN item /\ "es" \in DOMAIN item
    BY <1>3, <1>5, <2>2 DEF ItemOK, PlainSeq, Plain, ToSet, Values
  <2>3. CASE "pairs" \notin DOMAIN item /\ "es" \notin DOMAIN item
    BY <1>5, <2>3 DEF Values
  <2> QED
    BY <2>1, <2>2, <2>3
<1> QED
  BY <1>2, <1>4, <1>5 DEF item

(* A hidden variable in use is handed out only after a function.           *)
LEMMA RecycledAfterFunction ==
  ASSUME NEW h, GenOK(gen), StackOK(stack, gen), Later(gen, h), Recycles(h)
  PROVE  Defines(h)
<1>1. PICK n \in gen.count .. h.count - 1 : \E e \in Exprs(stack) : Hidden(n) \in {e.place, e.index}
  BY DEF Recycles
<1>2. PICK e \in Exprs(stack) : Hidden(n) \in {e.place, e.index}
  BY <1>1
<1>3. Taken(Hidden(n), gen)
  BY <1>2, ValuesOK DEF ValueOK
<1>4. gen.count \in Nat
  BY GenFields
<1>5. n \in Nat /\ ~(n < gen.count)
  BY <1>4
<1>6. Defines(gen)
  BY <1>3, <1>5 DEF Taken
<1> QED
  BY <1>6 DEF Later

(* The jumps that the n items on top keep. *)
KeptOn(n) == KeptFrom(stack, Len(stack) - n + 1)

(* The n items on top may be replaced by one while the code becomes h's. *)
Fits(n, h, item) ==
  /\ n \in 0 .. Len(stack)
  /\ GenOK(h)
  /\ Later(gen, h)
  /\ ItemOK(item, h)
  /\ Following(stack, Len(stack) - n + 1, item)
  /\ Waiting(h.quads) = (Waiting(gen.quads) \ KeptOn(n)) \cup Kept(item)
  /\ Kept(item) \cap (Waiting(gen.quads) \ KeptOn(n)) = {}

LEMMA Replaced ==
  ASSUME IInv, outcome = "parsing", NEW n, NEW h, NEW item, Fits(n, h, item), NEW t,
         Cut(stack, t, Len(stack) - n + 1, item)
  PROVE  StackOK(t, h) /\ Balanced(t, h)
<1> DEFINE m == Len(stack) - n + 1
<1>1. /\ GenOK(gen) /\ StackOK(stack, gen) /\ Balanced(stack, gen) /\ GenOK(h) /\ Later(gen, h)
      /\ ItemOK(item, h) /\ Following(stack, m, item) /\ Cut(stack, t, m, item)
      /\ Waiting(h.quads) = (Waiting(gen.quads) \ KeptFrom(stack, m)) \cup Kept(item)
      /\ Kept(item) \cap (Waiting(gen.quads) \ KeptFrom(stack, m)) = {}
  BY DEF IInv, Fits, KeptOn
<1> HIDE DEF m
<1>2. StackOK(t, h)
  BY <1>1, CutStack
<1>3. Balanced(t, h)
  BY <1>1, CutBalance
<1> QED
  BY <1>2, <1>3

LEMMA StackCut ==
  ASSUME IInv, NEW n \in 0 .. Len(stack), NEW item
  PROVE  /\ Cut(stack, Append(Popped(n), item), Len(stack) - n + 1, item)
         /\ n = 0 => Cut(stack, Append(stack, item), Len(stack) - n + 1, item)
<1>1. stack \in Seq(ToSet(stack)) /\ Len(stack) \in Nat
  BY StackFields DEF IInv
<1>2. n \in Nat /\ n <= Len(stack)
  BY <1>1
<1>3. Cut(stack, Append(Popped(n), item), Len(stack) - n + 1, item)
  BY <1>1, <1>2, CutPopped DEF Popped
<1>4. Cut(stack, Append(stack, item), Len(stack) + 1, item)
  BY <1>1, CutAppended
<1> QED
  BY <1>1, <1>3, <1>4

Situations == {"recycled", "late_argument", "late_index", "late_key"}

LEMMA HazardsKept ==
  ASSUME IInv, NEW n, NEW h, NEW item, Fits(n, h, item), NEW t,
         NEW late \in SUBSET (Situations \ {"recycled"}), BecomePatching(h, t, late)
  PROVE  hazards' \subseteq Situations /\ ("recycled" \in hazards' => Defines(h))
<1>1. GenOK(gen) /\ StackOK(stack, gen) /\ Later(gen, h) /\ GenOK(h)
  BY DEF IInv, Fits
<1>2. hazards' = hazards \cup late \cup IF Recycles(h) THEN {"recycled"} ELSE {}
  BY DEF BecomePatching
<1>3. hazards' \subseteq Situations
  BY <1>2 DEF Situations, IInv
<1>4. CASE Recycles(h)
  BY <1>1, <1>3, <1>4, RecycledAfterFunction
<1>5. CASE ~Recycles(h)
  BY <1>1, <1>2, <1>3, <1>5 DEF Later, IInv
<1> QED
  BY <1>4, <1>5

(* What a step leaves when it does not end the statement. *)
LEMMA Stepped ==
  ASSUME IInv, outcome = "parsing", NEW n, NEW h, NEW item, Fits(n, h, item), NEW t,
         Cut(stack, t, Len(stack) - n + 1, item), NEW late \in SUBSET (Situations \ {"recycled"}),
         BecomePatching(h, t, late), tokens' \in 0 .. fragment.MaxTokens, UNCHANGED outcome
  PROVE  IInv'
<1>1. StackOK(t, h) /\ Balanced(t, h)
  BY Replaced
<1>2. gen' = h /\ stack' = t /\ fragment' = fragment /\ GenOK(h)
  BY DEF BecomePatching, Fits
<1>3. hazards' \subseteq Situations /\ ("recycled" \in hazards' => Defines(h))
  BY HazardsKept
<1> QED
  BY <1>1, <1>2, <1>3 DEF IInv, Situations

LEMMA BecomeStep ==
  ASSUME IInv, outcome = "parsing", NEW n, NEW h, NEW item, Fits(n, h, item),
         NEW late \in SUBSET (Situations \ {"recycled"}),
         BecomePatching(h, Append(Popped(n), item), late),
         tokens' \in 0 .. fragment.MaxTokens, UNCHANGED outcome
  PROVE  IInv'
<1>1. n \in 0 .. Len(stack)
  BY DEF Fits
<1> QED
  BY <1>1, StackCut, Stepped

LEMMA ShiftStep ==
  ASSUME IInv, outcome = "parsing", NEW item, Fits(0, gen, item), Shift(item),
         tokens' \in 0 .. fragment.MaxTokens, UNCHANGED outcome
  PROVE  IInv'
<1>1. Cut(stack, Append(stack, item), Len(stack) - 0 + 1, item)
  BY StackCut DEF Fits
<1>2. BecomePatching(gen, Append(stack, item), {}) /\ {} \in SUBSET (Situations \ {"recycled"})
  BY DEF Shift, Become
<1> QED
  BY <1>1, <1>2, Stepped

LEMMA RefuseStep ==
  ASSUME IInv, NEW n \in 0 .. Len(stack), NEW ast,
         NEW error \in {"semantic_error", "numeric_error", "syntax_error"}, Refuse(error, n, ast),
         tokens' \in 0 .. fragment.MaxTokens
  PROVE  IInv'
<1> DEFINE item == [sym |-> "refused", ast |-> ast]
           t    == Append(Popped(n), item)
<1>1. Cut(stack, t, Len(stack) - n + 1, item)
  BY StackCut
<1>2. ItemOK(item, gen) /\ item.sym # "tmp_elist"
  BY RefusedItem
<1>3. stack' = t /\ outcome' = error /\ UNCHANGED <<fragment, gen, hazards>>
  BY DEF Refuse
<1> HIDE DEF item, t
<1>4. StackOK(t, gen)
  BY <1>1, <1>2, CutStack, LaterReflexive DEF IInv, Following
<1>5. StackOK(stack', gen') /\ GenOK(gen')
  BY <1>3, <1>4 DEF IInv
<1> QED
  BY <1>3, <1>4 DEF IInv

-----------------------------------------------------------------------------
(* The items on top.                                                       *)

LEMMA KeptOnTop ==
  ASSUME Len(stack) \in Nat
  PROVE  /\ KeptOn(0) = {}
         /\ Len(stack) >= 1 => KeptOn(1) = Kept(Top)
         /\ Len(stack) >= 2 => KeptOn(2) = Kept(Below) \cup Kept(Top)
         /\ Len(stack) >= 3 => KeptOn(3) = Kept(stack[Len(stack) - 2]) \cup Kept(Below) \cup Kept(Top)
<1>1. PICK d \in Nat : d = Len(stack)
  OBVIOUS
<1>2. \A n \in 0 .. 3 : \A x : x \in KeptOn(n) <=> \E i \in d - n + 1 .. d : x \in Kept(stack[i])
  BY <1>1 DEF KeptOn, KeptFrom
<1>3. Top = stack[d] /\ Below = stack[d - 1] /\ stack[Len(stack) - 2] = stack[d - 2]
  BY <1>1 DEF Top, Below
<1>4. /\ d - 0 + 1 .. d = {}
      /\ d - 1 + 1 .. d = {d}
      /\ d - 2 + 1 .. d = {d - 1, d}
      /\ d - 3 + 1 .. d = {d - 2, d - 1, d}
  OBVIOUS
<1>5. 0 \in 0 .. 3 /\ 1 \in 0 .. 3 /\ 2 \in 0 .. 3 /\ 3 \in 0 .. 3
  OBVIOUS
<1>6. KeptOn(0) = {}
  BY <1>2, <1>4, <1>5
<1>7. KeptOn(1) = Kept(stack[d])
  BY <1>2, <1>4, <1>5
<1>8. \A x : x \in KeptOn(2) <=> \E i \in {d - 1, d} : x \in Kept(stack[i])
  BY <1>2, <1>4, <1>5
<1>9. \A x : x \in KeptOn(3) <=> \E i \in {d - 2, d - 1, d} : x \in Kept(stack[i])
  BY <1>2, <1>4, <1>5
<1>10. KeptOn(2) = Kept(stack[d - 1]) \cup Kept(stack[d])
  BY <1>8
<1>11. KeptOn(3) = Kept(stack[d - 2]) \cup Kept(stack[d - 1]) \cup Kept(stack[d])
  BY <1>9
<1> QED
  BY <1>3, <1>6, <1>7, <1>10, <1>11

(* While the parser is at work, what an item keeps waits, and no other     *)
(* item keeps it.                                                          *)
LEMMA TopItem ==
  ASSUME IInv, outcome = "parsing", stack # << >>
  PROVE  /\ Len(stack) \in Nat /\ Len(stack) >= 1
         /\ ItemOK(Top, gen)
         /\ Kept(Top) \subseteq Waiting(gen.quads)
         /\ KeptOn(1) = Kept(Top)
<1>1. stack \in Seq(ToSet(stack)) /\ Len(stack) \in Nat /\ DOMAIN stack = 1 .. Len(stack)
      /\ \A i \in 1 .. Len(stack) : ItemOK(stack[i], gen)
  BY StackFields DEF IInv
<1>2. Len(stack) >= 1
  BY <1>1, EmptySeq
<1>3. Len(stack) \in 1 .. Len(stack)
  BY <1>1, <1>2
<1>4. ItemOK(Top, gen)
  BY <1>1, <1>3 DEF Top
<1>5. \A n \in Kept(Top) : n \in Nat
  BY <1>4 DEF Kept, ItemOK, ValueOK, ExprSet
<1>6. Kept(Top) \subseteq Waiting(gen.quads)
  BY <1>1, <1>3, <1>5 DEF IInv, Balanced, Top
<1> QED
  BY <1>1, <1>2, <1>4, <1>6, KeptOnTop

LEMMA BelowItem ==
  ASSUME IInv, outcome = "parsing", NEW sym, Under(sym), sym # "bottom"
  PROVE  /\ Len(stack) \in Nat /\ Len(stack) >= 2 /\ stack # << >>
         /\ ItemOK(Below, gen)
         /\ Below.sym = sym
         /\ Kept(Below) \subseteq Waiting(gen.quads)
         /\ Kept(Below) \cap Kept(Top) = {}
         /\ KeptOn(2) = Kept(Below) \cup Kept(Top)
<1>1. stack \in Seq(ToSet(stack)) /\ Len(stack) \in Nat /\ DOMAIN stack = 1 .. Len(stack)
      /\ \A i \in 1 .. Len(stack) : ItemOK(stack[i], gen)
  BY StackFields DEF IInv
<1>2. Len(stack) > 1 /\ Below.sym = sym
  BY DEF Under, BelowSym
<1>3. Len(stack) - 1 \in 1 .. Len(stack) /\ Len(stack) \in 1 .. Len(stack) /\ Len(stack) - 1 # Len(stack)
  <2>1. Len(stack) \in Nat /\ Len(stack) > 1
    BY <1>1, <1>2
  <2> QED
    BY <2>1
<1>4. ItemOK(Below, gen)
  BY <1>1, <1>3 DEF Below
<1>5. \A n \in Kept(Below) : n \in Nat
  BY <1>4 DEF Kept, ItemOK, ValueOK, ExprSet
<1>6. Kept(Below) \subseteq Waiting(gen.quads) /\ Kept(Below) \cap Kept(Top) = {}
  BY <1>1, <1>3, <1>5 DEF IInv, Balanced, Below, Top
<1>7. Len(stack) >= 2
  BY <1>1, <1>2
<1>8. stack # << >>
  BY <1>1, <1>2, EmptySeq
<1> QED
  BY <1>1, <1>2, <1>4, <1>6, <1>7, <1>8, KeptOnTop

-----------------------------------------------------------------------------
(* Items that fit.                                                         *)

LEMMA ResultFollows ==
  ASSUME NEW n \in 0 .. Len(stack), NEW r, Result(gen, KeptOn(n), r), NEW item,
         ItemOK(item, r.gen), Kept(item) = Lists(r.e), Following(stack, Len(stack) - n + 1, item)
  PROVE  Fits(n, r.gen, item)
BY DEF Result, Fits

LEMMA ResultFits ==
  ASSUME NEW n \in 0 .. Len(stack), NEW r, Result(gen, KeptOn(n), r), NEW item,
         ItemOK(item, r.gen), Kept(item) = Lists(r.e), item.sym # "tmp_elist"
  PROVE  Fits(n, r.gen, item)
BY ResultFollows DEF Following

LEMMA KeepsFits ==
  ASSUME NEW n \in 0 .. Len(stack), NEW h, Keeps(gen, h), KeptOn(n) = {}, NEW item,
         ItemOK(item, h), Kept(item) = {}, Following(stack, Len(stack) - n + 1, item)
  PROVE  Fits(n, h, item)
BY DEF Keeps, Fits

LEMMA PlainFits ==
  ASSUME NEW n \in 0 .. Len(stack), NEW h, Keeps(gen, h), KeptOn(n) = {}, NEW e, NEW ast, Plain(e, h)
  PROVE  Fits(n, h, Item(e, ast))
<1>1. ItemOK(Item(e, ast), h) /\ Kept(Item(e, ast)) = {} /\ Item(e, ast).sym = "expr"
  BY PlainHoldable, ExprItem, PlainFields
<1> QED
  BY <1>1, KeepsFits DEF Following

LEMMA ValueFits ==
  ASSUME NEW n \in 0 .. Len(stack), NEW r, NEW ast, Result(gen, KeptOn(n), r), Holdable(r.e, ast, r.gen)
  PROVE  Fits(n, r.gen, Item(r.e, ast))
<1>1. ItemOK(Item(r.e, ast), r.gen) /\ Kept(Item(r.e, ast)) = Lists(r.e) /\ Item(r.e, ast).sym = "expr"
  BY ExprItem
<1> QED
  BY <1>1, ResultFits

LEMMA PushFits ==
  ASSUME IInv, NEW item, ItemOK(item, gen), Kept(item) = {}, item.sym # "tmp_elist"
  PROVE  Fits(0, gen, item)
<1>1. GenOK(gen) /\ Len(stack) \in Nat
  BY StackFields DEF IInv
<1>2. KeptOn(0) = {} /\ 0 \in 0 .. Len(stack)
  BY <1>1, KeptOnTop
<1> QED
  BY <1>1, <1>2, KeepsReflexive, KeepsFits DEF Following

(* What is called, assigned to or has members. *)
LEMMA TableFits ==
  ASSUME NEW n \in 0 .. Len(stack), NEW h, Keeps(gen, h), KeptOn(n) = {}, NEW item,
         item.sym \in Tables, DOMAIN item = Fields(item.sym), Plain(item.e, h),
         item.sym = "method" => item.name \in MemberNames
  PROVE  Fits(n, h, item)
<1>1. ItemOK(item, h) /\ Kept(item) = {} /\ item.sym # "tmp_elist"
  BY PlainItem DEF Tables
<1> QED
  BY <1>1, KeepsFits DEF Following

LEMMA TableFields == \A sym \in {"lvalue", "=", "call", "index"} : sym \in Tables /\ Fields(sym) = {"sym", "e", "ast"}
BY DEF Tables, Fields, Logicals, Infixes, Increments

LEMMA TokensKept ==
  ASSUME IInv
  PROVE  /\ Read => tokens' \in 0 .. fragment.MaxTokens
         /\ UNCHANGED tokens => tokens' \in 0 .. fragment.MaxTokens
<1>1. tokens \in 0 .. fragment.MaxTokens /\ fragment.MaxTokens \in Nat
  BY ShortCircuitAssumption DEF IInv
<1> QED
  BY <1>1 DEF Read

LEMMA TopSymbol ==
  ASSUME NEW sym, TopSym = sym, sym # "bottom"
  PROVE  stack # << >> /\ Top.sym = sym
BY DEF TopSym

(* The expression on top. *)
LEMMA ExprOnTop ==
  ASSUME IInv, HasExpr
  PROVE  /\ outcome = "parsing"
         /\ GenOK(gen) /\ Len(stack) \in Nat /\ 1 \in 0 .. Len(stack)
         /\ Top.sym = "expr" /\ ItemOK(Top, gen)
         /\ ValueOK(Top.e, gen) /\ Settled(Top.e)
         /\ Lists(Top.e) \subseteq Waiting(gen.quads)
         /\ Kept(Top) = Lists(Top.e) /\ KeptOn(1) = Lists(Top.e)
<1>1. outcome = "parsing" /\ TopSym = "expr"
  BY DEF HasExpr, Parsing
<1>2. stack # << >> /\ Top.sym = "expr"
  BY <1>1, TopSymbol
<1>3. Len(stack) \in Nat /\ Len(stack) >= 1 /\ ItemOK(Top, gen) /\ Kept(Top) \subseteq Waiting(gen.quads)
      /\ KeptOn(1) = Kept(Top)
  BY <1>1, <1>2, TopItem
<1>4. ValueOK(Top.e, gen) /\ Settled(Top.e) /\ Kept(Top) = Lists(Top.e)
  BY <1>2, <1>3, ItemFields
<1> QED
  BY <1>1, <1>2, <1>3, <1>4 DEF IInv

(* What has members or may be called stands on top, and has a place. *)
LEMMA TableOnTop ==
  ASSUME IInv, HasLValue \/ HasCall \/ (Parsing /\ TopSym = "expr" /\ Top.e.type = "PROGRAM_FUNC_E")
  PROVE  /\ outcome = "parsing"
         /\ GenOK(gen) /\ Len(stack) \in Nat /\ 1 \in 0 .. Len(stack)
         /\ Top.sym \in {"expr", "lvalue"} /\ ItemOK(Top, gen)
         /\ Plain(Top.e, gen) /\ Kept(Top) = {} /\ KeptOn(1) = {}
<1>1. outcome = "parsing" /\ TopSym \in {"expr", "lvalue"}
  BY DEF HasLValue, HasCall, Parsing
<1>2. stack # << >> /\ Top.sym = TopSym
  BY <1>1, TopSymbol
<1>3. Len(stack) \in Nat /\ Len(stack) >= 1 /\ ItemOK(Top, gen) /\ KeptOn(1) = Kept(Top)
  BY <1>1, <1>2, TopItem
<1>4. Plain(Top.e, gen) /\ Kept(Top) = {}
  <2>1. CASE Top.sym = "lvalue"
    BY <1>3, <2>1, ItemFields DEF Tables
  <2>2. CASE Top.sym = "expr"
    <3>1. Top.e.type # "BOOL_E"
      BY <1>2, <1>3, <2>2 DEF HasLValue, HasCall, ItemOK
    <3>2. ValueOK(Top.e, gen) /\ Settled(Top.e) /\ Kept(Top) = Lists(Top.e)
      BY <1>3, <2>2, ItemFields
    <3> QED
      BY <3>1, <3>2 DEF Plain, Settled, MustBePatched, Lists
  <2> QED
    BY <1>1, <1>2, <2>1, <2>2
<1> QED
  BY <1>1, <1>2, <1>3, <1>4 DEF IInv

-----------------------------------------------------------------------------
(* Every action keeps the invariant.                                       *)

LEMMA IdentifierKeeps ==
  ASSUME IInv, NEW place, Plain(LValueExpr(place), gen), Identifier(place)
  PROVE  IInv'
<1> DEFINE item == LValue(LValueExpr(place), LeafNode(place))
<1>1. outcome = "parsing" /\ Read /\ Shift(item) /\ UNCHANGED outcome
  BY DEF Identifier, NeedsLeaf, Parsing
<1>2. item.sym = "lvalue" /\ DOMAIN item = {"sym", "e", "ast"} /\ item.e = LValueExpr(place)
  BY DEF LValue
<1> HIDE DEF item
<1>3. ItemOK(item, gen) /\ Kept(item) = {} /\ item.sym # "tmp_elist"
  BY <1>2, PlainItem, TableFields
<1> QED
  BY <1>1, <1>3, PushFits, ShiftStep, TokensKept

LEMMA NamePlain ==
  ASSUME IInv
  PROVE  /\ \A v \in fragment.names : Plain(LValueExpr(Var(v)), gen)
         /\ \A f \in fragment.functions : Plain(LValueExpr(Const(f)), gen)
<1>1. fragment \in Fragments /\ GenOK(gen)
  BY DEF IInv
<1>2. fragment.names \subseteq Variables /\ fragment.functions \subseteq Memcell
  BY <1>1, ShortCircuitAssumption
<1>3. ASSUME NEW v \in fragment.names
      PROVE  Plain(LValueExpr(Var(v)), gen)
  <2>1. Var(v) \in Places \ {None} /\ Taken(Var(v), gen)
    BY <1>2, PlaceFacts DEF Taken
  <2>2. LValueExpr(Var(v)) = Expr("VAR_E", Var(v))
    BY DEF LValueExpr, Var
  <2>3. "VAR_E" \in ExprTypes \ {"BOOL_E", "TABLE_ITEM_E", "CONST_NUM_E"}
    BY DEF ExprTypes
  <2> QED
    BY <1>1, <2>1, <2>2, <2>3, ExprPlain
<1>4. ASSUME NEW f \in fragment.functions
      PROVE  Plain(LValueExpr(Const(f)), gen)
  <2>1. Const(f) \in Places \ {None} /\ Taken(Const(f), gen)
    BY <1>2, PlaceFacts DEF Taken
  <2>2. LValueExpr(Const(f)) = Expr("LIBRARY_FUNC_E", Const(f))
    BY DEF LValueExpr, Const
  <2>3. "LIBRARY_FUNC_E" \in ExprTypes \ {"BOOL_E", "TABLE_ITEM_E", "CONST_NUM_E"}
    BY DEF ExprTypes
  <2> QED
    BY <1>1, <2>1, <2>2, <2>3, ExprPlain
<1> QED
  BY <1>3, <1>4

LEMMA PrimaryKeeps ==
  ASSUME IInv, Primary
  PROVE  IInv'
<1> DEFINE value == EmitIfTableItem(gen, Top.e)
<1>1. HasLValue /\ Become(value.gen, Append(Popped(1), Item(value.e, Top.ast))) /\ UNCHANGED <<tokens, outcome>>
  BY DEF Primary, BareLValue
<1>2. outcome = "parsing" /\ GenOK(gen) /\ 1 \in 0 .. Len(stack) /\ Plain(Top.e, gen) /\ KeptOn(1) = {}
  BY <1>1, TableOnTop
<1>3. Keeps(gen, value.gen) /\ Plain(value.e, value.gen)
  BY <1>2, IfTableItemResult
<1> HIDE DEF value
<1>4. Fits(1, value.gen, Item(value.e, Top.ast))
  BY <1>2, <1>3, PlainFits
<1>5. BecomePatching(value.gen, Append(Popped(1), Item(value.e, Top.ast)), {})
      /\ {} \in SUBSET (Situations \ {"recycled"})
  BY <1>1 DEF Become
<1> QED
  BY <1>1, <1>2, <1>4, <1>5, BecomeStep, TokensKept

LEMMA ConstantKeeps ==
  ASSUME IInv, NEW c \in fragment.literals, Constant(c)
  PROVE  IInv'
<1> DEFINE item == Item(ConstExpr(c), LeafNode(Const(c)))
<1>1. outcome = "parsing" /\ Read /\ Shift(item) /\ UNCHANGED outcome
  BY DEF Constant, NeedsExpr, NeedsLeaf, Parsing
<1>2. GenOK(gen) /\ fragment \in Fragments
  BY DEF IInv
<1>3. c \in Memcell /\ c.type \in {"number", "boolean", "string", "nil"}
  BY <1>2, ShortCircuitAssumption
<1>4. Plain(ConstExpr(c), gen)
  BY <1>2, <1>3, ConstPlain
<1>5. ItemOK(item, gen) /\ Kept(item) = {} /\ item.sym = "expr"
  BY <1>4, PlainHoldable, ExprItem, PlainFields
<1> HIDE DEF item
<1> QED
  BY <1>1, <1>5, PushFits, ShiftStep, TokensKept

LEMMA FuncDefActionKeeps ==
  ASSUME IInv, FuncDef
  PROVE  IInv'
<1> DEFINE func == Const(UserFunc(Len(gen.quads)))
           h    == [EmitQuads(gen, <<Quad("funcstart", None, func, None), Quad("funcend", None, func, None)>>)
                      EXCEPT !.count = 0]
           item == Item(Expr("PROGRAM_FUNC_E", func), LeafNode(func))
<1>1. outcome = "parsing" /\ Read /\ Become(h, Append(stack, item)) /\ UNCHANGED outcome
  BY DEF FuncDef, NeedsLeaf, Parsing, NextQuadLabel
<1>2. GenOK(gen) /\ Len(stack) \in Nat
  BY StackFields DEF IInv
<1>3. Keeps(gen, h) /\ Plain(Expr("PROGRAM_FUNC_E", func), h)
  BY <1>2, FuncDefKeeps
<1> HIDE DEF h, func
<1>4. KeptOn(0) = {} /\ 0 \in 0 .. Len(stack)
  BY <1>2, KeptOnTop
<1>5. Fits(0, h, item)
  BY <1>3, <1>4, PlainFits
<1> HIDE DEF item
<1>6. Cut(stack, Append(stack, item), Len(stack) - 0 + 1, item)
  BY <1>4, StackCut
<1>7. BecomePatching(h, Append(stack, item), {}) /\ {} \in SUBSET (Situations \ {"recycled"})
  BY <1>1 DEF Become
<1> QED
  BY <1>1, <1>5, <1>6, <1>7, Stepped, TokensKept

LEMMA ReplaceStep ==
  ASSUME IInv, outcome = "parsing", NEW n, NEW h, NEW item, Fits(n, h, item),
         Become(h, Append(Popped(n), item)), Read \/ UNCHANGED tokens, UNCHANGED outcome
  PROVE  IInv'
<1>1. BecomePatching(h, Append(Popped(n), item), {}) /\ {} \in SUBSET (Situations \ {"recycled"})
  BY DEF Become
<1> QED
  BY <1>1, BecomeStep, TokensKept

(* An expression on top of another symbol. *)
LEMMA ExprUnder ==
  ASSUME IInv, HasExpr, NEW sym, Under(sym), sym # "bottom"
  PROVE  /\ 2 \in 0 .. Len(stack)
         /\ ItemOK(Below, gen) /\ Below.sym = sym
         /\ Kept(Below) \subseteq Waiting(gen.quads)
         /\ Kept(Below) \cap Lists(Top.e) = {}
         /\ KeptOn(2) = Kept(Below) \cup Lists(Top.e)
<1>1. outcome = "parsing" /\ Kept(Top) = Lists(Top.e)
  BY ExprOnTop
<1>2. Len(stack) \in Nat /\ Len(stack) >= 2
  BY <1>1, BelowItem
<1> QED
  BY <1>1, <1>2, BelowItem

LEMMA Participant ==
  ASSUME NEW e, NEW g, ValueOK(e, g), Settled(e), CanParticipate(e)
  PROVE  Plain(e, g) /\ Lists(e) = {}
BY DEF Plain, Settled, CanParticipate, MustBePatched, Lists

LEMMA KeptResult ==
  ASSUME NEW g, NEW r, Keeps(g, r.gen), Plain(r.e, r.gen)
  PROVE  Result(g, {}, r)
<1>1. Lists(r.e) = {}
  BY PlainFields
<1> QED
  BY <1>1 DEF Result, Keeps, Plain

LEMMA SameResult ==
  ASSUME NEW g, NEW e, GenOK(g), ValueOK(e, g), Lists(e) \subseteq Waiting(g.quads)
  PROVE  Result(g, Lists(e), With(g, e)) /\ With(g, e).gen = g /\ With(g, e).e = e
<1>1. With(g, e).gen = g /\ With(g, e).e = e
  BY DEF With
<1> QED
  BY <1>1, LaterReflexive DEF Result

LEMMA UnaryKeeps ==
  ASSUME IInv, NEW op \in {"not", "uminus", "object"} \cup Increments, Read, Shift([sym |-> op]),
         outcome = "parsing", UNCHANGED outcome
  PROVE  IInv'
<1> DEFINE item == [sym |-> op]
<1>1. ItemOK(item, gen) /\ Kept(item) = {} /\ item.sym = op
  BY TokenItem
<1>2. item.sym # "tmp_elist"
  BY <1>1 DEF Increments
<1>3. Shift(item)
  OBVIOUS
<1> HIDE DEF item
<1> QED
  BY <1>1, <1>2, <1>3, PushFits, ShiftStep, TokensKept

LEMMA AssignKeeps ==
  ASSUME IInv, Assign
  PROVE  IInv'
<1> DEFINE item == [Top EXCEPT !.sym = "="]
<1>1. HasLValue /\ Become(gen, Append(Popped(1), item)) /\ UNCHANGED <<tokens, outcome>>
  BY DEF Assign, BareLValue
<1>2. outcome = "parsing" /\ GenOK(gen) /\ 1 \in 0 .. Len(stack) /\ Plain(Top.e, gen) /\ KeptOn(1) = {}
      /\ ItemOK(Top, gen)
  BY <1>1, TableOnTop
<1>3. Top.sym = "lvalue"
  BY <1>1, TopSymbol DEF HasLValue
<1>4. DOMAIN Top = {"sym", "e", "ast"}
  BY <1>2, <1>3, TableFields DEF ItemOK
<1>5. item.sym = "=" /\ DOMAIN item = {"sym", "e", "ast"} /\ item.e = Top.e
  BY <1>4
<1> HIDE DEF item
<1>6. Fits(1, gen, item)
  BY <1>2, <1>5, TableFits, TableFields, KeepsReflexive
<1> QED
  BY <1>1, <1>2, <1>6, ReplaceStep

LEMMA CallOpenKeeps ==
  ASSUME IInv, CallOpen
  PROVE  IInv'
<1> DEFINE item == [sym |-> "call", e |-> Top.e, ast |-> Top.ast]
<1>1. Callable /\ Read /\ Become(gen, Append(Popped(1), item)) /\ UNCHANGED outcome
  BY DEF CallOpen
<1>2. outcome = "parsing" /\ GenOK(gen) /\ 1 \in 0 .. Len(stack) /\ Plain(Top.e, gen) /\ KeptOn(1) = {}
  BY <1>1, TableOnTop DEF Callable
<1>3. item.sym = "call" /\ DOMAIN item = {"sym", "e", "ast"} /\ item.e = Top.e
  OBVIOUS
<1> HIDE DEF item
<1>4. Fits(1, gen, item)
  BY <1>2, <1>3, TableFits, TableFields, KeepsReflexive
<1> QED
  BY <1>1, <1>2, <1>4, ReplaceStep

LEMMA Operators ==
  /\ \A op \in DOMAIN Opcode : op \in Infixes /\ op # "bottom" /\ op \notin Logicals
  /\ \A op \in {"+", "-", "*", "/", "%"} : op \in DOMAIN Opcode /\ Opcode[op] \in ArithmOps
  /\ \A op \in {"<", "<=", ">", ">="} \cup Equality :
       op \in DOMAIN Opcode /\ Opcode[op] \in Jumps \ {"jump"}
  /\ \A op \in DOMAIN Opcode \cup Logicals : op \notin {"call", "method", "tmp_elist"}
BY DEF Opcode, Infixes, Logicals, ArithmOps, Jumps, Equality

LEMMA InfixKeeps ==
  ASSUME IInv, NEW op \in DOMAIN Opcode \ Equality, Infix(op)
  PROVE  IInv'
<1> DEFINE item == Prefix(op, Top.e, Top.ast, 0)
<1>1. HasExpr /\ Read /\ Become(gen, Append(Popped(1), item)) /\ UNCHANGED outcome
  BY DEF Infix
<1>2. outcome = "parsing" /\ GenOK(gen) /\ 1 \in 0 .. Len(stack) /\ ValueOK(Top.e, gen) /\ Settled(Top.e)
      /\ Lists(Top.e) \subseteq Waiting(gen.quads) /\ KeptOn(1) = Lists(Top.e)
  BY <1>1, ExprOnTop
<1>3. op \in Infixes /\ op \notin Logicals /\ op # "tmp_elist" /\ op \notin {"==", "!="}
  BY Operators DEF Equality
<1>4. ItemOK(item, gen) /\ Kept(item) = Lists(Top.e) /\ item.sym = op
  BY <1>2, <1>3, InfixItem
<1> HIDE DEF item
<1>5. Fits(1, gen, item)
  BY <1>2, <1>3, <1>4, SameResult, ResultFits
<1> QED
  BY <1>1, <1>2, <1>5, ReplaceStep

LEMMA EqualityPrefixKeeps ==
  ASSUME IInv, NEW op \in Equality, EqualityPrefix(op)
  PROVE  IInv'
<1> DEFINE left == PatchPossible(gen, Top.e)
           item == Prefix(op, left.e, Top.ast, 0)
<1>1. HasExpr /\ Read /\ Become(left.gen, Append(Popped(1), item)) /\ UNCHANGED outcome
  BY DEF EqualityPrefix
<1>2. outcome = "parsing" /\ GenOK(gen) /\ 1 \in 0 .. Len(stack) /\ ValueOK(Top.e, gen) /\ Settled(Top.e)
      /\ Lists(Top.e) \subseteq Waiting(gen.quads) /\ KeptOn(1) = Lists(Top.e)
  BY <1>1, ExprOnTop
<1>3. Result(gen, Lists(Top.e), left) /\ Plain(left.e, left.gen)
  BY <1>2, PatchResult
<1>4. op \in Infixes /\ op \notin Logicals /\ op # "tmp_elist"
  BY Operators DEF Equality
<1> HIDE DEF left
<1>5. ValueOK(left.e, left.gen) /\ Settled(left.e) /\ left.e.type # "BOOL_E"
  BY <1>3, PlainFields DEF Plain
<1>6. ItemOK(item, left.gen) /\ Kept(item) = Lists(left.e) /\ item.sym = op
  BY <1>4, <1>5, InfixItem
<1> HIDE DEF item
<1>7. Fits(1, left.gen, item)
  BY <1>2, <1>3, <1>4, <1>6, ResultFits
<1> QED
  BY <1>1, <1>2, <1>7, ReplaceStep

LEMMA LogicalPrefixKeeps ==
  ASSUME IInv, NEW op \in Logicals, LogicalPrefix(op)
  PROVE  IInv'
<1> DEFINE left == ConvertToBool(gen, Top.e)
           item == Prefix(op, left.e, Top.ast, Len(left.gen.quads))
<1>1. HasExpr /\ Read /\ Become(left.gen, Append(Popped(1), item)) /\ UNCHANGED outcome
  BY DEF LogicalPrefix, NextQuadLabel
<1>2. outcome = "parsing" /\ GenOK(gen) /\ 1 \in 0 .. Len(stack) /\ ValueOK(Top.e, gen) /\ Settled(Top.e)
      /\ Lists(Top.e) \subseteq Waiting(gen.quads) /\ KeptOn(1) = Lists(Top.e)
  BY <1>1, ExprOnTop
<1>3. Result(gen, Lists(Top.e), left) /\ MustBePatched(left.e)
  BY <1>2, ConvertResult
<1> HIDE DEF left
<1>4. GenOK(left.gen) /\ ValueOK(left.e, left.gen) /\ Lists(left.e) \subseteq Waiting(left.gen.quads)
  BY <1>3 DEF Result
<1>5. Len(left.gen.quads) \in Starts(left.gen)
  <2>1. PICK n : n \in Lists(left.e)
    BY <1>3 DEF MustBePatched, Lists
  <2>2. n \in 0 .. Len(left.gen.quads) - 1 /\ Len(left.gen.quads) \in Nat
    BY <1>4, <2>1, GenFields DEF Waiting
  <2> QED
    BY <2>2 DEF Starts
<1>6. op # "tmp_elist"
  BY DEF Logicals
<1>7. ItemOK(item, left.gen) /\ Kept(item) = Lists(left.e) /\ item.sym = op
  BY <1>4, <1>5, LogicalItem
<1> HIDE DEF item
<1>8. Fits(1, left.gen, item)
  BY <1>2, <1>3, <1>6, <1>7, ResultFits
<1> QED
  BY <1>1, <1>2, <1>8, ReplaceStep

LEMMA NotKeeps ==
  ASSUME IInv, NotExpr
  PROVE  IInv'
<1> DEFINE operand == ConvertToBool(gen, Top.e)
           result  == [Expr("BOOL_E", None) EXCEPT !.truelist  = operand.e.falselist,
                                                   !.falselist = operand.e.truelist]
           tree    == Node("not", Top.ast, Top.ast)
           r       == With(operand.gen, result)
<1>1. HasExpr /\ Under("not") /\ Become(operand.gen, Append(Popped(2), Item(result, tree)))
      /\ UNCHANGED <<tokens, outcome>>
  BY DEF NotExpr
<1>2. outcome = "parsing" /\ GenOK(gen) /\ ValueOK(Top.e, gen) /\ Settled(Top.e)
      /\ Lists(Top.e) \subseteq Waiting(gen.quads)
  BY <1>1, ExprOnTop
<1>3. 2 \in 0 .. Len(stack) /\ ItemOK(Below, gen) /\ Below.sym = "not"
      /\ KeptOn(2) = Kept(Below) \cup Lists(Top.e)
  BY <1>1, ExprUnder
<1>4. KeptOn(2) = Lists(Top.e)
  BY <1>3, ItemFields
<1>5. Result(gen, Lists(Top.e), operand) /\ MustBePatched(operand.e)
  BY <1>2, ConvertResult
<1> HIDE DEF operand
<1>6. /\ operand.e.falselist \in SUBSET Nat /\ operand.e.truelist \in SUBSET Nat
      /\ operand.e.falselist \cap operand.e.truelist = {}
      /\ operand.e.falselist \cup operand.e.truelist # {}
      /\ operand.e.falselist \cup operand.e.truelist = Lists(operand.e)
  BY <1>5 DEF Result, ValueOK, ExprSet, MustBePatched, Lists
<1>7. ValueOK(result, operand.gen) /\ Settled(result) /\ Lists(result) = Lists(operand.e)
  BY <1>6, BoolExpr
<1> HIDE DEF result
<1>8. r.gen = operand.gen /\ r.e = result
  BY DEF With
<1>9. Result(gen, KeptOn(2), r)
  BY <1>4, <1>5, <1>7, <1>8 DEF Result
<1>10. tree.node \notin {"call", "method"}
  BY DEF Node
<1> HIDE DEF r, tree
<1>11. Fits(2, r.gen, Item(r.e, tree))
  BY <1>3, <1>7, <1>8, <1>9, <1>10, ValueFits DEF Holdable
<1> QED
  BY <1>1, <1>2, <1>8, <1>11, ReplaceStep

LEMMA MinusKeeps ==
  ASSUME IInv, MinusExpr
  PROVE  IInv'
<1> DEFINE result == Uminus(gen, Top.e)
           tree   == Node("uminus", Top.ast, Top.ast)
<1>1. HasExpr /\ Under("uminus") /\ UNCHANGED tokens
      /\ IF CanParticipate(Top.e)
         THEN Become(result.gen, Append(Popped(2), Item(result.e, tree))) /\ UNCHANGED outcome
         ELSE Refuse("semantic_error", 2, tree)
  BY DEF MinusExpr
<1>2. outcome = "parsing" /\ GenOK(gen) /\ ValueOK(Top.e, gen) /\ Settled(Top.e)
  BY <1>1, ExprOnTop
<1>3. 2 \in 0 .. Len(stack) /\ ItemOK(Below, gen) /\ Below.sym = "uminus"
      /\ KeptOn(2) = Kept(Below) \cup Lists(Top.e)
  BY <1>1, ExprUnder
<1>4. CASE CanParticipate(Top.e)
  <2>1. Plain(Top.e, gen) /\ KeptOn(2) = {}
    BY <1>2, <1>3, <1>4, Participant, ItemFields
  <2>2. Keeps(gen, result.gen) /\ Plain(result.e, result.gen)
    BY <1>2, <2>1, UminusResult
  <2> HIDE DEF result
  <2>3. Fits(2, result.gen, Item(result.e, tree))
    BY <1>3, <2>1, <2>2, PlainFits
  <2> QED
    BY <1>1, <1>2, <1>4, <2>3, ReplaceStep
<1>5. CASE ~CanParticipate(Top.e)
  BY <1>1, <1>3, <1>5, RefuseStep, TokensKept
<1> QED
  BY <1>4, <1>5

(* Two expressions with an operator between them. *)
LEMMA InfixUnder ==
  ASSUME IInv, HasExpr, NEW op \in Infixes, Under(op)
  PROVE  /\ 2 \in 0 .. Len(stack)
         /\ ValueOK(Below.e, gen) /\ Settled(Below.e)
         /\ op \in Equality => Plain(Below.e, gen) /\ Lists(Below.e) = {}
         /\ KeptOn(2) = Lists(Below.e) \cup Lists(Top.e)
<1>1. op # "bottom" /\ op \in {"expr", "value"} \cup Tables \cup Logicals \cup Infixes
  BY DEF Infixes
<1>2. 2 \in 0 .. Len(stack) /\ ItemOK(Below, gen) /\ Below.sym = op
      /\ KeptOn(2) = Kept(Below) \cup Lists(Top.e)
  BY <1>1, ExprUnder
<1>3. ValueOK(Below.e, gen) /\ Settled(Below.e) /\ Kept(Below) = Lists(Below.e)
  BY <1>1, <1>2, ItemFields
<1>4. op \in Equality => Plain(Below.e, gen) /\ Lists(Below.e) = {}
  BY <1>2, ItemFields, PlainFields DEF Equality
<1> QED
  BY <1>2, <1>3, <1>4

LEMMA ArithmeticKeeps ==
  ASSUME IInv, NEW op \in {"+", "-", "*", "/", "%"}, Arithmetic(op)
  PROVE  IInv'
<1> DEFINE l      == Below.e
           r      == Top.e
           tree   == Node(op, Below.ast, Top.ast)
           result == Arithmop(gen, Opcode[op], l, r)
           failed == BothNumbers(l, r) /\ NumericError(Opcode[op], r.place.const.value)
<1>1. HasExpr /\ Under(op) /\ UNCHANGED tokens
      /\ IF ~CanParticipate(l) \/ ~CanParticipate(r) THEN Refuse("semantic_error", 2, tree)
         ELSE IF failed
         THEN Refuse(IF op = "/" THEN "semantic_error" ELSE "numeric_error", 2, tree)
         ELSE Become(result.gen, Append(Popped(2), Item(result.e, tree))) /\ UNCHANGED outcome
  BY DEF Arithmetic
<1>2. op \in Infixes /\ Opcode[op] \in ArithmOps
  BY Operators
<1>3. outcome = "parsing" /\ GenOK(gen) /\ ValueOK(r, gen) /\ Settled(r)
  BY <1>1, ExprOnTop
<1>4. 2 \in 0 .. Len(stack) /\ ValueOK(l, gen) /\ Settled(l) /\ KeptOn(2) = Lists(l) \cup Lists(r)
  BY <1>1, <1>2, InfixUnder
<1>5. CASE ~CanParticipate(l) \/ ~CanParticipate(r)
  BY <1>1, <1>4, <1>5, RefuseStep, TokensKept
<1>6. CASE CanParticipate(l) /\ CanParticipate(r) /\ failed
  <2> DEFINE error == IF op = "/" THEN "semantic_error" ELSE "numeric_error"
  <2>1. error \in {"semantic_error", "numeric_error", "syntax_error"} /\ Refuse(error, 2, tree)
    BY <1>1, <1>6
  <2> HIDE DEF error
  <2> QED
    BY <1>1, <1>4, <2>1, RefuseStep, TokensKept
<1>7. CASE CanParticipate(l) /\ CanParticipate(r) /\ ~failed
  <2>1. Plain(l, gen) /\ Plain(r, gen) /\ KeptOn(2) = {}
    BY <1>3, <1>4, <1>7, Participant
  <2>2. Keeps(gen, result.gen) /\ Plain(result.e, result.gen)
    BY <1>2, <1>3, <1>7, <2>1, ArithmopResult
  <2>3. Become(result.gen, Append(Popped(2), Item(result.e, tree))) /\ UNCHANGED outcome
    BY <1>1, <1>7
  <2> HIDE DEF result
  <2>4. Fits(2, result.gen, Item(result.e, tree))
    BY <1>4, <2>1, <2>2, PlainFits
  <2> QED
    BY <1>1, <1>3, <2>3, <2>4, ReplaceStep
<1> QED
  BY <1>5, <1>6, <1>7

LEMMA ComparisonKeeps ==
  ASSUME IInv, NEW op \in {"<", "<=", ">", ">="}, Comparison(op)
  PROVE  IInv'
<1> DEFINE tree   == Node(op, Below.ast, Top.ast)
           result == Relop(gen, Opcode[op], Below.e, Top.e)
<1>1. HasExpr /\ Under(op) /\ UNCHANGED tokens
      /\ IF CanParticipate(Below.e) /\ CanParticipate(Top.e)
         THEN Become(result.gen, Append(Popped(2), Item(result.e, tree))) /\ UNCHANGED outcome
         ELSE Refuse("semantic_error", 2, tree)
  BY DEF Comparison
<1>2. op \in Infixes /\ Opcode[op] \in Jumps \ {"jump"} /\ op \notin {"call", "method"}
  BY Operators
<1>3. outcome = "parsing" /\ GenOK(gen) /\ ValueOK(Top.e, gen) /\ Settled(Top.e)
  BY <1>1, ExprOnTop
<1>4. 2 \in 0 .. Len(stack) /\ ValueOK(Below.e, gen) /\ Settled(Below.e)
      /\ KeptOn(2) = Lists(Below.e) \cup Lists(Top.e)
  BY <1>1, <1>2, InfixUnder
<1>5. CASE CanParticipate(Below.e) /\ CanParticipate(Top.e)
  <2>1. Plain(Below.e, gen) /\ Plain(Top.e, gen) /\ KeptOn(2) = {}
    BY <1>3, <1>4, <1>5, Participant
  <2>2. Result(gen, {}, result) /\ Settled(result.e)
    BY <1>2, <1>3, <2>1, RelopResult
  <2>3. tree.node \notin {"call", "method"}
    BY <1>2 DEF Node
  <2> HIDE DEF result, tree
  <2>4. Fits(2, result.gen, Item(result.e, tree))
    BY <1>4, <2>1, <2>2, <2>3, ValueFits DEF Holdable, Result
  <2> QED
    BY <1>1, <1>3, <1>5, <2>4, ReplaceStep
<1>6. CASE ~(CanParticipate(Below.e) /\ CanParticipate(Top.e))
  BY <1>1, <1>4, <1>6, RefuseStep, TokensKept
<1> QED
  BY <1>5, <1>6

LEMMA EqualityExprKeeps ==
  ASSUME IInv, NEW op \in Equality, EqualityExpr(op)
  PROVE  IInv'
<1> DEFINE right  == PatchPossible(gen, Top.e)
           result == Relop(right.gen, Opcode[op], Below.e, right.e)
           tree   == Node(op, Below.ast, Top.ast)
<1>1. HasExpr /\ Under(op) /\ UNCHANGED <<tokens, outcome>>
      /\ Become(result.gen, Append(Popped(2), Item(result.e, tree)))
  BY DEF EqualityExpr
<1>2. op \in Infixes /\ Opcode[op] \in Jumps \ {"jump"} /\ op \notin {"call", "method"}
  BY Operators
<1>3. outcome = "parsing" /\ GenOK(gen) /\ ValueOK(Top.e, gen) /\ Settled(Top.e)
      /\ Lists(Top.e) \subseteq Waiting(gen.quads)
  BY <1>1, ExprOnTop
<1>4. 2 \in 0 .. Len(stack) /\ Plain(Below.e, gen) /\ KeptOn(2) = Lists(Top.e)
  BY <1>1, <1>2, InfixUnder
<1>5. Result(gen, Lists(Top.e), right) /\ Plain(right.e, right.gen)
  BY <1>3, PatchResult
<1> HIDE DEF right
<1>6. GenOK(right.gen) /\ Plain(Below.e, right.gen) /\ Lists(right.e) = {}
  BY <1>3, <1>4, <1>5, PlainLater, PlainFields DEF Result
<1>7. Result(right.gen, {}, result) /\ Settled(result.e)
  BY <1>2, <1>5, <1>6, RelopResult
<1> HIDE DEF result
<1>8. Result(gen, KeptOn(2), result)
  <2>1. Result(gen, Lists(Top.e) \cup {}, result)
    BY <1>3, <1>5, <1>6, <1>7, ResultsCompose
  <2>2. Lists(Top.e) \cup {} = KeptOn(2)
    BY <1>4
  <2> QED
    BY <2>1, <2>2
<1>9. tree.node \notin {"call", "method"}
  BY <1>2 DEF Node
<1> HIDE DEF tree
<1>10. Fits(2, result.gen, Item(result.e, tree))
  BY <1>4, <1>7, <1>8, <1>9, ValueFits DEF Holdable, Result
<1> QED
  BY <1>1, <1>3, <1>10, ReplaceStep

LEMMA LogicalExprKeeps ==
  ASSUME IInv, NEW op \in Logicals, LogicalExpr(op)
  PROVE  IInv'
<1> DEFINE right  == ConvertToBool(gen, Top.e)
           result == Logical(right.gen, op, Below.e, right.e, Below.next)
           tree   == Node(op, Below.ast, Top.ast)
<1>1. HasExpr /\ Under(op) /\ UNCHANGED <<tokens, outcome>>
      /\ Become(result.gen, Append(Popped(2), Item(result.e, tree)))
  BY DEF LogicalExpr
<1>2. op # "bottom" /\ op \notin {"call", "method"}
      /\ op \in {"expr", "value"} \cup Tables \cup Logicals \cup Infixes
  BY DEF Logicals
<1>3. outcome = "parsing" /\ GenOK(gen) /\ ValueOK(Top.e, gen) /\ Settled(Top.e)
      /\ Lists(Top.e) \subseteq Waiting(gen.quads)
  BY <1>1, ExprOnTop
<1>4. 2 \in 0 .. Len(stack) /\ ItemOK(Below, gen) /\ Below.sym = op
      /\ KeptOn(2) = Kept(Below) \cup Lists(Top.e) /\ Kept(Below) \subseteq Waiting(gen.quads)
      /\ Kept(Below) \cap Lists(Top.e) = {}
  BY <1>1, <1>2, ExprUnder
<1>5. ValueOK(Below.e, gen) /\ Kept(Below) = Lists(Below.e) /\ Below.next \in 1 .. Len(gen.quads)
  BY <1>2, <1>4, ItemFields
<1>6. Result(gen, Lists(Top.e), right) /\ MustBePatched(right.e)
  BY <1>3, ConvertResult
<1> HIDE DEF right
<1>7. GenOK(right.gen) /\ ValueOK(right.e, right.gen) /\ ValueOK(Below.e, right.gen)
  BY <1>3, <1>5, <1>6, ValueLater DEF Result
<1>8. Lists(right.e) \subseteq Waiting(right.gen.quads) /\ Lists(Below.e) \subseteq Waiting(right.gen.quads)
      /\ Lists(Below.e) \cap Lists(right.e) = {}
  BY <1>4, <1>5, <1>6 DEF Result
<1>9. Below.next \in 1 .. Len(right.gen.quads)
  <2>1. Len(gen.quads) \in Nat /\ Len(right.gen.quads) \in Nat /\ Len(gen.quads) <= Len(right.gen.quads)
    BY <1>3, <1>6, <1>7, GenFields DEF Result, Later
  <2> QED
    BY <1>5, <2>1
<1>10. Result(right.gen, Lists(Below.e) \cup Lists(right.e), result) /\ Settled(result.e)
  BY <1>6, <1>7, <1>8, <1>9, LogicalResult
<1> HIDE DEF result
<1>11. Result(gen, KeptOn(2), result)
  <2>1. Result(gen, Lists(Top.e) \cup Lists(Below.e), result)
    BY <1>3, <1>6, <1>10, ResultHandedOn
  <2>2. Lists(Top.e) \cup Lists(Below.e) = KeptOn(2)
    BY <1>4, <1>5
  <2> QED
    BY <2>1, <2>2
<1>12. tree.node \notin {"call", "method"}
  BY <1>2 DEF Node
<1> HIDE DEF tree
<1>13. Fits(2, result.gen, Item(result.e, tree))
  BY <1>4, <1>10, <1>11, <1>12, ValueFits DEF Holdable, Result
<1> QED
  BY <1>1, <1>3, <1>13, ReplaceStep

LEMMA AssignExprKeeps ==
  ASSUME IInv, AssignExpr
  PROVE  IInv'
<1> DEFINE right  == PatchPossible(gen, Top.e)
           result == Assignment(right.gen, Below.e, right.e)
           tree   == Node("=", Below.ast, Top.ast)
<1>1. HasExpr /\ Under("=") /\ UNCHANGED tokens
      /\ IF Below.e.type = "LIBRARY_FUNC_E" THEN Refuse("syntax_error", 2, tree)
         ELSE Become(result.gen, Append(Popped(2), Item(result.e, tree))) /\ UNCHANGED outcome
  BY DEF AssignExpr
<1>2. outcome = "parsing" /\ GenOK(gen) /\ ValueOK(Top.e, gen) /\ Settled(Top.e)
      /\ Lists(Top.e) \subseteq Waiting(gen.quads)
  BY <1>1, ExprOnTop
<1>3. 2 \in 0 .. Len(stack) /\ ItemOK(Below, gen) /\ Below.sym = "="
      /\ KeptOn(2) = Kept(Below) \cup Lists(Top.e)
  BY <1>1, ExprUnder
<1>4. Plain(Below.e, gen) /\ KeptOn(2) = Lists(Top.e)
  BY <1>3, ItemFields DEF Tables
<1>5. CASE Below.e.type = "LIBRARY_FUNC_E"
  BY <1>1, <1>3, <1>5, RefuseStep, TokensKept
<1>6. CASE Below.e.type # "LIBRARY_FUNC_E"
  <2>1. Result(gen, Lists(Top.e), right) /\ Plain(right.e, right.gen)
    BY <1>2, PatchResult
  <2> HIDE DEF right
  <2>2. GenOK(right.gen) /\ Plain(Below.e, right.gen) /\ Lists(right.e) = {}
    BY <1>2, <1>4, <2>1, PlainLater, PlainFields DEF Result
  <2>3. Keeps(right.gen, result.gen) /\ Plain(result.e, result.gen)
    BY <2>1, <2>2, AssignmentResult
  <2> HIDE DEF result
  <2>4. Result(gen, KeptOn(2), result)
    <3>1. Result(right.gen, {}, result)
      BY <2>3, KeptResult
    <3>2. Result(gen, Lists(Top.e) \cup {}, result)
      BY <1>2, <2>1, <2>2, <3>1, ResultsCompose
    <3>3. Lists(Top.e) \cup {} = KeptOn(2)
      BY <1>4
    <3> QED
      BY <3>2, <3>3
  <2>5. Holdable(result.e, tree, result.gen)
    BY <2>3, PlainHoldable
  <2> HIDE DEF tree
  <2>6. Fits(2, result.gen, Item(result.e, tree))
    BY <1>3, <2>4, <2>5, ValueFits
  <2> QED
    BY <1>1, <1>2, <1>6, <2>6, ReplaceStep
<1> QED
  BY <1>5, <1>6

LEMMA ElementsItem ==
  ASSUME NEW item, NEW g, DOMAIN item = {"sym", "es", "asts"}, item.sym = "tmp_elist",
         PlainSeq(item.es, g)
  PROVE  ItemOK(item, g) /\ Kept(item) = {}
<1>1. Fields("tmp_elist") = {"sym", "es", "asts"}
  BY DEF Fields, Logicals, Infixes, Increments
<1>2. ItemOK(item, g)
  BY <1>1 DEF ItemOK, Tables, Logicals
<1>3. Kept(item) = {}
  BY DEF Kept
<1> QED
  BY <1>2, <1>3

LEMMA CommaKeeps ==
  ASSUME IInv, Comma
  PROVE  IInv'
<1> DEFINE item == [sym |-> "tmp_elist", es |-> << >>, asts |-> << >>]
<1>1. HasExpr /\ BelowSym \in Openers /\ Read /\ Shift(item) /\ UNCHANGED outcome
  BY Zenon DEF Comma
<1>2. DOMAIN item = {"sym", "es", "asts"} /\ item.sym = "tmp_elist" /\ item.es = << >>
  OBVIOUS
<1> HIDE DEF item
<1>3. outcome = "parsing" /\ GenOK(gen) /\ Len(stack) \in Nat /\ Top.sym = "expr"
  BY <1>1, ExprOnTop
<1>4. ItemOK(item, gen) /\ Kept(item) = {}
  BY <1>2, PlainEmpty, ElementsItem
<1>5. Under(BelowSym) /\ BelowSym # "bottom"
  BY <1>1 DEF Openers, Under
<1>6. Len(stack) >= 2 /\ Below.sym \in Openers
  BY <1>1, <1>3, <1>5, BelowItem
<1>7. Following(stack, Len(stack) - 0 + 1, item)
  <2>1. Len(stack) - 0 + 1 - 1 = Len(stack) /\ Len(stack) - 0 + 1 - 2 = Len(stack) - 1
        /\ Len(stack) - 0 + 1 >= 3
    BY <1>3, <1>6
  <2> QED
    BY <1>3, <1>6, <2>1 DEF Following, Top, Below
<1>8. KeptOn(0) = {} /\ 0 \in 0 .. Len(stack)
  BY <1>3, KeptOnTop
<1>9. Fits(0, gen, item)
  BY <1>3, <1>4, <1>7, <1>8, KeepsFits, KeepsReflexive
<1> QED
  BY <1>1, <1>3, <1>9, ShiftStep, TokensKept

LEMMA NextElementKeeps ==
  ASSUME IInv, NextElement
  PROVE  IInv'
<1> DEFINE arg  == PatchPossible(gen, Top.e)
           item == [Below EXCEPT !.es = Append(@, arg.e), !.asts = Append(@, Top.ast)]
<1>1. HasExpr /\ Under("tmp_elist") /\ UNCHANGED <<tokens, outcome>>
      /\ Become(arg.gen, Append(Popped(2), item))
  BY DEF NextElement
<1>2. outcome = "parsing" /\ GenOK(gen) /\ ValueOK(Top.e, gen) /\ Settled(Top.e)
      /\ Lists(Top.e) \subseteq Waiting(gen.quads)
  BY <1>1, ExprOnTop
<1>3. 2 \in 0 .. Len(stack) /\ ItemOK(Below, gen) /\ Below.sym = "tmp_elist"
      /\ KeptOn(2) = Kept(Below) \cup Lists(Top.e)
  BY <1>1, ExprUnder
<1>4. PlainSeq(Below.es, gen) /\ KeptOn(2) = Lists(Top.e)
  BY <1>3, ItemFields
<1>5. Result(gen, Lists(Top.e), arg) /\ Plain(arg.e, arg.gen)
  BY <1>2, PatchResult
<1>6. DOMAIN Below = {"sym", "es", "asts"}
  <2>1. Fields("tmp_elist") = {"sym", "es", "asts"}
    BY DEF Fields, Logicals, Infixes, Increments
  <2> QED
    BY <1>3, <2>1 DEF ItemOK
<1> HIDE DEF arg
<1>7. DOMAIN item = {"sym", "es", "asts"} /\ item.sym = "tmp_elist" /\ item.es = Append(Below.es, arg.e)
  BY <1>3, <1>6
<1> HIDE DEF item
<1>8. PlainSeq(Below.es, arg.gen)
  <2>1. \A i \in DOMAIN Below.es : Plain(Below.es[i], arg.gen)
    BY <1>2, <1>4, <1>5, PlainLater DEF PlainSeq, Result
  <2> QED
    BY <1>4, <2>1 DEF PlainSeq
<1>9. ItemOK(item, arg.gen) /\ Kept(item) = {} /\ Lists(arg.e) = {}
  <2>1. PlainSeq(item.es, arg.gen)
    BY <1>5, <1>7, <1>8, PlainAppend
  <2>2. ItemOK(item, arg.gen) /\ Kept(item) = {}
    BY <1>7, <2>1, ElementsItem
  <2> QED
    BY <1>5, <2>2, PlainFields
<1>10. Following(stack, Len(stack) - 2 + 1, item)
  <2>1. Len(stack) \in Nat /\ DOMAIN stack = 1 .. Len(stack) /\ ListsFollow(stack)
    BY StackFields DEF IInv, StackOK
  <2>2. PICK d : d = Len(stack) - 1
    OBVIOUS
  <2>3. d \in DOMAIN stack /\ stack[d].sym = "tmp_elist"
    BY <1>3, <2>1, <2>2 DEF Below
  <2>4. d >= 3 /\ stack[d - 1].sym = "expr" /\ stack[d - 2].sym \in Openers
    BY <2>1, <2>3 DEF ListsFollow
  <2>5. Len(stack) - 2 + 1 = d
    BY <2>1, <2>2
  <2> QED
    BY <2>4, <2>5 DEF Following
<1>11. Fits(2, arg.gen, item)
  BY <1>3, <1>4, <1>5, <1>9, <1>10, ResultFollows
<1> QED
  BY <1>1, <1>2, <1>11, ReplaceStep

LEMMA ListedResult ==
  ASSUME NEW opener, NEW g, NEW es, NEW asts, GenOK(g), ItemOK(opener, g), opener.sym \in Openers,
         PlainSeq(es, g)
  PROVE  /\ Keeps(g, Listed(opener, g, es, asts).gen.gen)
         /\ Plain(Listed(opener, g, es, asts).gen.e, Listed(opener, g, es, asts).gen.gen)
<1> DEFINE r == Listed(opener, g, es, asts).gen
<1>1. CASE opener.sym = "call"
  <2>1. Plain(opener.e, g)
    BY <1>1, ItemFields DEF Tables
  <2>2. r = EmitCall(g, opener.e, es)
    BY <1>1 DEF Listed, With
  <2> QED
    BY <2>1, <2>2, CallResult
<1>2. CASE opener.sym = "method"
  <2>1. Plain(opener.e, g) /\ opener.name \in MemberNames
    BY <1>2, ItemFields DEF Tables
  <2>2. r = EmitMethodCall(g, opener.e, opener.name, es)
    BY <1>2 DEF Listed, With
  <2> QED
    BY <2>1, <2>2, MethodCallResult
<1>3. CASE opener.sym = "object"
  <2>1. r = ObjectDef(g, Enumerated(es))
    BY <1>3 DEF Listed, With
  <2> QED
    BY <2>1, EnumeratedPlain, ObjectResult
<1> QED
  BY <1>1, <1>2, <1>3 DEF Openers

LEMMA OpenerKeepsNothing ==
  ASSUME NEW item, NEW g, ItemOK(item, g), item.sym \in Openers
  PROVE  Kept(item) = {}
BY ItemFields DEF Openers, Tables

(* The n items on top are an opener and its list, whose code is done. *)
LEMMA CloseListKeeps ==
  ASSUME IInv, outcome = "parsing", NEW n \in 1 .. Len(stack), NEW g, NEW es, NEW asts,
         NEW late \in SUBSET (Situations \ {"recycled"}), CloseList(n, g, es, asts, late),
         stack[Len(stack) - n + 1].sym \in Openers,
         GenOK(g), Later(gen, g), Waiting(g.quads) = Waiting(gen.quads) \ KeptOn(n), PlainSeq(es, g)
  PROVE  IInv'
<1> DEFINE opener == stack[Len(stack) - n + 1]
           result == Listed(opener, g, es, asts)
           h      == result.gen.gen
           item   == Item(result.gen.e, result.e)
<1>1. /\ IF opener.sym = "method" /\ ~UsableAsTable(opener.e)
         THEN Refuse("semantic_error", n, result.e)
         ELSE BecomePatching(h, Append(Popped(n), item), late) /\ UNCHANGED outcome
      /\ UNCHANGED tokens
  BY DEF CloseList
<1>2. Len(stack) \in Nat /\ GenOK(gen) /\ \A i \in 1 .. Len(stack) : ItemOK(stack[i], gen)
  BY StackFields DEF IInv
<1>3. n \in 0 .. Len(stack) /\ Len(stack) - n + 1 \in 1 .. Len(stack)
  BY <1>2
<1>4. ItemOK(opener, g)
  BY <1>2, <1>3, ItemLater
<1>5. opener.sym \in Openers
  OBVIOUS
<1> HIDE DEF opener
<1>6. Keeps(g, h) /\ Plain(result.gen.e, h)
  BY <1>4, <1>5, ListedResult
<1> HIDE DEF result
<1>7. ItemOK(item, h) /\ Kept(item) = {} /\ item.sym = "expr"
  BY <1>6, PlainHoldable, ExprItem, PlainFields
<1> HIDE DEF item
<1>8. GenOK(h) /\ Later(gen, h) /\ Waiting(h.quads) = Waiting(gen.quads) \ KeptOn(n)
  BY <1>2, <1>6, LaterTransitive DEF Keeps
<1>9. Fits(n, h, item)
  BY <1>3, <1>7, <1>8 DEF Fits, Following
<1>10. CASE opener.sym = "method" /\ ~UsableAsTable(opener.e)
  BY <1>1, <1>3, <1>10, RefuseStep, TokensKept
<1>11. CASE ~(opener.sym = "method" /\ ~UsableAsTable(opener.e))
  <2>1. BecomePatching(h, Append(Popped(n), item), late) /\ UNCHANGED outcome /\ UNCHANGED tokens
    BY <1>1, <1>11
  <2> QED
    BY <1>9, <2>1, BecomeStep, TokensKept
<1> QED
  BY <1>10, <1>11

LEMMA EmptyListKeeps ==
  ASSUME IInv, EmptyList
  PROVE  IInv'
<1>1. outcome = "parsing" /\ TopSym \in Openers /\ CloseList(1, gen, << >>, << >>, {})
  BY DEF EmptyList, Parsing
<1>2. stack # << >> /\ Top.sym \in Openers
  BY <1>1, TopSymbol DEF Openers
<1>3. Len(stack) \in Nat /\ Len(stack) >= 1 /\ ItemOK(Top, gen) /\ KeptOn(1) = Kept(Top) /\ GenOK(gen)
  BY <1>1, <1>2, TopItem DEF IInv
<1>4. Waiting(gen.quads) = Waiting(gen.quads) \ KeptOn(1)
  BY <1>2, <1>3, OpenerKeepsNothing
<1>5. 1 \in 1 .. Len(stack) /\ Len(stack) - 1 + 1 = Len(stack)
  BY <1>3
<1>6. stack[Len(stack) - 1 + 1].sym \in Openers
  BY <1>2, <1>5 DEF Top
<1>7. {} \in SUBSET (Situations \ {"recycled"}) /\ PlainSeq(<< >>, gen) /\ Later(gen, gen)
  BY <1>3, PlainEmpty, LaterReflexive
<1> QED
  BY <1>1, <1>3, <1>4, <1>5, <1>6, <1>7, CloseListKeeps

LEMMA OneElementKeeps ==
  ASSUME IInv, OneElement
  PROVE  IInv'
<1> DEFINE first == PatchPossible(gen, Top.e)
<1>1. HasExpr /\ BelowSym \in Openers /\ CloseList(2, first.gen, <<first.e>>, <<Top.ast>>, {})
  BY DEF OneElement
<1>2. outcome = "parsing" /\ GenOK(gen) /\ ValueOK(Top.e, gen) /\ Settled(Top.e)
      /\ Lists(Top.e) \subseteq Waiting(gen.quads) /\ Len(stack) \in Nat
  BY <1>1, ExprOnTop
<1>3. Under(BelowSym) /\ BelowSym # "bottom"
  BY <1>1 DEF Openers, Under
<1>4. ItemOK(Below, gen) /\ Below.sym \in Openers /\ 2 \in 0 .. Len(stack)
      /\ KeptOn(2) = Kept(Below) \cup Lists(Top.e)
  BY <1>1, <1>3, ExprUnder
<1>5. KeptOn(2) = Lists(Top.e)
  BY <1>4, OpenerKeepsNothing
<1>6. Result(gen, Lists(Top.e), first) /\ Plain(first.e, first.gen)
  BY <1>2, PatchResult
<1> HIDE DEF first
<1>7. GenOK(first.gen) /\ Later(gen, first.gen)
      /\ Waiting(first.gen.quads) = Waiting(gen.quads) \ KeptOn(2)
  BY <1>5, <1>6, PlainFields DEF Result
<1>8. 2 \in 1 .. Len(stack) /\ Len(stack) - 2 + 1 = Len(stack) - 1
  BY <1>2, <1>4
<1>9. stack[Len(stack) - 2 + 1].sym \in Openers
  BY <1>4, <1>8 DEF Below
<1>10. {} \in SUBSET (Situations \ {"recycled"}) /\ PlainSeq(<<first.e>>, first.gen)
  BY <1>6, PlainSingle
<1> QED
  BY <1>1, <1>2, <1>7, <1>8, <1>9, <1>10, CloseListKeeps

LEMMA LateSituations ==
  ASSUME NEW g, NEW e, NEW situation \in Situations \ {"recycled"}
  PROVE  PatchedLate(g, e, situation) \in SUBSET (Situations \ {"recycled"})
BY DEF PatchedLate

LEMMA MoreElementsKeeps ==
  ASSUME IInv, MoreElements
  PROVE  IInv'
<1> DEFINE first == PatchPossible(gen, Below.e)
           es    == <<first.e>> \o Top.es
           late  == PatchedLate(gen, Below.e, "late_argument")
<1>1. outcome = "parsing" /\ TopSym = "tmp_elist"
      /\ CloseList(3, first.gen, es, <<Below.ast>> \o Top.asts, late)
  BY DEF MoreElements, Parsing
<1>2. stack # << >> /\ Top.sym = "tmp_elist"
  BY <1>1, TopSymbol
<1>3. Len(stack) \in Nat /\ Len(stack) >= 1 /\ ItemOK(Top, gen) /\ GenOK(gen)
  BY <1>1, <1>2, TopItem DEF IInv
<1>4. /\ DOMAIN stack = 1 .. Len(stack) /\ ListsFollow(stack)
      /\ \A i \in 1 .. Len(stack) : ItemOK(stack[i], gen)
  BY StackFields DEF IInv, StackOK
<1>5. Len(stack) >= 3 /\ Below.sym = "expr" /\ stack[Len(stack) - 2].sym \in Openers
  <2>1. Len(stack) \in DOMAIN stack
    BY <1>3, <1>4
  <2> QED
    BY <1>2, <1>4, <2>1 DEF ListsFollow, Top, Below
<1>6. Under("expr")
  BY <1>3, <1>5 DEF Under, BelowSym
<1>7. ItemOK(Below, gen) /\ Kept(Below) \subseteq Waiting(gen.quads)
  BY <1>1, <1>6, BelowItem
<1>8. ValueOK(Below.e, gen) /\ Settled(Below.e) /\ Kept(Below) = Lists(Below.e)
  BY <1>5, <1>7, ItemFields
<1>9. KeptOn(3) = Lists(Below.e)
  <2>1. Len(stack) - 2 \in 1 .. Len(stack)
    BY <1>3, <1>5
  <2>2. Kept(stack[Len(stack) - 2]) = {}
    BY <1>4, <1>5, <2>1, OpenerKeepsNothing
  <2>3. Kept(Top) = {}
    BY <1>2, <1>3, ItemFields
  <2> QED
    BY <1>3, <1>5, <1>8, <2>2, <2>3, KeptOnTop
<1>10. Result(gen, Lists(Below.e), first) /\ Plain(first.e, first.gen)
  BY <1>3, <1>7, <1>8, PatchResult
<1>11. late \in SUBSET (Situations \ {"recycled"})
  BY LateSituations DEF Situations
<1> HIDE DEF first, late
<1>12. GenOK(first.gen) /\ Later(gen, first.gen)
       /\ Waiting(first.gen.quads) = Waiting(gen.quads) \ KeptOn(3)
  BY <1>9, <1>10, PlainFields DEF Result
<1>13. PlainSeq(es, first.gen)
  <2>1. PlainSeq(Top.es, gen)
    BY <1>2, <1>3, ItemFields
  <2>2. \A i \in DOMAIN Top.es : Plain(Top.es[i], first.gen)
    BY <1>3, <1>12, <2>1, PlainLater DEF PlainSeq
  <2>3. PlainSeq(Top.es, first.gen)
    BY <2>1, <2>2 DEF PlainSeq
  <2> QED
    BY <1>10, <2>3, PlainSingle, PlainConcat
<1> HIDE DEF es
<1>14. 3 \in 1 .. Len(stack) /\ Len(stack) - 3 + 1 = Len(stack) - 2
  BY <1>3, <1>5
<1>15. stack[Len(stack) - 3 + 1].sym \in Openers
  BY <1>5, <1>14
<1> QED
  BY <1>1, <1>11, <1>12, <1>13, <1>14, <1>15, CloseListKeeps

LEMMA SemicolonKeeps ==
  ASSUME IInv, Semicolon
  PROVE  IInv'
<1> DEFINE result == PatchPossible(gen, Top.e)
           item   == Item(result.e, Top.ast)
           t      == <<item>>
<1>1. HasExpr /\ Len(stack) = 1 /\ Become(result.gen, t) /\ outcome' = "compiled" /\ UNCHANGED tokens
  BY DEF Semicolon
<1>2. outcome = "parsing" /\ GenOK(gen) /\ ValueOK(Top.e, gen) /\ Settled(Top.e) /\ 1 \in 0 .. Len(stack)
      /\ Lists(Top.e) \subseteq Waiting(gen.quads) /\ KeptOn(1) = Lists(Top.e)
  BY <1>1, ExprOnTop
<1>3. Result(gen, Lists(Top.e), result) /\ Plain(result.e, result.gen)
  BY <1>2, PatchResult
<1> HIDE DEF result
<1>4. Holdable(result.e, Top.ast, result.gen) /\ Lists(result.e) = {}
  BY <1>3, PlainHoldable, PlainFields
<1>5. Fits(1, result.gen, item)
  BY <1>2, <1>3, <1>4, ValueFits
<1>6. Kept(item) = {}
  BY <1>4, ExprItem
<1> HIDE DEF item
<1>7. t \in Seq(ToSet(t)) /\ Len(t) = 1 /\ t[1] = item /\ DOMAIN t = {1}
  <2>1. t \in Seq({item}) /\ Len(t) = 1 /\ t[1] = item
    OBVIOUS
  <2> HIDE DEF t
  <2>2. t \in Seq(ToSet(t)) /\ DOMAIN t = 1 .. Len(t)
    BY <2>1, ItemsOfSeq
  <2> QED
    BY <2>1, <2>2
<1> HIDE DEF t
<1>8. Cut(stack, t, Len(stack) - 1 + 1, item)
  BY <1>1, <1>7 DEF Cut
<1>9. StackOK(t, result.gen) /\ Balanced(t, result.gen)
  BY <1>2, <1>5, <1>8, Replaced
<1>10. Waiting(result.gen.quads) = {}
  <2>1. \A n \in Waiting(result.gen.quads) : n \in Nat
    BY DEF Waiting
  <2> QED
    BY <1>6, <1>7, <1>9, <2>1 DEF Balanced
<1>11. BecomePatching(result.gen, t, {}) /\ {} \in SUBSET (Situations \ {"recycled"})
  BY <1>1 DEF Become
<1>12. hazards' \subseteq Situations /\ ("recycled" \in hazards' => Defines(result.gen))
  BY <1>5, <1>11, HazardsKept
<1>13. gen' = result.gen /\ stack' = t /\ fragment' = fragment /\ GenOK(result.gen)
       /\ tokens' \in 0 .. fragment.MaxTokens
  BY <1>1, <1>3, <1>11, TokensKept DEF BecomePatching, Result
<1> QED
  BY <1>1, <1>9, <1>10, <1>12, <1>13 DEF IInv, Situations

LEMMA BecomeItemKeeps ==
  ASSUME IInv, outcome = "parsing", NEW n \in 0 .. Len(stack), NEW g, NEW e, NEW index, NEW ast,
         NEW late \in SUBSET (Situations \ {"recycled"}), BecomeItem(n, g, e, index, ast, late),
         Read \/ UNCHANGED tokens, GenOK(g), Later(gen, g),
         Waiting(g.quads) = Waiting(gen.quads) \ KeptOn(n), Plain(e, g), Plain(index, g)
  PROVE  IInv'
<1> DEFINE item == LValue(TableItem(e, index), ast)
<1>1. IF UsableAsTable(e)
      THEN BecomePatching(g, Append(Popped(n), item), late) /\ UNCHANGED outcome
      ELSE Refuse("semantic_error", n, ast)
  BY DEF BecomeItem
<1>2. item.sym = "lvalue" /\ DOMAIN item = {"sym", "e", "ast"} /\ item.e = TableItem(e, index)
  BY DEF LValue
<1> HIDE DEF item
<1>3. ItemOK(item, g) /\ Kept(item) = {}
  <2>1. Plain(item.e, g) /\ item.sym \in Tables /\ DOMAIN item = Fields(item.sym)
    BY <1>2, TableItemPlain, TableFields
  <2> QED
    BY <1>2, <2>1, PlainItem
<1>4. Fits(n, g, item)
  BY <1>2, <1>3 DEF Fits, Following
<1>5. CASE UsableAsTable(e)
  <2>1. BecomePatching(g, Append(Popped(n), item), late) /\ UNCHANGED outcome
    BY <1>1, <1>5
  <2> QED
    BY <1>4, <2>1, BecomeStep, TokensKept
<1>6. CASE ~UsableAsTable(e)
  BY <1>1, <1>6, RefuseStep, TokensKept
<1> QED
  BY <1>5, <1>6

LEMMA MemberKeeps ==
  ASSUME IInv, NEW id \in MemberNames, Member(id)
  PROVE  IInv'
<1> DEFINE base == EmitIfTableItem(gen, Top.e)
           tree == ItemNode(Top.ast, LeafNode(Const(id)))
<1>1. HasTable /\ Read /\ BecomeItem(1, base.gen, base.e, ConstExpr(id), tree, {})
  BY Zenon DEF Member
<1>2. outcome = "parsing" /\ GenOK(gen) /\ 1 \in 0 .. Len(stack) /\ Plain(Top.e, gen) /\ KeptOn(1) = {}
  BY <1>1, TableOnTop DEF HasTable
<1>3. Keeps(gen, base.gen) /\ Plain(base.e, base.gen)
  BY <1>2, IfTableItemResult
<1> HIDE DEF base, tree
<1>4. GenOK(base.gen) /\ Later(gen, base.gen) /\ Waiting(base.gen.quads) = Waiting(gen.quads) \ KeptOn(1)
  BY <1>2, <1>3 DEF Keeps
<1>5. Plain(ConstExpr(id), base.gen)
  BY <1>4, MemberNamesAssumption, ConstPlain
<1>6. {} \in SUBSET (Situations \ {"recycled"})
  OBVIOUS
<1> QED
  BY <1>1, <1>2, <1>3, <1>4, <1>5, <1>6, BecomeItemKeeps

LEMMA IndexOpenKeeps ==
  ASSUME IInv, IndexOpen
  PROVE  IInv'
<1> DEFINE item == [sym |-> "index", e |-> Top.e, ast |-> Top.ast]
<1>1. HasTable /\ Read /\ Become(gen, Append(Popped(1), item)) /\ UNCHANGED outcome
  BY DEF IndexOpen
<1>2. outcome = "parsing" /\ GenOK(gen) /\ 1 \in 0 .. Len(stack) /\ Plain(Top.e, gen) /\ KeptOn(1) = {}
  BY <1>1, TableOnTop DEF HasTable
<1>3. item.sym = "index" /\ DOMAIN item = {"sym", "e", "ast"} /\ item.e = Top.e
  OBVIOUS
<1> HIDE DEF item
<1>4. Fits(1, gen, item)
  BY <1>2, <1>3, TableFits, TableFields, KeepsReflexive
<1> QED
  BY <1>1, <1>2, <1>4, ReplaceStep

LEMMA IndexCloseKeeps ==
  ASSUME IInv, IndexClose
  PROVE  IInv'
<1> DEFINE base  == EmitIfTableItem(gen, Below.e)
           index == PatchPossible(base.gen, Top.e)
           tree  == ItemNode(Below.ast, Top.ast)
           late  == PatchedLate(base.gen, Top.e, "late_index")
<1>1. HasExpr /\ Under("index") /\ UNCHANGED tokens
      /\ BecomeItem(2, index.gen, base.e, index.e, tree, late)
  BY DEF IndexClose
<1>2. outcome = "parsing" /\ GenOK(gen) /\ ValueOK(Top.e, gen) /\ Settled(Top.e)
      /\ Lists(Top.e) \subseteq Waiting(gen.quads)
  BY <1>1, ExprOnTop
<1>3. 2 \in 0 .. Len(stack) /\ ItemOK(Below, gen) /\ Below.sym = "index"
      /\ KeptOn(2) = Kept(Below) \cup Lists(Top.e)
  BY <1>1, ExprUnder
<1>4. Plain(Below.e, gen) /\ KeptOn(2) = Lists(Top.e)
  BY <1>3, ItemFields DEF Tables
<1>5. Keeps(gen, base.gen) /\ Plain(base.e, base.gen)
  BY <1>2, <1>4, IfTableItemResult
<1>6. late \in SUBSET (Situations \ {"recycled"})
  BY LateSituations DEF Situations
<1> HIDE DEF base, tree, late
<1>7. GenOK(base.gen) /\ ValueOK(Top.e, base.gen) /\ Lists(Top.e) \subseteq Waiting(base.gen.quads)
  BY <1>2, <1>5, ValueLater DEF Keeps
<1>8. Result(base.gen, Lists(Top.e), index) /\ Plain(index.e, index.gen)
  BY <1>2, <1>7, PatchResult
<1> HIDE DEF index
<1>9. GenOK(index.gen) /\ Plain(base.e, index.gen) /\ Later(base.gen, index.gen)
      /\ Waiting(index.gen.quads) = Waiting(gen.quads) \ KeptOn(2)
  BY <1>4, <1>5, <1>7, <1>8, PlainLater, PlainFields DEF Result, Keeps
<1>10. Later(gen, index.gen)
  BY <1>2, <1>5, <1>7, <1>9, LaterTransitive DEF Keeps
<1> QED
  BY <1>1, <1>2, <1>3, <1>6, <1>8, <1>9, <1>10, BecomeItemKeeps

LEMMA MethodOpenKeeps ==
  ASSUME IInv, NEW name \in MemberNames, MethodOpen(name)
  PROVE  IInv'
<1> DEFINE item == [sym |-> "method", e |-> Top.e, ast |-> Top.ast, name |-> name]
<1>1. HasLValue /\ Read /\ Become(gen, Append(Popped(1), item)) /\ UNCHANGED outcome
  BY Zenon DEF MethodOpen
<1>2. outcome = "parsing" /\ GenOK(gen) /\ 1 \in 0 .. Len(stack) /\ Plain(Top.e, gen) /\ KeptOn(1) = {}
  BY <1>1, TableOnTop
<1>3. item.sym = "method" /\ DOMAIN item = {"sym", "e", "ast", "name"} /\ item.e = Top.e /\ item.name = name
  OBVIOUS
<1> HIDE DEF item
<1>4. "method" \in Tables /\ Fields("method") = {"sym", "e", "ast", "name"}
  BY DEF Tables, Fields, Logicals, Infixes, Increments
<1>5. Fits(1, gen, item)
  BY <1>2, <1>3, <1>4, TableFits, KeepsReflexive
<1> QED
  BY <1>1, <1>2, <1>5, ReplaceStep

LEMMA ChangedKeeps ==
  ASSUME IInv, outcome = "parsing", NEW n \in 0 .. Len(stack), NEW result, NEW ast,
         Changed(n, result, ast), Read \/ UNCHANGED tokens, KeptOn(n) = {},
         Keeps(gen, result.gen), Plain(result.e, result.gen)
  PROVE  IInv'
<1>1. Fits(n, result.gen, Item(result.e, ast))
  BY PlainFits
<1>2. CASE Top.e.type = "LIBRARY_FUNC_E"
  <2>1. Refuse("syntax_error", n, ast)
    BY <1>2 DEF Changed
  <2> QED
    BY <2>1, RefuseStep, TokensKept
<1>3. CASE Top.e.type # "LIBRARY_FUNC_E"
  <2>1. Become(result.gen, Append(Popped(n), Item(result.e, ast))) /\ UNCHANGED outcome
    BY <1>3 DEF Changed
  <2> QED
    BY <1>1, <2>1, ReplaceStep
<1> QED
  BY <1>2, <1>3

LEMMA PreopKeeps ==
  ASSUME IInv, NEW op \in Increments, PreopLValue(op)
  PROVE  IInv'
<1> DEFINE result == Preop(gen, IncrementOp(op), Top.e)
           tree   == [node |-> "preop", op |-> IncrementOp(op), left |-> Top.ast]
<1>1. HasLValue /\ Under(op) /\ Changed(2, result, tree) /\ UNCHANGED tokens
  BY DEF PreopLValue
<1>2. outcome = "parsing" /\ GenOK(gen) /\ Plain(Top.e, gen) /\ Kept(Top) = {}
  BY <1>1, TableOnTop
<1>3. op # "bottom"
  BY DEF Increments
<1>4. Len(stack) \in Nat /\ Len(stack) >= 2 /\ ItemOK(Below, gen) /\ Below.sym = op
      /\ KeptOn(2) = Kept(Below) \cup Kept(Top)
  BY <1>1, <1>2, <1>3, BelowItem
<1>5. KeptOn(2) = {} /\ 2 \in 0 .. Len(stack)
  BY <1>2, <1>4, ItemFields
<1>6. IncrementOp(op) \in ArithmOps
  BY DEF IncrementOp, ArithmOps
<1>7. Keeps(gen, result.gen) /\ Plain(result.e, result.gen)
  BY <1>2, <1>6, PreopResult
<1> HIDE DEF result, tree
<1> QED
  BY <1>1, <1>2, <1>5, <1>7, ChangedKeeps

LEMMA PostopKeeps ==
  ASSUME IInv, NEW op \in Increments, LValuePostop(op)
  PROVE  IInv'
<1> DEFINE result == Postop(gen, IncrementOp(op), Top.e)
           tree   == [node |-> "postop", op |-> IncrementOp(op), left |-> Top.ast]
<1>1. HasLValue /\ Changed(1, result, tree) /\ Read
  BY DEF LValuePostop, BareLValue
<1>2. outcome = "parsing" /\ GenOK(gen) /\ Plain(Top.e, gen) /\ KeptOn(1) = {} /\ 1 \in 0 .. Len(stack)
  BY <1>1, TableOnTop
<1>3. IncrementOp(op) \in ArithmOps
  BY DEF IncrementOp, ArithmOps
<1>4. Keeps(gen, result.gen) /\ Plain(result.e, result.gen)
  BY <1>2, <1>3, PostopResult
<1> HIDE DEF result, tree
<1> QED
  BY <1>1, <1>2, <1>4, ChangedKeeps

LEMMA PairsItem ==
  ASSUME NEW item, NEW g, DOMAIN item = {"sym", "pairs", "asts"}, item.sym \in {"key", "indexed"},
         PlainPairs(item.pairs, g)
  PROVE  ItemOK(item, g) /\ Kept(item) = {} /\ item.sym # "tmp_elist"
<1>1. Fields("key") = {"sym", "pairs", "asts"} /\ Fields("indexed") = {"sym", "pairs", "asts"}
  BY DEF Fields, Logicals, Infixes, Increments
<1>2. ItemOK(item, g)
  BY <1>1 DEF ItemOK, Tables, Logicals
<1>3. Kept(item) = {}
  BY DEF Kept
<1> QED
  BY <1>2, <1>3

LEMMA BraceOpenKeeps ==
  ASSUME IInv, BraceOpen
  PROVE  IInv'
<1> DEFINE item == [sym |-> "key", pairs |-> << >>, asts |-> << >>]
<1>1. outcome = "parsing" /\ TopSym = "object" /\ Become(gen, Append(Popped(1), item))
      /\ UNCHANGED <<tokens, outcome>>
  BY Zenon DEF BraceOpen, Parsing
<1>2. stack # << >> /\ Top.sym = "object"
  BY <1>1, TopSymbol
<1>3. Len(stack) \in Nat /\ Len(stack) >= 1 /\ ItemOK(Top, gen) /\ KeptOn(1) = Kept(Top) /\ GenOK(gen)
  BY <1>1, <1>2, TopItem DEF IInv
<1>4. KeptOn(1) = {} /\ 1 \in 0 .. Len(stack)
  BY <1>2, <1>3, ItemFields
<1>5. DOMAIN item = {"sym", "pairs", "asts"} /\ item.sym = "key" /\ item.pairs = << >>
  OBVIOUS
<1> HIDE DEF item
<1>6. PlainPairs(item.pairs, gen)
  <2>1. << >> \in Seq(ToSet(<< >>)) /\ DOMAIN << >> = {}
    OBVIOUS
  <2> QED
    BY <1>5, <2>1 DEF PlainPairs
<1>7. Fits(1, gen, item)
  BY <1>3, <1>4, <1>5, <1>6, PairsItem, KeepsFits, KeepsReflexive DEF Following
<1> QED
  BY <1>1, <1>7, ReplaceStep

LEMMA ColonKeeps ==
  ASSUME IInv, Colon
  PROVE  IInv'
<1> DEFINE item == [sym |-> "value", e |-> Top.e, ast |-> Top.ast, pairs |-> Below.pairs,
                    asts |-> Below.asts]
<1>1. HasExpr /\ Under("key") /\ Become(gen, Append(Popped(2), item)) /\ UNCHANGED <<tokens, outcome>>
  BY DEF Colon
<1>2. outcome = "parsing" /\ GenOK(gen) /\ ValueOK(Top.e, gen) /\ Settled(Top.e)
      /\ Lists(Top.e) \subseteq Waiting(gen.quads)
  BY <1>1, ExprOnTop
<1>3. 2 \in 0 .. Len(stack) /\ ItemOK(Below, gen) /\ Below.sym = "key"
      /\ KeptOn(2) = Kept(Below) \cup Lists(Top.e)
  BY <1>1, ExprUnder
<1>4. PlainPairs(Below.pairs, gen) /\ KeptOn(2) = Lists(Top.e)
  BY <1>3, ItemFields
<1>5. DOMAIN item = {"sym", "e", "ast", "pairs", "asts"} /\ item.sym = "value" /\ item.e = Top.e
      /\ item.pairs = Below.pairs
  OBVIOUS
<1> HIDE DEF item
<1>6. Fields("value") = {"sym", "e", "ast", "pairs", "asts"}
  BY DEF Fields, Logicals, Infixes, Increments
<1>7. ItemOK(item, gen)
  BY <1>2, <1>4, <1>5, <1>6 DEF ItemOK, Tables, Logicals
<1>8. Kept(item) = Lists(Top.e)
  BY <1>5 DEF Kept, Lists
<1>9. Fits(2, gen, item)
  BY <1>2, <1>3, <1>4, <1>5, <1>7, <1>8, SameResult, ResultFits
<1> QED
  BY <1>1, <1>2, <1>9, ReplaceStep

LEMMA PairsLater ==
  ASSUME NEW s, NEW g, NEW h, GenOK(g), GenOK(h), Later(g, h), PlainPairs(s, g)
  PROVE  PlainPairs(s, h)
BY PlainLater DEF PlainPairs

LEMMA BraceCloseKeeps ==
  ASSUME IInv, BraceClose
  PROVE  IInv'
<1> DEFINE key   == PatchPossible(gen, Below.e)
           value == PatchPossible(key.gen, Top.e)
           pair  == [key |-> key.e, value |-> value.e]
           item  == [sym   |-> "indexed",
                     pairs |-> Append(Below.pairs, pair),
                     asts  |-> Append(Below.asts, [key |-> Below.ast, value |-> Top.ast])]
           late  == PatchedLate(gen, Below.e, "late_key") \cup PatchedLate(key.gen, Top.e, "late_key")
<1>1. HasExpr /\ Under("value") /\ BecomePatching(value.gen, Append(Popped(2), item), late)
      /\ UNCHANGED <<tokens, outcome>>
  BY DEF BraceClose
<1>2. outcome = "parsing" /\ GenOK(gen) /\ ValueOK(Top.e, gen) /\ Settled(Top.e)
      /\ Lists(Top.e) \subseteq Waiting(gen.quads)
  BY <1>1, ExprOnTop
<1>3. 2 \in 0 .. Len(stack) /\ ItemOK(Below, gen) /\ Below.sym = "value"
      /\ KeptOn(2) = Kept(Below) \cup Lists(Top.e) /\ Kept(Below) \subseteq Waiting(gen.quads)
      /\ Kept(Below) \cap Lists(Top.e) = {}
  BY <1>1, ExprUnder
<1>4. ValueOK(Below.e, gen) /\ Settled(Below.e) /\ Kept(Below) = Lists(Below.e)
      /\ PlainPairs(Below.pairs, gen)
  BY <1>3, ItemFields
<1>5. Result(gen, Lists(Below.e), key) /\ Plain(key.e, key.gen)
  BY <1>2, <1>3, <1>4, PatchResult
<1>6. late \in SUBSET (Situations \ {"recycled"})
  <2>1. "late_key" \in Situations \ {"recycled"}
    BY DEF Situations
  <2>2. PatchedLate(gen, Below.e, "late_key") \in SUBSET (Situations \ {"recycled"})
        /\ PatchedLate(key.gen, Top.e, "late_key") \in SUBSET (Situations \ {"recycled"})
    BY <2>1, LateSituations
  <2> QED
    BY <2>2
<1> HIDE DEF key, late
<1>7. GenOK(key.gen) /\ Later(gen, key.gen) /\ Lists(key.e) = {}
      /\ Waiting(key.gen.quads) = Waiting(gen.quads) \ Lists(Below.e)
  BY <1>5, PlainFields DEF Result
<1>8. ValueOK(Top.e, key.gen) /\ Lists(Top.e) \subseteq Waiting(key.gen.quads)
  BY <1>2, <1>3, <1>4, <1>7, ValueLater
<1>9. Result(key.gen, Lists(Top.e), value) /\ Plain(value.e, value.gen)
  BY <1>2, <1>7, <1>8, PatchResult
<1> HIDE DEF value
<1>10. Result(gen, KeptOn(2), value)
  <2>1. Result(gen, Lists(Below.e) \cup Lists(Top.e), value)
    BY <1>2, <1>5, <1>7, <1>9, ResultsCompose
  <2>2. Lists(Below.e) \cup Lists(Top.e) = KeptOn(2)
    BY <1>3, <1>4
  <2> QED
    BY <2>1, <2>2
<1>11. GenOK(value.gen) /\ Later(gen, value.gen) /\ Later(key.gen, value.gen)
  BY <1>9, <1>10 DEF Result
<1>12. PlainPairs(Append(Below.pairs, pair), value.gen)
  <2>1. pair.key = key.e /\ pair.value = value.e
    OBVIOUS
  <2> HIDE DEF pair
  <2>2. Plain(pair.key, value.gen) /\ Plain(pair.value, value.gen)
    BY <1>5, <1>7, <1>9, <1>11, <2>1, PlainLater
  <2>3. PlainPairs(Below.pairs, value.gen)
    BY <1>2, <1>4, <1>11, PairsLater
  <2> QED
    BY <2>2, <2>3, PlainPairsAppend
<1>13. DOMAIN item = {"sym", "pairs", "asts"} /\ item.sym = "indexed"
       /\ item.pairs = Append(Below.pairs, pair)
  OBVIOUS
<1> HIDE DEF item, pair
<1>14. ItemOK(item, value.gen) /\ Kept(item) = {} /\ item.sym # "tmp_elist"
  <2>1. PlainPairs(item.pairs, value.gen)
    BY <1>12, <1>13
  <2> QED
    BY <1>13, <2>1, PairsItem
<1>15. Lists(value.e) = {}
  BY <1>9, PlainFields
<1>16. Fits(2, value.gen, item)
  BY <1>3, <1>10, <1>14, <1>15, ResultFits
<1> QED
  BY <1>1, <1>2, <1>6, <1>16, BecomeStep, TokensKept

LEMMA NextPairKeeps ==
  ASSUME IInv, NextPair
  PROVE  IInv'
<1> DEFINE item == [Top EXCEPT !.sym = "key"]
<1>1. outcome = "parsing" /\ TopSym = "indexed" /\ Read /\ Become(gen, Append(Popped(1), item))
      /\ UNCHANGED outcome
  BY Zenon DEF NextPair, Parsing
<1>2. stack # << >> /\ Top.sym = "indexed"
  BY <1>1, TopSymbol
<1>3. Len(stack) \in Nat /\ Len(stack) >= 1 /\ ItemOK(Top, gen) /\ KeptOn(1) = Kept(Top) /\ GenOK(gen)
  BY <1>1, <1>2, TopItem DEF IInv
<1>4. PlainPairs(Top.pairs, gen) /\ DOMAIN Top = {"sym", "pairs", "asts"}
  <2>1. Fields("indexed") = {"sym", "pairs", "asts"}
    BY DEF Fields, Logicals, Infixes, Increments
  <2> QED
    BY <1>2, <1>3, <2>1, ItemFields DEF ItemOK
<1>5. KeptOn(1) = {} /\ 1 \in 0 .. Len(stack)
  BY <1>2, <1>3, <1>4 DEF Kept
<1>6. DOMAIN item = {"sym", "pairs", "asts"} /\ item.sym = "key" /\ item.pairs = Top.pairs
  BY <1>4
<1> HIDE DEF item
<1>7. Fits(1, gen, item)
  BY <1>3, <1>4, <1>5, <1>6, PairsItem, KeepsFits, KeepsReflexive DEF Following
<1> QED
  BY <1>1, <1>7, ReplaceStep

LEMMA IndexedObjectKeeps ==
  ASSUME IInv, IndexedObject
  PROVE  IInv'
<1> DEFINE result == ObjectDef(gen, Top.pairs)
           tree   == [node |-> "indexed", pairs |-> Top.asts]
<1>1. outcome = "parsing" /\ TopSym = "indexed" /\ UNCHANGED <<tokens, outcome>>
      /\ Become(result.gen, Append(Popped(1), Item(result.e, tree)))
  BY DEF IndexedObject, Parsing
<1>2. stack # << >> /\ Top.sym = "indexed"
  BY <1>1, TopSymbol
<1>3. Len(stack) \in Nat /\ Len(stack) >= 1 /\ ItemOK(Top, gen) /\ KeptOn(1) = Kept(Top) /\ GenOK(gen)
  BY <1>1, <1>2, TopItem DEF IInv
<1>4. PlainPairs(Top.pairs, gen) /\ KeptOn(1) = {} /\ 1 \in 0 .. Len(stack)
  BY <1>2, <1>3, ItemFields
<1>5. Keeps(gen, result.gen) /\ Plain(result.e, result.gen)
  BY <1>3, <1>4, ObjectResult
<1> HIDE DEF result, tree
<1>6. Fits(1, result.gen, Item(result.e, tree))
  BY <1>4, <1>5, PlainFits
<1> QED
  BY <1>1, <1>6, ReplaceStep

-----------------------------------------------------------------------------
(* The invariant holds.                                                    *)

LEMMA InitHolds == Init => IInv
<1> SUFFICES ASSUME Init PROVE IInv
  OBVIOUS
<1>1. fragment \in Fragments /\ stack = << >> /\ gen = [quads |-> << >>, count |-> 0] /\ tokens = 0
      /\ outcome = "parsing" /\ hazards = {}
  BY DEF Init
<1>2. fragment.MaxTokens \in Nat
  BY <1>1, ShortCircuitAssumption
<1>3. gen.quads = << >> /\ gen.count = 0
  BY <1>1
<1>4. DOMAIN << >> = {} /\ Len(<< >>) = 0 /\ << >> \in Seq(QuadSet) /\ << >> \in Seq(ToSet(<< >>))
  OBVIOUS
<1>5. GenOK(gen)
  BY <1>1, <1>3, <1>4 DEF GenOK
<1>6. StackOK(stack, gen)
  BY <1>1, <1>4 DEF StackOK, ListsFollow
<1>7. Waiting(gen.quads) = {}
  BY <1>3, <1>4 DEF Waiting
<1>8. Balanced(stack, gen)
  BY <1>1, <1>4, <1>7 DEF Balanced
<1> QED
  BY <1>1, <1>2, <1>5, <1>6, <1>8 DEF IInv

LEMMA OperandKeeps == IInv /\ Operand => IInv'
<1> SUFFICES ASSUME IInv, Operand PROVE IInv'
  OBVIOUS
<1>1. ASSUME NEW v \in fragment.names, Identifier(Var(v)) PROVE IInv'
  BY <1>1, NamePlain, IdentifierKeeps
<1>2. ASSUME NEW f \in fragment.functions, Identifier(Const(f)) PROVE IInv'
  BY <1>2, NamePlain, IdentifierKeeps
<1>3. ASSUME NEW c \in fragment.literals, Constant(c) PROVE IInv'
  BY <1>3, ConstantKeeps
<1> QED
  BY <1>1, <1>2, <1>3, PrimaryKeeps, FuncDefActionKeeps DEF Operand

LEMMA OperatorKeeps == IInv /\ Operator => IInv'
<1> SUFFICES ASSUME IInv, Operator PROVE IInv'
  OBVIOUS
<1>1. ASSUME NEW op \in {"not", "uminus"}, Unary(op) PROVE IInv'
  <2>1. outcome = "parsing" /\ Read /\ Shift([sym |-> op]) /\ UNCHANGED outcome
    BY <1>1 DEF Unary, NeedsExpr, NeedsLeaf, Parsing
  <2>2. op \in {"not", "uminus", "object"} \cup Increments
    OBVIOUS
  <2> QED
    BY <2>1, <2>2, UnaryKeeps
<1>2. ASSUME NEW op \in DOMAIN Opcode \ Equality, Infix(op) PROVE IInv'
  BY <1>2, InfixKeeps
<1>3. ASSUME NEW op \in Equality, EqualityPrefix(op) \/ EqualityExpr(op) PROVE IInv'
  BY <1>3, EqualityPrefixKeeps, EqualityExprKeeps
<1>4. ASSUME NEW op \in {"and", "or"}, LogicalPrefix(op) \/ LogicalExpr(op) PROVE IInv'
  BY <1>4, LogicalPrefixKeeps, LogicalExprKeeps DEF Logicals
<1>5. ASSUME NEW op \in {"+", "-", "*", "/", "%"}, Arithmetic(op) PROVE IInv'
  BY <1>5, ArithmeticKeeps
<1>6. ASSUME NEW op \in {"<", "<=", ">", ">="}, Comparison(op) PROVE IInv'
  BY <1>6, ComparisonKeeps
<1> QED
  BY <1>1, <1>2, <1>3, <1>4, <1>5, <1>6, NotKeeps, MinusKeeps, AssignKeeps, AssignExprKeeps
  DEF Operator

LEMMA ListKeeps == IInv /\ List => IInv'
BY CallOpenKeeps, CommaKeeps, NextElementKeeps, EmptyListKeeps, OneElementKeeps, MoreElementsKeeps
DEF List

LEMMA TableOperatorKeeps == IInv /\ TableOperator => IInv'
<1> SUFFICES ASSUME IInv, TableOperator PROVE IInv'
  OBVIOUS
<1>1. ASSUME NEW id \in MemberNames, Member(id) \/ MethodOpen(id) PROVE IInv'
  BY <1>1, MemberKeeps, MethodOpenKeeps
<1>2. ASSUME NEW op \in Increments, Increment(op) PROVE IInv'
  <2>1. outcome = "parsing" /\ Read /\ Shift([sym |-> op]) /\ UNCHANGED outcome
    BY <1>2 DEF Increment, NeedsExpr, NeedsLeaf, Parsing
  <2>2. op \in {"not", "uminus", "object"} \cup Increments
    OBVIOUS
  <2> QED
    BY <2>1, <2>2, UnaryKeeps
<1>3. ASSUME NEW op \in Increments, PreopLValue(op) \/ LValuePostop(op) PROVE IInv'
  BY <1>3, PreopKeeps, PostopKeeps
<1> QED
  BY <1>1, <1>2, <1>3, IndexOpenKeeps, IndexCloseKeeps DEF TableOperator

LEMMA ObjectKeeps == IInv /\ Object => IInv'
<1> SUFFICES ASSUME IInv, Object PROVE IInv'
  OBVIOUS
<1>1. CASE ObjectOpen
  <2>1. outcome = "parsing" /\ Read /\ Shift([sym |-> "object"]) /\ UNCHANGED outcome
    BY <1>1, Zenon DEF ObjectOpen, NeedsExpr, NeedsLeaf, Parsing
  <2>2. "object" \in {"not", "uminus", "object"} \cup Increments
    OBVIOUS
  <2> QED
    BY <2>1, <2>2, UnaryKeeps
<1> QED
  BY <1>1, BraceOpenKeeps, ColonKeeps, BraceCloseKeeps, NextPairKeeps, IndexedObjectKeeps DEF Object

LEMMA NextKeeps == IInv /\ [Next]_vars => IInv'
<1>1. IInv /\ UNCHANGED vars => IInv'
  BY DEF IInv, vars
<1> QED
  BY <1>1, OperandKeeps, OperatorKeeps, ListKeeps, SemicolonKeeps, TableOperatorKeeps, ObjectKeeps
  DEF Next, ExpressionNext

LEMMA InvariantHolds == Spec => []IInv
BY InitHolds, NextKeeps, PTL DEF Spec

-----------------------------------------------------------------------------
(* What follows from it.                                                   *)

LEMMA TypesFollow == IInv => TypeOK
<1> SUFFICES ASSUME IInv PROVE TypeOK
  OBVIOUS
<1>1. GenOK(gen) /\ StackOK(stack, gen)
  BY DEF IInv
<1>2. gen.count \in Nat /\ Len(gen.quads) \in Nat /\ DOMAIN gen.quads = 1 .. Len(gen.quads)
      /\ \A i \in 1 .. Len(gen.quads) : /\ gen.quads[i] \in QuadSet
                                        /\ Sound(gen.quads[i], gen)
                                        /\ gen.quads[i].label <= Len(gen.quads) + 1
  BY <1>1, GenFields
<1>3. ASSUME NEW q \in ToSet(gen.quads)
      PROVE  /\ q.label \in 0 .. NextQuadLabel(gen.quads) + 1
             /\ {q.result, q.arg1, q.arg2} \subseteq Places
             /\ None \notin Operands(q)
  <2>1. PICK i \in 1 .. Len(gen.quads) : q = gen.quads[i]
    BY <1>2 DEF ToSet
  <2>2. q \in QuadSet /\ Sound(q, gen) /\ q.label <= Len(gen.quads) + 1
    BY <1>2, <2>1
  <2>3. q.label \in Nat /\ q.result \in Places /\ q.arg1 \in Places /\ q.arg2 \in Places
    BY <2>2 DEF QuadSet
  <2> QED
    BY <1>2, <2>2, <2>3 DEF NextQuadLabel, Sound
<1>4. \A e \in Exprs(stack) : e.place \in Places /\ (e.type = "BOOL_E" <=> e.place = None)
  <2> SUFFICES ASSUME NEW e \in Exprs(stack)
               PROVE  e.place \in Places /\ (e.type = "BOOL_E" <=> e.place = None)
    OBVIOUS
  <2>1. ValueOK(e, gen)
    BY <1>1, ValuesOK
  <2> QED
    BY <2>1 DEF ValueOK, ExprSet
<1>5. ASSUME NEW item \in ToSet(stack), item.sym \in {"expr", "value"}
      PROVE  MustBePatched(item.e) <=> item.e.type = "BOOL_E"
  <2>1. PICK i \in DOMAIN stack : item = stack[i]
    BY DEF ToSet
  <2>2. ItemOK(item, gen)
    BY <1>1, <2>1 DEF StackOK
  <2> QED
    BY <1>5, <2>2, ItemFields DEF Settled
<1> QED
  BY <1>2, <1>3, <1>4, <1>5 DEF IInv, TypeOK

(* The types of the parser's state: labels of the code exist or soon will, *)
(* a value has a place unless it is a BOOL_E, no instruction has an operand*)
(* without a place, and what has to be patched is a BOOL_E.                *)
THEOREM TypeCorrect == Spec => []TypeOK
BY InvariantHolds, TypesFollow, PTL

LEMMA WaitingFollows == IInv => EveryJumpWaits
<1> SUFFICES ASSUME IInv PROVE EveryJumpWaits
  OBVIOUS
<1>1. /\ Len(gen.quads) \in Nat /\ DOMAIN gen.quads = 1 .. Len(gen.quads)
      /\ DOMAIN stack = 1 .. Len(stack) /\ Len(stack) \in Nat
      /\ \A i \in 1 .. Len(stack) : ItemOK(stack[i], gen)
  BY GenFields, StackFields DEF IInv
<1> DEFINE Holds(n, at) == n \in Pending(stack, at)
<1>2. \A at \in PendingLists(stack) :
        /\ at[1] \in DOMAIN stack /\ "e" \in DOMAIN stack[at[1]]
        /\ at = <<at[1], at[2]>> /\ at[2] \in {"truelist", "falselist"}
  BY DEF PendingLists
<1>3. \A i \in DOMAIN stack, list \in {"truelist", "falselist"} :
        "e" \in DOMAIN stack[i] =>
          <<i, list>> \in PendingLists(stack) /\ Pending(stack, <<i, list>>) = stack[i].e[list]
  BY DEF PendingLists, Pending
<1>4. \A i \in DOMAIN stack : "e" \in DOMAIN stack[i] =>
        /\ Kept(stack[i]) = stack[i].e["truelist"] \cup stack[i].e["falselist"]
        /\ stack[i].e["truelist"] \cap stack[i].e["falselist"] = {}
        /\ Kept(stack[i]) \subseteq Nat
  <2> SUFFICES ASSUME NEW i \in DOMAIN stack, "e" \in DOMAIN stack[i]
               PROVE  /\ Kept(stack[i]) = stack[i].e["truelist"] \cup stack[i].e["falselist"]
                      /\ stack[i].e["truelist"] \cap stack[i].e["falselist"] = {}
                      /\ Kept(stack[i]) \subseteq Nat
    OBVIOUS
  <2>1. ValueOK(stack[i].e, gen)
    BY <1>1 DEF ItemOK
  <2> QED
    BY <2>1 DEF Kept, ValueOK, ExprSet
<1>5. \A at \in PendingLists(stack) : Pending(stack, at) \subseteq Kept(stack[at[1]])
  BY <1>2, <1>4 DEF Pending
<1>6. ASSUME outcome = "parsing", NEW n \in Waiting(gen.quads)
      PROVE  \E at : {s \in PendingLists(stack) : Holds(n, s)} = {at}
  <2>1. n \in Nat
    BY DEF Waiting
  <2>2. Balanced(stack, gen)
    BY <1>6 DEF IInv
  <2>3. PICK i \in DOMAIN stack : n \in Kept(stack[i])
    BY <2>1, <2>2 DEF Balanced
  <2>4. "e" \in DOMAIN stack[i]
    BY <2>3 DEF Kept
  <2>5. PICK list \in {"truelist", "falselist"} : n \in stack[i].e[list]
    BY <1>4, <2>3, <2>4
  <2>6. <<i, list>> \in PendingLists(stack) /\ Holds(n, <<i, list>>)
    BY <1>3, <2>4, <2>5
  <2>7. ASSUME NEW at \in PendingLists(stack), Holds(n, at)
        PROVE  at = <<i, list>>
    <3>1. at[1] \in DOMAIN stack /\ n \in Kept(stack[at[1]])
      BY <1>2, <1>5, <2>7
    <3>2. at[1] = i
      BY <2>2, <2>3, <3>1 DEF Balanced
    <3>3. at[2] = list
      <4>1. n \in stack[i].e[at[2]] /\ at[2] \in {"truelist", "falselist"}
        BY <1>2, <2>7, <3>2 DEF Pending
      <4>2. stack[i].e["truelist"] \cap stack[i].e["falselist"] = {}
        BY <1>4, <2>4
      <4> QED
        BY <2>5, <4>1, <4>2
    <3> QED
      BY <1>2, <3>2, <3>3
  <2> QED
    BY <2>6, <2>7
<1>7. ASSUME NEW i \in DOMAIN gen.quads, gen.quads[i].op \in Jumps, gen.quads[i].label = 0,
             outcome = "parsing"
      PROVE  Quantify(PendingLists(stack), LAMBDA at : i - 1 \in Pending(stack, at)) = 1
  <2>1. i - 1 \in Waiting(gen.quads)
    BY <1>1, <1>7 DEF Waiting
  <2>2. PICK at : {s \in PendingLists(stack) : Holds(i - 1, s)} = {at}
    BY <1>6, <1>7, <2>1
  <2>3. Cardinality({at}) = 1
    BY FS_Singleton
  <2>4. Quantify(PendingLists(stack), LAMBDA s : i - 1 \in Pending(stack, s))
          = Cardinality({s \in PendingLists(stack) : Holds(i - 1, s)})
    BY DEF Quantify
  <2> QED
    BY <2>2, <2>3, <2>4
<1>8. ASSUME NEW at \in PendingLists(stack), NEW n \in Pending(stack, at), outcome = "parsing"
      PROVE  gen.quads[n + 1].label = 0
  <2>1. at[1] \in DOMAIN stack /\ n \in Kept(stack[at[1]]) /\ n \in Nat
    BY <1>2, <1>4, <1>5
  <2>2. n \in Waiting(gen.quads)
    BY <1>8, <2>1 DEF IInv, Balanced
  <2> QED
    BY <2>2 DEF Waiting
<1>9. ASSUME outcome = "compiled", NEW q \in ToSet(gen.quads), q.op \in Jumps
      PROVE  q.label # 0
  <2>1. PICK i \in DOMAIN gen.quads : q = gen.quads[i]
    BY DEF ToSet
  <2>2. i - 1 \in 0 .. Len(gen.quads) - 1 /\ i - 1 + 1 = i
    BY <1>1
  <2>3. Waiting(gen.quads) = {}
    BY <1>9 DEF IInv
  <2> QED
    BY <1>9, <2>1, <2>2, <2>3 DEF Waiting
<1> QED
  BY <1>7, <1>8, <1>9 DEF EveryJumpWaits

(* Every jump without a target waits on exactly one list of one value of   *)
(* the stack, the lists hold no other jumps, and a statement that is       *)
(* compiled has none left: through negation, merging and every patch.      *)
THEOREM JumpsWait == Spec => []EveryJumpWaits
BY InvariantHolds, WaitingFollows, PTL

LEMMA HiddenFollows == IInv => HiddenVariablesStay
<1> SUFFICES ASSUME IInv, ~DefinesFunction PROVE "recycled" \notin hazards
             /\ \A q \in ToSet(gen.quads) : q.op = "tablegetelem" => q.result # q.arg1
  BY DEF HiddenVariablesStay
<1>1. ~Defines(gen)
  BY DEF DefinesFunction, Defines, ToSet
<1>2. "recycled" \notin hazards
  BY <1>1 DEF IInv
<1>3. \A q \in ToSet(gen.quads) : Sound(q, gen)
  BY DEF IInv, GenOK, ToSet
<1> QED
  BY <1>1, <1>2, <1>3 DEF Sound

(* In a statement that defines no function, no hidden variable that a      *)
(* value is kept in is handed out again, and no member is fetched into the *)
(* variable that holds its table: a variable in use is below the counter.  *)
THEOREM HiddenStay == Spec => []HiddenVariablesStay
BY InvariantHolds, HiddenFollows, PTL
=============================================================================
