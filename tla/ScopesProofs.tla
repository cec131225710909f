---------------------------- MODULE ScopesProofs ----------------------------
(***************************************************************************)
(* Proofs about Scopes for every set of identifiers, every list of library *)
(* functions and programs of every size: the handlers stay in step with    *)
(* the source, and variables get places of their own where the machine     *)
(* reaches them.  The inductive invariant is IInv.  The actions change the *)
(* state in five ways only (Stop and Refer, NewVar, BlockOpen, FuncOpen,   *)
(* leaving a block); each has a lemma for each conjunct it disturbs.       *)
(*                                                                         *)
(* Then, with Named for IInv, that Scopes implements Environments: each    *)
(* handler takes the mapped state where the rule for it takes it.          *)
(***************************************************************************)
EXTENDS Scopes, NaturalSets, SequenceTheorems, FiniteSetTheorems, TLAPS

(* h is the function that the scope s belongs to, 0 for the program: the   *)
(* innermost one opened at or below s.                                     *)
HomeAt(s, h) ==
  \/ h = 0 /\ \A j \in 1 .. s : open[j] = 0
  \/ h # 0 /\ \E j \in 1 .. s : open[j] = h /\ \A m \in j + 1 .. s : open[m] = 0

TableGrows ==
  Len(sym_table) \in Len(LibFuncs) .. Len(LibFuncs) + MaxEntries

(* Open functions were inserted one after the other. *)
FunctionsNested ==
  /\ \A j, k \in DOMAIN func_handler : j < k => func_handler[j] < func_handler[k]
  /\ \A k \in DOMAIN func_handler : IsFunc(sym_table[func_handler[k]])

(* Hidden or visible, a variable is in the program's space if and only if  *)
(* it is the program's; the others belong to a function that is there.     *)
SpacesFit ==
  \A i \in DOMAIN sym_table : IsVar(i) =>
    /\ sym_table[i].ss = "PROGRAM_SS" <=> sym_table[i].home = 0
    /\ sym_table[i].home # 0 => /\ sym_table[i].home \in DOMAIN sym_table
                                /\ IsFunc(sym_table[sym_table[i].home])

(* A visible variable belongs to the function its scope is in. *)
VisibleAtHome ==
  \A i \in DOMAIN sym_table :
    IsVar(i) /\ sym_table[i].visible => HomeAt(sym_table[i].scope, sym_table[i].home)

Structure ==
  /\ TableGrows
  /\ HandlersInStep
  /\ FunctionsNested
  /\ SpacesFit
  /\ VisibleAtHome
  /\ PlacesDistinct
  /\ EnoughLocals

IInv == TypeOK /\ OneVisibleEntry /\ OperandsInScope /\ Structure

-----------------------------------------------------------------------------
LEMMA FrontFields ==
  ASSUME NEW S, NEW s \in Seq(S), s # << >>
  PROVE  /\ Front(s) \in Seq(S)
         /\ Len(Front(s)) = Len(s) - 1
         /\ Len(s) \in Nat \ {0}
         /\ DOMAIN Front(s) = 1 .. Len(s) - 1
         /\ \A i \in 1 .. Len(s) - 1 : Front(s)[i] = s[i]
         /\ Last(s) = s[Len(s)]
  <1>1. Len(s) \in Nat \ {0}
    BY EmptySeq
  <1> DEFINE m == Len(s) - 1
             t == SubSeq(s, 1, m)
  <1>2. m \in Nat /\ m <= Len(s)
    BY <1>1
  <1>3. t = [i \in 1 .. m |-> s[i]] /\ \A i \in 1 .. m : s[i] \in S
    <2> HIDE DEF m
    <2> QED
      BY <1>1, <1>2
  <1>4. t \in Seq(S) /\ Len(t) = m /\ DOMAIN t = 1 .. m /\ \A i \in 1 .. m : t[i] = s[i]
    <2> HIDE DEF m, t
    <2> QED
      BY <1>2, <1>3
  <1> QED
    BY <1>1, <1>4 DEF Front, Last

(* The types of the fields. *)
LEMMA HandlerFields ==
  ASSUME TypeOK
  PROVE  /\ sym_table \in Seq(Entries)
         /\ Len(sym_table) \in Nat
         /\ DOMAIN sym_table = 1 .. Len(sym_table)
         /\ scp_handler.ss_stack \in Seq(ScopeSpaces)
         /\ scp_handler.ss_offset_stack \in Seq(Nat)
         /\ scp_handler.func_scope_stack \in Seq(Nat)
         /\ Scope \in Nat
         /\ func_handler \in Seq(DOMAIN sym_table)
         /\ Len(func_handler) \in Nat
         /\ DOMAIN func_handler = 1 .. Len(func_handler)
         /\ open \in Seq({0} \cup DOMAIN sym_table)
         /\ Len(open) \in Nat
         /\ DOMAIN open = 1 .. Len(open)
  BY DEF TypeOK, Scope

VarTypes == {"GLOBAL", "LOCAL", "FORMAL_ARG"}

LEMMA EntryFields ==
  ASSUME TypeOK, NEW i \in DOMAIN sym_table
  PROVE  /\ sym_table[i].scope \in Nat
         /\ sym_table[i].name \in Names \cup GenericNames
         /\ sym_table[i].visible \in BOOLEAN
         /\ IsVar(i) => /\ sym_table[i].type \in VarTypes
                        /\ sym_table[i].ss \in ScopeSpaces
                        /\ sym_table[i].offset \in Nat
                        /\ sym_table[i].home \in Nat
  BY HandlerFields DEF Entries, IsVar, IsFunc, VarTypes

(* The scopes of functions, one by one. *)
LEMMA InStep ==
  ASSUME TypeOK, HandlersInStep
  PROVE  LET depth == Len(func_handler)
             below == scp_handler.func_scope_stack
         IN  /\ below \in [1 .. depth -> Nat]
             /\ \A j, k \in 1 .. depth : j < k => below[j] < below[k]
             /\ \A k \in 1 .. depth : /\ below[k] + 1 \in 1 .. Len(open)
                                     /\ open[below[k] + 1] = func_handler[k]
                                     /\ open[below[k] + 1] # 0
             /\ \A j \in 1 .. Len(open) :
                  open[j] # 0 => \E k \in 1 .. depth : j = below[k] + 1
  <1> DEFINE depth == Len(func_handler)
             below == scp_handler.func_scope_stack
  <1>1. below \in [1 .. depth -> Nat]
    <2>1. Len(below) = depth
      BY DEF HandlersInStep
    <2>2. below \in Seq(Nat)
      BY HandlerFields
    <2> HIDE DEF below, depth
    <2> QED
      BY <2>1, <2>2
  <1>2. /\ \A j, k \in 1 .. depth : j < k => below[j] < below[k]
        /\ {j \in 1 .. Len(open) : open[j] # 0} = {below[k] + 1 : k \in 1 .. depth}
        /\ \A k \in 1 .. depth : open[below[k] + 1] = func_handler[k]
    BY HandlerFields DEF HandlersInStep, FunctionsIn
  <1>3. \A k \in 1 .. depth : below[k] + 1 \in {j \in 1 .. Len(open) : open[j] # 0}
    BY <1>2
  <1>4. \A j \in 1 .. Len(open) : open[j] # 0 => \E k \in 1 .. depth : j = below[k] + 1
    BY <1>2
  <1> QED
    BY <1>1, <1>2, <1>3, <1>4

(* Where the parser is: the function it is in, if any, is the innermost    *)
(* that is open, and its variables go to the newest scope space.           *)
LEMMA Here ==
  ASSUME TypeOK, Structure
  PROVE  /\ HomeAt(Scope, Home)
         /\ Len(func_handler) = 0 => Home = 0 /\ CurrentSS(scp_handler) = "PROGRAM_SS"
         /\ Len(func_handler) # 0 =>
              /\ Home = func_handler[Len(func_handler)]
              /\ Home \in DOMAIN sym_table
              /\ IsFunc(sym_table[Home])
              /\ CurrentSS(scp_handler) = "FUNCTION_LOCALS_SS"
         /\ Len(scp_handler.ss_offset_stack) = Len(func_handler) + 1
         /\ NextOffset(scp_handler) = scp_handler.ss_offset_stack[Len(func_handler) + 1]
         /\ NextOffset(scp_handler) \in Nat
  <1> DEFINE depth == Len(func_handler)
             below == scp_handler.func_scope_stack
  <1>1. HandlersInStep
    BY DEF Structure
  <1>2. /\ Len(scp_handler.ss_offset_stack) = depth + 1
        /\ NextOffset(scp_handler) = scp_handler.ss_offset_stack[depth + 1]
        /\ NextOffset(scp_handler) \in Nat
    BY <1>1, HandlerFields DEF HandlersInStep, NextOffset, Last
  <1>3. CurrentSS(scp_handler) = IF depth = 0 THEN "PROGRAM_SS" ELSE "FUNCTION_LOCALS_SS"
    BY <1>1, HandlerFields DEF HandlersInStep, CurrentSS, Last
  <1>4. CASE depth = 0
    <2>1. Home = 0
      BY <1>4, HandlerFields DEF Home
    <2>2. \A j \in 1 .. Len(open) : open[j] = 0
      BY <1>1, <1>4, HandlerFields DEF HandlersInStep, FunctionsIn
    <2> QED
      BY <1>1, <1>2, <1>3, <1>4, <2>1, <2>2 DEF HomeAt, HandlersInStep
  <1>5. CASE depth # 0
    <2>1. depth \in Nat /\ depth \in DOMAIN func_handler /\ func_handler # << >>
      BY <1>5, HandlerFields
    <2>2. /\ Home = func_handler[depth]
          /\ Home \in DOMAIN sym_table
          /\ IsFunc(sym_table[Home])
      <3>1. Home = func_handler[depth]
        <4>1. func_handler # << >>
          BY <2>1
        <4> QED
          BY <4>1 DEF Home, Last
      <3>2. func_handler[depth] \in DOMAIN sym_table
        <4>1. func_handler \in Seq(DOMAIN sym_table)
          BY HandlerFields
        <4> QED
          BY <2>1, <4>1
      <3>3. IsFunc(sym_table[func_handler[depth]])
        BY <2>1 DEF Structure, FunctionsNested
      <3> QED
        BY <3>1, <3>2, <3>3
    <2>3. Home # 0
      BY <2>2, HandlerFields
    <2>4. /\ below \in [1 .. depth -> Nat]
          /\ \A k \in 1 .. depth : k = depth \/ below[k] < below[depth]
          /\ below[depth] + 1 \in 1 .. Len(open)
          /\ open[below[depth] + 1] = Home
          /\ \A j \in 1 .. Len(open) :
               open[j] # 0 => \E k \in 1 .. depth : j = below[k] + 1
      <3>1. /\ below \in [1 .. depth -> Nat]
            /\ \A j, k \in 1 .. depth : j < k => below[j] < below[k]
            /\ \A k \in 1 .. depth : /\ below[k] + 1 \in 1 .. Len(open)
                                    /\ open[below[k] + 1] = func_handler[k]
            /\ \A j \in 1 .. Len(open) :
                 open[j] # 0 => \E k \in 1 .. depth : j = below[k] + 1
        BY <1>1, InStep
      <3>2. depth \in 1 .. depth /\ \A k \in 1 .. depth : k = depth \/ k < depth
        BY <1>5, <2>1
      <3> QED
        BY <2>2, <3>1, <3>2
    <2>5. ASSUME NEW m \in below[depth] + 2 .. Len(open)
          PROVE  open[m] = 0
      <3>1. SUFFICES ASSUME open[m] # 0 PROVE FALSE
        OBVIOUS
      <3>2. below[depth] \in Nat /\ Len(open) \in Nat
        BY <2>1, <2>4, HandlerFields
      <3>3. m \in 1 .. Len(open)
        BY <3>2
      <3>4. PICK k \in 1 .. depth : m = below[k] + 1
        BY <2>4, <3>1, <3>3
      <3>5. below[k] \in Nat /\ below[k] <= below[depth]
        <4>1. below[k] \in Nat
          BY <2>4
        <4> QED
          BY <2>4, <3>2, <4>1
      <3> QED
        BY <3>2, <3>4, <3>5
    <2>6. HomeAt(Scope, Home)
      <3>1. Scope = Len(open)
        BY <1>1 DEF HandlersInStep
      <3>2. below[depth] + 1 \in 1 .. Scope /\ open[below[depth] + 1] = Home
        BY <2>4, <3>1
      <3>3. \A m \in (below[depth] + 1) + 1 .. Scope : open[m] = 0
        <4>1. below[depth] \in Nat
          BY <2>1, <2>4
        <4>2. (below[depth] + 1) + 1 = below[depth] + 2
          BY <4>1
        <4> QED
          BY <2>5, <3>1, <4>2
      <3> HIDE DEF below, depth
      <3> QED
        BY <2>3, <3>2, <3>3 DEF HomeAt
    <2> QED
      BY <1>2, <1>3, <1>5, <2>2, <2>6
  <1> QED
    BY <1>4, <1>5

(* TotalLocals, as a function of what it looks at.                         *)
TotalIn(table, functions, offsets, home) ==
  IF \E k \in DOMAIN functions : functions[k] = home
  THEN offsets[1 + CHOOSE k \in DOMAIN functions : functions[k] = home]
  ELSE table[home].total_locals

(* The locals of an open function are counted in its scope space.          *)
LEMMA OpenTotals ==
  ASSUME NEW table, NEW functions, NEW offsets, NEW k \in DOMAIN functions,
         \A j \in DOMAIN functions : functions[j] = functions[k] => j = k
  PROVE  TotalIn(table, functions, offsets, functions[k]) = offsets[1 + k]
  <1>1. (CHOOSE j \in DOMAIN functions : functions[j] = functions[k]) = k
    OBVIOUS
  <1> QED
    BY <1>1 DEF TotalIn

(* Open functions are different functions. *)
LEMMA FunctionsDiffer ==
  ASSUME TypeOK, FunctionsNested
  PROVE  \A j, k \in DOMAIN func_handler : func_handler[j] = func_handler[k] => j = k
  <1>1. func_handler \in Seq(Nat)
    BY HandlerFields
  <1> QED
    BY <1>1 DEF FunctionsNested

(* EnoughLocals in these terms. *)
LEMMA EnoughInTotal ==
  ASSUME TypeOK, EnoughLocals,
         NEW i \in DOMAIN sym_table, IsVar(i)
  PROVE  /\ sym_table[i].ss = "FUNCTION_LOCALS_SS"
              => sym_table[i].offset < TotalIn(sym_table, func_handler,
                                               scp_handler.ss_offset_stack, sym_table[i].home)
         /\ sym_table[i].ss = "PROGRAM_SS"
              => sym_table[i].offset < Head(scp_handler.ss_offset_stack)
  BY DEF EnoughLocals, TotalLocals, TotalIn

(* A visible entry is the only one if no two are alike. *)
LEMMA OnlyEntry ==
  ASSUME NEW table
  PROVE  (\A i \in DOMAIN table :
            table[i].visible => Lookup(table, table[i].name, table[i].scope) = {i})
         <=>
         (\A i, j \in DOMAIN table :
            /\ table[i].visible /\ table[j].visible
            /\ table[i].name = table[j].name
            /\ table[i].scope = table[j].scope
            => i = j)
  BY DEF Lookup

-----------------------------------------------------------------------------
(* A step that changes neither the table nor the handlers.                 *)
LEMMA ReferKeeps ==
  ASSUME IInv,
         UNCHANGED <<sym_table, scp_handler, func_handler, open>>,
         found' \in {0} \cup DOMAIN sym_table,
         outcome' \in {"parsing", "compiled", "syntax_error"},
         OperandsInScope'
  PROVE  IInv'
  <1>1. TypeOK'
    BY DEF IInv, TypeOK
  <1>2. OneVisibleEntry'
    BY DEF IInv, OneVisibleEntry, Scope
  <1>3. TableGrows' /\ HandlersInStep'
    BY DEF IInv, Structure, TableGrows, HandlersInStep, Scope
  <1>4. FunctionsNested' /\ SpacesFit' /\ VisibleAtHome'
    BY DEF IInv, Structure, FunctionsNested, SpacesFit, VisibleAtHome, HomeAt, IsVar
  <1>5. PlacesDistinct' /\ EnoughLocals'
    BY DEF IInv, Structure, PlacesDistinct, EnoughLocals, TotalLocals, IsVar
  <1> QED
    BY <1>1, <1>2, <1>3, <1>4, <1>5 DEF IInv, Structure

(* Stop forgets what was found. *)
LEMMA StopKeeps ==
  ASSUME IInv, NEW error \in {"compiled", "syntax_error"}, Stop(error)
  PROVE  IInv'
  BY ReferKeeps DEF Stop, OperandsInScope

(* What exists_accessible_symbol accepts may be named: a variable in a      *)
(* scope above that of the innermost open function belongs to it, and one  *)
(* in the global scope is the program's.                                   *)
LEMMA MayBeNamed ==
  ASSUME IInv, NEW i \in DOMAIN sym_table, sym_table[i].visible,
         Accessible(sym_table[i], sym_table[i].scope, ActiveFunctionScope(scp_handler))
  PROVE  \/ IsFunc(sym_table[i])
         \/ sym_table[i].ss = "PROGRAM_SS"
         \/ sym_table[i].home = Home /\ Home # 0
  <1> USE DEF IInv
  <1> DEFINE e     == sym_table[i]
             s     == e.scope
             depth == Len(func_handler)
             below == scp_handler.func_scope_stack
  <1>1. SUFFICES ASSUME ~IsFunc(e)
                 PROVE  e.ss = "PROGRAM_SS" \/ (e.home = Home /\ Home # 0)
    OBVIOUS
  <1>2. /\ s \in Nat /\ s <= Len(open)
        /\ HomeAt(s, e.home)
        /\ e.home = 0 => e.ss = "PROGRAM_SS"
    <2>1. s \in Nat /\ s <= Scope /\ HomeAt(s, e.home) /\ (e.home = 0 => e.ss = "PROGRAM_SS")
      BY <1>1, EntryFields DEF OneVisibleEntry, Structure, VisibleAtHome, SpacesFit, IsVar
    <2>2. Scope = Len(open)
      BY DEF Structure, HandlersInStep
    <2> HIDE DEF s
    <2> QED
      BY <2>1, <2>2
  <1>3. s > ActiveFunctionScope(scp_handler) \/ s = 0
    BY <1>1 DEF Accessible, GLOBAL_SCOPE
  <1> HIDE DEF e, s
  <1>4. CASE s = 0
    BY <1>2, <1>4 DEF HomeAt
  <1>5. CASE depth = 0
    <2>1. \A j \in 1 .. Len(open) : open[j] = 0
      BY <1>5, HandlerFields DEF Structure, HandlersInStep, FunctionsIn
    <2>2. \A j \in 1 .. s : j \in 1 .. Len(open)
      BY <1>2, HandlerFields
    <2> QED
      BY <1>2, <2>1, <2>2 DEF HomeAt
  <1>6. CASE s # 0 /\ depth # 0
    <2>1. /\ depth \in 1 .. depth
          /\ below \in [1 .. depth -> Nat]
          /\ \A k \in 1 .. depth : k = depth \/ below[k] < below[depth]
          /\ below[depth] + 1 \in 1 .. Len(open)
          /\ open[below[depth] + 1] = func_handler[depth]
          /\ open[below[depth] + 1] # 0
          /\ \A j \in 1 .. Len(open) : open[j] # 0 => \E k \in 1 .. depth : j = below[k] + 1
      <3>1. /\ below \in [1 .. depth -> Nat]
            /\ \A j, k \in 1 .. depth : j < k => below[j] < below[k]
            /\ \A k \in 1 .. depth : /\ below[k] + 1 \in 1 .. Len(open)
                                    /\ open[below[k] + 1] = func_handler[k]
                                    /\ open[below[k] + 1] # 0
            /\ \A j \in 1 .. Len(open) : open[j] # 0 => \E k \in 1 .. depth : j = below[k] + 1
        BY InStep DEF Structure
      <3>2. depth \in 1 .. depth /\ \A k \in 1 .. depth : k = depth \/ k < depth
        <4>1. depth \in Nat /\ depth # 0
          BY <1>6, HandlerFields
        <4> HIDE DEF depth
        <4> QED
          BY <4>1
      <3> QED
        BY <3>1, <3>2
    <2>2. below[depth] + 1 <= s
      <3>1. below \in Seq(Nat) /\ Len(below) = depth
        BY HandlerFields DEF Structure, HandlersInStep
      <3>2. ActiveFunctionScope(scp_handler) = below[depth]
        <4>1. below # << >>
          <5>1. Len(<< >>) = 0
            OBVIOUS
          <5> QED
            BY <1>6, <3>1, <5>1
        <4> QED
          BY <3>1, <4>1, FrontFields DEF ActiveFunctionScope
      <3> QED
        <4>1. s > below[depth] /\ s \in Nat /\ below[depth] \in Nat
          BY <1>2, <1>3, <1>6, <2>1, <3>2
        <4> HIDE DEF below, depth
        <4> QED
          BY <4>1
    <2>3. e.home # 0
      BY <1>2, <2>1, <2>2 DEF HomeAt
    <2>4. PICK j \in 1 .. s : open[j] = e.home /\ \A m \in j + 1 .. s : open[m] = 0
      BY <1>2, <2>3 DEF HomeAt
    <2>5. PICK k \in 1 .. depth : j = below[k] + 1
      <3>1. j \in 1 .. Len(open)
        BY <1>2, HandlerFields
      <3> QED
        BY <2>1, <2>3, <2>4, <3>1
    <2>6. j = below[depth] + 1
      <3>1. below[k] \in Nat /\ below[depth] \in Nat /\ (k = depth \/ below[k] < below[depth])
        BY <2>1
      <3>2. below[depth] + 1 \notin j + 1 .. s
        BY <2>1, <2>4
      <3>3. /\ s \in Nat /\ j \in Nat
            /\ below[depth] + 1 <= s
            /\ j = below[k] + 1
        BY <1>2, <2>2, <2>5
      <3>4. k = depth => below[k] = below[depth]
        OBVIOUS
      <3> DEFINE bk == below[k]
                 bd == below[depth]
      <3>5. /\ bk \in Nat /\ bd \in Nat /\ (bk = bd \/ bk < bd)
            /\ bd + 1 <= s /\ j = bk + 1
        BY <3>1, <3>3, <3>4
      <3>6. bd + 1 \notin j + 1 .. s
        BY <3>2
      <3> HIDE DEF bk, bd
      <3>7. ~(j + 1 <= bd + 1)
        BY <3>3, <3>5, <3>6
      <3>8. j = bd + 1
        BY <3>5, <3>7
      <3> QED
        BY <3>8 DEF bd
    <2>7. Home = func_handler[depth]
      BY <1>6, Here DEF Structure
    <2> QED
      BY <2>1, <2>3, <2>4, <2>6, <2>7
  <1> QED
    BY <1>4, <1>5, <1>6

(* And so may any variable in the scope the parser is in.                  *)
LEMMA InnermostMayBeNamed ==
  ASSUME IInv, NEW i \in DOMAIN sym_table, sym_table[i].visible,
         sym_table[i].scope = Scope
  PROVE  \/ IsFunc(sym_table[i])
         \/ sym_table[i].ss = "PROGRAM_SS"
         \/ sym_table[i].home = Home /\ Home # 0
  <1> USE DEF IInv
  <1> DEFINE depth == Len(func_handler)
             below == scp_handler.func_scope_stack
  <1>1. Scope > ActiveFunctionScope(scp_handler) \/ Scope = 0
    <2>1. below \in Seq(Nat) /\ Len(below) = depth /\ depth \in Nat /\ Scope \in Nat
      BY HandlerFields DEF Structure, HandlersInStep
    <2>2. CASE below = << >>
      BY <2>1, <2>2 DEF ActiveFunctionScope, GLOBAL_SCOPE
    <2>3. CASE below # << >>
      <3>1. depth \in 1 .. depth /\ ActiveFunctionScope(scp_handler) = below[depth]
        <4>1. Len(below) \in Nat \ {0} /\ Last(below) = below[depth]
          BY <2>1, <2>3, FrontFields
        <4> QED
          BY <2>1, <2>3, <4>1 DEF ActiveFunctionScope
      <3>2. below[depth] + 1 \in 1 .. Len(open) /\ below[depth] \in Nat
        BY <3>1, InStep DEF Structure
      <3>3. Scope = Len(open)
        BY DEF Structure, HandlersInStep
      <3> QED
        BY <2>1, <3>1, <3>2, <3>3
    <2> QED
      BY <2>2, <2>3
  <1>2. Accessible(sym_table[i], sym_table[i].scope, ActiveFunctionScope(scp_handler))
    BY <1>1 DEF Accessible, GLOBAL_SCOPE
  <1> QED
    BY <1>2, MayBeNamed

-----------------------------------------------------------------------------
(* A new variable takes the next place of the newest scope space.          *)
LEMMA NewVarFields ==
  ASSUME IInv, NEW name \in Names, Lookup(sym_table, name, Scope) = {}, NewVar(name)
  PROVE  LET n     == Len(sym_table) + 1
             depth == Len(func_handler)
         IN  /\ Len(sym_table') = n
             /\ DOMAIN sym_table' = 1 .. n
             /\ \A i \in 1 .. Len(sym_table) : sym_table'[i] = sym_table[i]
             /\ sym_table'[n] \in Entries
             /\ ~IsFunc(sym_table'[n])
             /\ sym_table'[n].scope = Scope
             /\ sym_table'[n].name = name
             /\ sym_table'[n].visible = TRUE
             /\ sym_table'[n].ss = CurrentSS(scp_handler)
             /\ sym_table'[n].offset = NextOffset(scp_handler)
             /\ sym_table'[n].home = Home
             /\ scp_handler' = IncrOffset(scp_handler, 1)
             /\ found' = n
             /\ UNCHANGED <<func_handler, open, outcome>>
  <1> DEFINE e == VarEntry(Scope, name, "LOCAL", CurrentSS(scp_handler),
                           NextOffset(scp_handler), Home)
  <1>1. /\ sym_table' = Append(sym_table, e)
        /\ scp_handler' = IncrOffset(scp_handler, 1)
        /\ found' = Len(sym_table) + 1
        /\ UNCHANGED <<func_handler, open, outcome>>
    BY DEF NewVar
  <1>2. /\ e.scope = Scope /\ e.name = name /\ e.visible = TRUE
        /\ e.ss = CurrentSS(scp_handler) /\ e.offset = NextOffset(scp_handler)
        /\ e.home = Home
        /\ e.type \in {"GLOBAL", "LOCAL"}
    BY DEF VarEntry
  <1>3. e \in Entries
    <2>1. TypeOK /\ Structure
      BY DEF IInv
    <2>2. /\ Scope \in Nat
          /\ CurrentSS(scp_handler) \in ScopeSpaces
          /\ NextOffset(scp_handler) \in Nat
          /\ Home \in Nat
      BY <2>1, Here, HandlerFields DEF ScopeSpaces
    <2> QED
      BY <2>2 DEF VarEntry, Entries
  <1>4. ~IsFunc(e)
    BY <1>2 DEF IsFunc
  <1> HIDE DEF e
  <1>5. sym_table \in Seq(Entries) /\ Len(sym_table) \in Nat
    BY HandlerFields DEF IInv
  <1>6. /\ Len(sym_table') = Len(sym_table) + 1
        /\ DOMAIN sym_table' = 1 .. Len(sym_table) + 1
        /\ \A i \in 1 .. Len(sym_table) : sym_table'[i] = sym_table[i]
        /\ sym_table'[Len(sym_table) + 1] = e
    BY <1>1, <1>3, <1>5
  <1> QED
    BY <1>1, <1>2, <1>3, <1>4, <1>6

(* The counter of the newest scope space, and no other, is increased.      *)
LEMMA IncrOffsetFields ==
  ASSUME TypeOK, Structure, NEW h, h = IncrOffset(scp_handler, 1)
  PROVE  LET depth == Len(func_handler)
         IN  /\ h.scope = scp_handler.scope
             /\ h.ss_stack = scp_handler.ss_stack
             /\ h.func_scope_stack = scp_handler.func_scope_stack
             /\ h.ss_offset_stack \in Seq(Nat)
             /\ Len(h.ss_offset_stack) = depth + 1
             /\ \A k \in 1 .. depth : h.ss_offset_stack[k] = scp_handler.ss_offset_stack[k]
             /\ h.ss_offset_stack[depth + 1] = scp_handler.ss_offset_stack[depth + 1] + 1
             /\ h \in [scope : Nat, ss_stack : Seq(ScopeSpaces), ss_offset_stack : Seq(Nat),
                       func_scope_stack : Seq(Nat)]
  <1> DEFINE old   == scp_handler.ss_offset_stack
             depth == Len(func_handler)
             new   == Append(Front(old), Last(old) + 1)
  <1>1. old \in Seq(Nat) /\ Len(old) = depth + 1 /\ depth \in Nat
    BY Here, HandlerFields
  <1>2. /\ h.scope = scp_handler.scope
        /\ h.ss_stack = scp_handler.ss_stack
        /\ h.func_scope_stack = scp_handler.func_scope_stack
        /\ h.ss_offset_stack = new
        /\ new \in Seq(Nat) => h \in [scope : Nat, ss_stack : Seq(ScopeSpaces),
                                      ss_offset_stack : Seq(Nat), func_scope_stack : Seq(Nat)]
    BY DEF IncrOffset, TypeOK
  <1>3. /\ new \in Seq(Nat)
        /\ Len(new) = depth + 1
        /\ \A k \in 1 .. depth : new[k] = old[k]
        /\ new[depth + 1] = old[depth + 1] + 1
    <2> HIDE DEF old, depth
    <2> QED
      BY <1>1 DEF Front, Last
  <1> QED
    BY <1>2, <1>3

LEMMA NewVarKeeps ==
  ASSUME IInv, Room(1), NEW name \in Names, Lookup(sym_table, name, Scope) = {}, NewVar(name)
  PROVE  IInv'
  <1> DEFINE n     == Len(sym_table) + 1
             depth == Len(func_handler)
             off   == scp_handler.ss_offset_stack
  <1> USE DEF IInv
  <1>1. /\ Len(sym_table') = n
        /\ DOMAIN sym_table' = 1 .. n
        /\ \A i \in 1 .. Len(sym_table) : sym_table'[i] = sym_table[i]
        /\ sym_table'[n] \in Entries
        /\ ~IsFunc(sym_table'[n])
        /\ sym_table'[n].scope = Scope
        /\ sym_table'[n].name = name
        /\ sym_table'[n].visible = TRUE
        /\ sym_table'[n].ss = CurrentSS(scp_handler)
        /\ sym_table'[n].offset = NextOffset(scp_handler)
        /\ sym_table'[n].home = Home
        /\ found' = n
        /\ UNCHANGED <<func_handler, open, outcome>>
    BY NewVarFields
  <1>2. /\ scp_handler'.scope = scp_handler.scope
        /\ scp_handler'.ss_stack = scp_handler.ss_stack
        /\ scp_handler'.func_scope_stack = scp_handler.func_scope_stack
        /\ scp_handler'.ss_offset_stack \in Seq(Nat)
        /\ Len(scp_handler'.ss_offset_stack) = depth + 1
        /\ \A k \in 1 .. depth : scp_handler'.ss_offset_stack[k] = off[k]
        /\ scp_handler'.ss_offset_stack[depth + 1] = off[depth + 1] + 1
        /\ scp_handler' \in [scope : Nat, ss_stack : Seq(ScopeSpaces),
                             ss_offset_stack : Seq(Nat), func_scope_stack : Seq(Nat)]
    BY NewVarFields, IncrOffsetFields
  <1>3. /\ Len(sym_table) \in Nat
        /\ depth \in Nat
        /\ DOMAIN sym_table = 1 .. Len(sym_table)
        /\ DOMAIN func_handler = 1 .. depth
        /\ DOMAIN sym_table \subseteq DOMAIN sym_table'
    BY <1>1, HandlerFields
  <1>4. /\ func_handler \in Seq(DOMAIN sym_table)
        /\ open \in Seq({0} \cup DOMAIN sym_table)
        /\ sym_table \in Seq(Entries)
    BY HandlerFields
  <1>5. TypeOK'
    <2>1. sym_table' \in Seq(Entries)
      <3>1. \A i \in 1 .. n : sym_table'[i] \in Entries
        BY <1>1, <1>3, <1>4
      <3>2. sym_table' = Append(sym_table, sym_table'[n])
        BY DEF NewVar
      <3> DEFINE e == sym_table'[n]
      <3>3. e \in Entries /\ sym_table' = Append(sym_table, e)
        BY <1>1, <3>2
      <3> HIDE DEF e
      <3> QED
        BY <1>4, <3>3
    <2>2. func_handler' \in Seq(DOMAIN sym_table') /\ open' \in Seq({0} \cup DOMAIN sym_table')
      BY <1>1, <1>3, <1>4
    <2> QED
      BY <1>1, <1>2, <2>1, <2>2, <1>3 DEF TypeOK
  <1>6. OneVisibleEntry'
    <2>1. \A i \in 1 .. Len(sym_table) :
            /\ sym_table[i].visible => sym_table[i].scope <= Scope
            /\ ~(sym_table[i].visible /\ sym_table[i].name = name /\ sym_table[i].scope = Scope)
      BY <1>3 DEF OneVisibleEntry, Lookup
    <2>2. \A i, j \in DOMAIN sym_table :
            /\ sym_table[i].visible /\ sym_table[j].visible
            /\ sym_table[i].name = sym_table[j].name
            /\ sym_table[i].scope = sym_table[j].scope
            => i = j
      BY OnlyEntry DEF OneVisibleEntry
    <2>3. \A i, j \in DOMAIN sym_table' :
            /\ sym_table'[i].visible /\ sym_table'[j].visible
            /\ sym_table'[i].name = sym_table'[j].name
            /\ sym_table'[i].scope = sym_table'[j].scope
            => i = j
      BY <1>1, <1>3, <2>1, <2>2
    <2>4. \A i \in DOMAIN sym_table' : sym_table'[i].visible =>
            Lookup(sym_table', sym_table'[i].name, sym_table'[i].scope) = {i}
      BY <2>3, OnlyEntry
    <2>5. Scope' = Scope /\ Scope \in Nat
      BY <1>2, HandlerFields DEF Scope
    <2>6. \A i \in DOMAIN sym_table' : sym_table'[i].visible => sym_table'[i].scope <= Scope'
      BY <1>1, <1>3, <2>1, <2>5
    <2> QED
      BY <1>1, <2>4, <2>6 DEF OneVisibleEntry
  <1>7. TableGrows'
    BY <1>1, <1>3 DEF Room, Structure, TableGrows
  <1>8. HandlersInStep'
    <2>1. HandlersInStep
      BY DEF Structure
    <2> QED
      BY <1>1, <1>2, <2>1 DEF HandlersInStep, Scope
  <1>9. FunctionsNested'
    <2>1. FunctionsNested
      BY DEF Structure
    <2>2. \A k \in DOMAIN func_handler : func_handler[k] \in 1 .. Len(sym_table)
      BY <1>3, <1>4
    <2> QED
      BY <1>1, <2>1, <2>2 DEF FunctionsNested
  <1>10. /\ Len(func_handler) = 0 => Home = 0 /\ CurrentSS(scp_handler) = "PROGRAM_SS"
         /\ Len(func_handler) # 0 =>
              /\ Home = func_handler[depth]
              /\ Home \in DOMAIN sym_table
              /\ IsFunc(sym_table[Home])
              /\ CurrentSS(scp_handler) = "FUNCTION_LOCALS_SS"
         /\ NextOffset(scp_handler) = off[depth + 1]
         /\ off[depth + 1] \in Nat
         /\ HomeAt(Scope, Home)
    BY Here
  <1>11. SpacesFit'
    <2>1. SpacesFit
      BY DEF Structure
    <2> QED
      BY <1>1, <1>3, <1>10, <2>1 DEF SpacesFit, IsVar
  <1>12. VisibleAtHome'
    <2>1. VisibleAtHome
      BY DEF Structure
    <2> QED
      BY <1>1, <1>3, <1>10, <2>1 DEF VisibleAtHome, IsVar, HomeAt
  <1> DEFINE Total(home) == TotalIn(sym_table, func_handler, off, home)
  <1>13. off \in [1 .. depth + 1 -> Nat] /\ Head(off) = off[1]
    <2>1. off \in Seq(Nat) /\ Len(off) = depth + 1
      BY Here, HandlerFields
    <2> HIDE DEF off, depth
    <2> QED
      BY <1>3, <2>1
  <1>14. \A k \in 1 .. depth : Total(func_handler[k]) = off[1 + k]
    BY <1>3, FunctionsDiffer, OpenTotals DEF Structure
  <1>15. PlacesDistinct'
    <2>1. \A i, j \in DOMAIN sym_table :
            (i # j /\ IsVar(i) /\ IsVar(j)
               /\ sym_table[i].home = sym_table[j].home /\ sym_table[i].ss = sym_table[j].ss)
              => sym_table[i].offset # sym_table[j].offset
      BY DEF Structure, PlacesDistinct
    <2>2. ASSUME NEW i \in DOMAIN sym_table, IsVar(i),
                 sym_table[i].home = Home, sym_table[i].ss = CurrentSS(scp_handler)
          PROVE  sym_table[i].offset < off[depth + 1] /\ sym_table[i].offset \in Nat
      <3>1. CASE depth = 0
        BY <1>10, <1>13, <2>2, <3>1, EntryFields, EnoughInTotal DEF Structure
      <3>2. CASE depth # 0
        <4>1. Total(Home) = off[1 + depth]
          BY <1>3, <1>10, <1>14, <3>2
        <4>2. sym_table[i].offset < Total(sym_table[i].home)
          BY <1>10, <2>2, <3>2, EnoughInTotal DEF Structure
        <4> QED
          BY <2>2, <4>1, <4>2, EntryFields
      <3> QED
        BY <3>1, <3>2
    <2> QED
      BY <1>1, <1>3, <1>10, <2>1, <2>2 DEF PlacesDistinct, IsVar
  <1> DEFINE newOff == scp_handler'.ss_offset_stack
             NewTotal(home) == TotalIn(sym_table', func_handler, newOff, home)
  <1>16. EnoughLocals'
    <2>1. \A k \in 1 .. depth : NewTotal(func_handler[k]) = newOff[1 + k]
      BY <1>3, FunctionsDiffer, OpenTotals DEF Structure
    <2>2. \A k \in 1 .. depth + 1 : /\ newOff[k] \in Nat
                                   /\ off[k] <= newOff[k]
      <3>1. newOff \in [1 .. depth + 1 -> Nat]
        <4>1. newOff \in Seq(Nat) /\ Len(newOff) = depth + 1
          BY <1>2
        <4> HIDE DEF newOff, depth
        <4> QED
          BY <1>3, <4>1
      <3>2. \A k \in 1 .. depth + 1 : k = depth + 1 \/ k \in 1 .. depth
        BY <1>3
      <3>3. /\ \A k \in 1 .. depth : newOff[k] = off[k]
            /\ newOff[depth + 1] = off[depth + 1] + 1
            /\ \A k \in 1 .. depth + 1 : off[k] \in Nat
        BY <1>2, <1>13
      <3> HIDE DEF newOff, off, depth
      <3> QED
        BY <3>1, <3>2, <3>3
    <2>3. ASSUME NEW i \in DOMAIN sym_table', ~IsFunc(sym_table'[i]),
                 sym_table'[i].ss = "FUNCTION_LOCALS_SS"
          PROVE  sym_table'[i].offset < NewTotal(sym_table'[i].home)
      <3>1. CASE i = n
        <4>1. depth # 0 /\ sym_table'[i].home = func_handler[depth]
          BY <1>1, <1>10, <2>3, <3>1
        <4>2. NewTotal(func_handler[depth]) = off[depth + 1] + 1
          <5>1. newOff[depth + 1] = off[depth + 1] + 1
            BY <1>2, <1>13
          <5>2. depth \in 1 .. depth /\ 1 + depth = depth + 1
            BY <1>3, <4>1
          <5>3. NewTotal(func_handler[depth]) = newOff[1 + depth]
            BY <2>1, <5>2
          <5> HIDE DEF newOff, off, depth, NewTotal
          <5> QED
            BY <5>1, <5>2, <5>3
        <4> QED
          BY <1>1, <1>10, <3>1, <4>1, <4>2
      <3>2. CASE i # n
        <4>1. /\ i \in DOMAIN sym_table /\ IsVar(i)
              /\ sym_table'[i] = sym_table[i]
              /\ sym_table[i].offset \in Nat
              /\ sym_table[i].home \in DOMAIN sym_table
              /\ sym_table[i].offset < Total(sym_table[i].home)
          <5>1. i \in DOMAIN sym_table /\ sym_table'[i] = sym_table[i] /\ IsVar(i)
            BY <1>1, <1>3, <2>3, <3>2 DEF IsVar
          <5> QED
            BY <2>3, <5>1, EntryFields, EnoughInTotal DEF Structure, SpacesFit
        <4>2. CASE \E k \in 1 .. depth : func_handler[k] = sym_table[i].home
          <5>1. PICK k \in 1 .. depth : func_handler[k] = sym_table[i].home
            BY <4>2
          <5>2. /\ Total(sym_table[i].home) = off[1 + k]
                /\ NewTotal(sym_table[i].home) = newOff[1 + k]
            BY <1>14, <2>1, <5>1
          <5>3. off[1 + k] <= newOff[1 + k] /\ off[1 + k] \in Nat /\ newOff[1 + k] \in Nat
            BY <1>3, <1>13, <2>2, <5>1
          <5> QED
            BY <4>1, <5>2, <5>3
        <4>3. CASE ~\E k \in 1 .. depth : func_handler[k] = sym_table[i].home
          <5>1. /\ Total(sym_table[i].home) = sym_table[sym_table[i].home].total_locals
                /\ NewTotal(sym_table[i].home) = sym_table'[sym_table[i].home].total_locals
            BY <1>3, <4>3 DEF TotalIn
          <5> QED
            BY <1>1, <1>3, <4>1, <5>1
        <4> QED
          BY <4>2, <4>3
      <3> QED
        BY <3>1, <3>2
    <2>4. ASSUME NEW i \in DOMAIN sym_table', ~IsFunc(sym_table'[i]),
                 sym_table'[i].ss = "PROGRAM_SS"
          PROVE  sym_table'[i].offset < Head(newOff)
      <3>1. Head(newOff) = newOff[1]
        BY <1>2, <1>3
      <3>2. CASE i = n
        BY <1>1, <1>2, <1>3, <1>10, <2>4, <3>1, <3>2
      <3>3. CASE i # n
        <4>1. /\ i \in DOMAIN sym_table
              /\ IsVar(i)
              /\ sym_table'[i] = sym_table[i]
          BY <1>1, <1>3, <2>4, <3>3 DEF IsVar
        <4>2. sym_table[i].offset \in Nat /\ sym_table[i].offset < off[1]
          BY <1>13, <2>4, <4>1, EntryFields, EnoughInTotal DEF Structure
        <4> QED
          BY <1>3, <1>13, <2>2, <3>1, <4>1, <4>2
      <3> QED
        BY <3>2, <3>3
    <2> QED
      BY <1>1, <2>3, <2>4 DEF EnoughLocals, TotalLocals, TotalIn, IsVar
  <1>17. OperandsInScope'
    <2> QED
      BY <1>1, <1>3, <1>10 DEF OperandsInScope, Home
  <1> QED
    BY <1>5, <1>6, <1>7, <1>8, <1>9, <1>11, <1>12, <1>15, <1>16, <1>17 DEF Structure

-----------------------------------------------------------------------------
Handlers ==
  [scope : Nat, ss_stack : Seq(ScopeSpaces), ss_offset_stack : Seq(Nat),
   func_scope_stack : Seq(Nat)]

(* The scope changes and nothing else of scope_handler.                    *)
LEMMA ScopeFields ==
  ASSUME NEW h \in Handlers, NEW n \in Nat
  PROVE  LET h2 == [h EXCEPT !.scope = n]
         IN  /\ h2 \in Handlers
             /\ h2.scope = n
             /\ h2.ss_stack = h.ss_stack
             /\ h2.ss_offset_stack = h.ss_offset_stack
             /\ h2.func_scope_stack = h.func_scope_stack
  BY DEF Handlers

(* A block begins: a zero on the parser's stack. *)
LEMMA BlockOpenKeeps ==
  ASSUME IInv, BlockOpen
  PROVE  IInv'
  <1> USE DEF IInv
  <1>1. /\ scp_handler' = [scp_handler EXCEPT !.scope = Scope + 1]
        /\ open' = Append(open, 0)
        /\ found' = 0
        /\ UNCHANGED <<sym_table, func_handler, outcome>>
    BY DEF BlockOpen, IncreaseScope, Scope
  <1>2. /\ scp_handler'.scope = Scope + 1
        /\ scp_handler'.ss_stack = scp_handler.ss_stack
        /\ scp_handler'.ss_offset_stack = scp_handler.ss_offset_stack
        /\ scp_handler'.func_scope_stack = scp_handler.func_scope_stack
        /\ scp_handler' \in Handlers
    <2>1. scp_handler \in Handlers /\ Scope + 1 \in Nat
      BY HandlerFields DEF TypeOK, Handlers
    <2> QED
      BY <1>1, <2>1, ScopeFields
  <1>3. /\ open \in Seq({0} \cup DOMAIN sym_table)
        /\ Len(open) \in Nat
        /\ Len(open) = Scope
        /\ Len(func_handler) \in Nat
        /\ DOMAIN sym_table = 1 .. Len(sym_table)
    BY HandlerFields DEF Structure, HandlersInStep
  <1>4. /\ open' \in Seq({0} \cup DOMAIN sym_table)
        /\ Len(open') = Len(open) + 1
        /\ DOMAIN open' = 1 .. Len(open) + 1
        /\ DOMAIN open = 1 .. Len(open)
        /\ \A j \in 1 .. Len(open) : open'[j] = open[j]
        /\ open'[Len(open) + 1] = 0
    BY <1>1, <1>3
  <1>5. TypeOK'
    BY <1>1, <1>2, <1>4 DEF TypeOK, Handlers
  <1>6. OneVisibleEntry'
    <2>1. Scope' = Scope + 1 /\ Scope \in Nat
      BY <1>2, <1>3 DEF Scope
    <2>2. \A i \in DOMAIN sym_table : sym_table[i].scope \in Nat
      BY EntryFields
    <2>3. \A i \in DOMAIN sym_table : sym_table[i].visible => sym_table[i].scope <= Scope + 1
      BY <2>1, <2>2 DEF OneVisibleEntry
    <2> QED
      BY <1>1, <2>1, <2>3 DEF OneVisibleEntry
  <1>7. HandlersInStep'
    <2>1. HandlersInStep
      BY DEF Structure
    <2>2. FunctionsIn(open') = FunctionsIn(open)
      BY <1>3, <1>4 DEF FunctionsIn
    <2>3. \A k \in 1 .. Len(func_handler) :
            open'[scp_handler.func_scope_stack[k] + 1] = func_handler[k]
      <3>1. \A k \in 1 .. Len(func_handler) :
              /\ scp_handler.func_scope_stack[k] + 1 \in 1 .. Len(open)
              /\ open[scp_handler.func_scope_stack[k] + 1] = func_handler[k]
        BY <2>1, InStep
      <3> QED
        BY <1>4, <3>1
    <2>4. Scope' = Len(open')
      BY <1>2, <1>3, <1>4 DEF Scope
    <2> QED
      <3> DEFINE below == scp_handler.func_scope_stack
                 depth == Len(func_handler)
      <3>1. /\ scp_handler.ss_stack = [k \in 1 .. depth + 1 |->
                                         IF k = 1 THEN "PROGRAM_SS" ELSE "FUNCTION_LOCALS_SS"]
            /\ Len(scp_handler.ss_offset_stack) = depth + 1
            /\ Len(below) = depth
            /\ \A j, k \in 1 .. depth : j < k => below[j] < below[k]
            /\ FunctionsIn(open') = {below[k] + 1 : k \in 1 .. depth}
        BY <2>1, <2>2 DEF HandlersInStep
      <3>2. scp_handler'.ss_stack = [k \in 1 .. Len(func_handler') + 1 |->
                                       IF k = 1 THEN "PROGRAM_SS" ELSE "FUNCTION_LOCALS_SS"]
        BY <1>1, <1>2, <3>1
      <3>3. /\ Len(scp_handler'.ss_offset_stack) = Len(func_handler') + 1
            /\ Len(scp_handler'.func_scope_stack) = Len(func_handler')
        BY <1>1, <1>2, <3>1
      <3>4. /\ \A j, k \in 1 .. Len(func_handler') :
                 j < k => scp_handler'.func_scope_stack[j] < scp_handler'.func_scope_stack[k]
        BY <1>1, <1>2, <3>1
      <3>5. FunctionsIn(open') = {scp_handler'.func_scope_stack[k] + 1 : k \in 1 .. Len(func_handler')}
        BY <1>1, <1>2, <3>1
      <3>6. \A k \in 1 .. Len(func_handler') :
              open'[scp_handler'.func_scope_stack[k] + 1] = func_handler'[k]
        BY <1>1, <1>2, <2>3
      <3> QED
        BY <2>4, <3>2, <3>3, <3>4, <3>5, <3>6 DEF HandlersInStep
  <1>8. VisibleAtHome'
    <2>1. \A i \in DOMAIN sym_table : sym_table[i].visible =>
            sym_table[i].scope \in Nat /\ sym_table[i].scope <= Len(open)
      BY <1>3, EntryFields DEF OneVisibleEntry
    <2>2. VisibleAtHome
      BY DEF Structure
    <2>3. ASSUME NEW s \in Nat, s <= Len(open), NEW h, HomeAt(s, h)
          PROVE  \/ h = 0 /\ \A j \in 1 .. s : open'[j] = 0
                 \/ h # 0 /\ \E j \in 1 .. s : open'[j] = h /\ \A m \in j + 1 .. s : open'[m] = 0
      BY <1>3, <1>4, <2>3 DEF HomeAt
    <2> QED
      BY <1>1, <2>1, <2>2, <2>3 DEF VisibleAtHome, IsVar, HomeAt
  <1>9. OperandsInScope' /\ TableGrows' /\ FunctionsNested' /\ SpacesFit'
    BY <1>1 DEF OperandsInScope, Structure, TableGrows, FunctionsNested, SpacesFit, IsVar
  <1>10. PlacesDistinct' /\ EnoughLocals'
    BY <1>1, <1>2 DEF Structure, PlacesDistinct, EnoughLocals, TotalLocals, IsVar
  <1> QED
    BY <1>5, <1>6, <1>7, <1>8, <1>9, <1>10 DEF Structure

-----------------------------------------------------------------------------
(* The pieces that a function's opening and closing are made of.           *)
LEMMA FrontAppend ==
  ASSUME NEW S, NEW s \in Seq(S), NEW x \in S
  PROVE  /\ Front(Append(s, x)) = s
         /\ Last(Append(s, x)) = x
         /\ Append(s, x) # << >>
  <1>1. Len(Append(s, x)) = Len(s) + 1 /\ Len(s) \in Nat
    OBVIOUS
  <1>2. Len(<< >>) = 0
    OBVIOUS
  <1>3. Append(s, x) # << >>
    <2> DEFINE t == Append(s, x)
    <2>1. Len(t) = Len(s) + 1
      BY <1>1
    <2> HIDE DEF t
    <2> QED
      BY <1>1, <1>2, <2>1 DEF t
  <1> QED
    BY <1>3 DEF Front, Last

LEMMA EnterSSFields ==
  ASSUME NEW h \in Handlers, NEW ss \in ScopeSpaces
  PROVE  LET e == EnterSS(h, ss)
         IN  /\ e \in Handlers
             /\ e.scope = h.scope
             /\ e.ss_stack = Append(h.ss_stack, ss)
             /\ e.ss_offset_stack = Append(h.ss_offset_stack, 0)
             /\ e.func_scope_stack = h.func_scope_stack
  <1> DEFINE e == [h EXCEPT !.ss_stack = Append(@, ss), !.ss_offset_stack = Append(@, 0)]
             spaces == Append(h.ss_stack, ss)
             offsets == Append(h.ss_offset_stack, 0)
  <1>1. spaces \in Seq(ScopeSpaces) /\ offsets \in Seq(Nat)
    BY DEF Handlers
  <1>2. e = [h EXCEPT !.ss_stack = spaces, !.ss_offset_stack = offsets]
    OBVIOUS
  <1> HIDE DEF spaces, offsets, e
  <1>3. /\ e \in Handlers
        /\ e.scope = h.scope /\ e.func_scope_stack = h.func_scope_stack
        /\ e.ss_stack = spaces /\ e.ss_offset_stack = offsets
    BY <1>1, <1>2 DEF Handlers
  <1> QED
    BY <1>3 DEF EnterSS, e, spaces, offsets

LEMMA LeaveSSFields ==
  ASSUME NEW h \in Handlers, h.ss_stack # << >>, h.ss_offset_stack # << >>
  PROVE  LET e == LeaveSS(h)
         IN  /\ e \in Handlers
             /\ e.scope = h.scope
             /\ e.ss_stack = Front(h.ss_stack)
             /\ e.ss_offset_stack = Front(h.ss_offset_stack)
             /\ e.func_scope_stack = h.func_scope_stack
  <1> DEFINE e == [h EXCEPT !.ss_stack = Front(@), !.ss_offset_stack = Front(@)]
             spaces == Front(h.ss_stack)
             offsets == Front(h.ss_offset_stack)
  <1>1. spaces \in Seq(ScopeSpaces) /\ offsets \in Seq(Nat)
    <2>1. h.ss_stack \in Seq(ScopeSpaces) /\ h.ss_offset_stack \in Seq(Nat)
      BY DEF Handlers
    <2> QED
      BY <2>1 DEF Front
  <1>2. e = [h EXCEPT !.ss_stack = spaces, !.ss_offset_stack = offsets]
    OBVIOUS
  <1> HIDE DEF spaces, offsets, e
  <1>3. /\ e \in Handlers
        /\ e.scope = h.scope /\ e.func_scope_stack = h.func_scope_stack
        /\ e.ss_stack = spaces /\ e.ss_offset_stack = offsets
    BY <1>1, <1>2 DEF Handlers
  <1> QED
    BY <1>3 DEF LeaveSS, e, spaces, offsets

LEMMA FunctionScopeFields ==
  ASSUME NEW h \in Handlers, NEW scopes \in Seq(Nat)
  PROVE  LET e == [h EXCEPT !.func_scope_stack = scopes]
         IN  /\ e \in Handlers
             /\ e.scope = h.scope
             /\ e.ss_stack = h.ss_stack
             /\ e.ss_offset_stack = h.ss_offset_stack
             /\ e.func_scope_stack = scopes
  BY DEF Handlers

LEMMA OffsetFields ==
  ASSUME NEW h \in Handlers, NEW offsets \in Seq(Nat)
  PROVE  LET e == [h EXCEPT !.ss_offset_stack = offsets]
         IN  /\ e \in Handlers
             /\ e.scope = h.scope
             /\ e.ss_stack = h.ss_stack
             /\ e.ss_offset_stack = offsets
             /\ e.func_scope_stack = h.func_scope_stack
  BY DEF Handlers

(* Between the prefix of a function and its body, the formals' scope space *)
(* comes and goes, and nothing is left of it but the scope below.          *)
LEMMA HandlerOfBody ==
  ASSUME NEW h \in Handlers, NEW m \in Nat
  PROVE  LET e == IncreaseScope(FuncArgs(IncrOffset(FuncPrefix(h), m)))
         IN  /\ e \in Handlers
             /\ e.scope = h.scope + 1
             /\ e.ss_stack = Append(h.ss_stack, "FUNCTION_LOCALS_SS")
             /\ e.ss_offset_stack = Append(h.ss_offset_stack, 0)
             /\ e.func_scope_stack = Append(h.func_scope_stack, h.scope)
  <1> DEFINE p0 == EnterSS(h, "FORMAL_ARGUMENTS_SS")
             p1 == IncreaseScope(p0)
             p2 == IncrOffset(p1, m)
             p3 == LeaveSS(p2)
             p4 == DecreaseScope(p3)
             p5 == EnterSS(p4, "FUNCTION_LOCALS_SS")
             p6 == [p5 EXCEPT !.func_scope_stack = Append(@, p4.scope)]
             p7 == IncreaseScope(p6)
             formals == Append(h.ss_stack, "FORMAL_ARGUMENTS_SS")
  <1>1. IncreaseScope(FuncArgs(IncrOffset(FuncPrefix(h), m))) = p7
    BY DEF FuncArgs, FuncPrefix, EnterFunctionSS
  <1>2. /\ h.scope \in Nat /\ h.scope + 1 \in Nat
        /\ h.ss_stack \in Seq(ScopeSpaces)
        /\ h.ss_offset_stack \in Seq(Nat)
        /\ h.func_scope_stack \in Seq(Nat)
    BY DEF Handlers
  <1>3. /\ p0 \in Handlers
        /\ p0.scope = h.scope
        /\ p0.ss_stack = formals
        /\ p0.ss_offset_stack = Append(h.ss_offset_stack, 0)
        /\ p0.func_scope_stack = h.func_scope_stack
    BY EnterSSFields DEF ScopeSpaces
  <1> HIDE DEF p0
  <1>4. p1 = [p0 EXCEPT !.scope = h.scope + 1]
    BY <1>3 DEF IncreaseScope
  <1> HIDE DEF p1
  <1>5. /\ p1 \in Handlers
        /\ p1.scope = h.scope + 1
        /\ p1.ss_stack = formals
        /\ p1.ss_offset_stack = Append(h.ss_offset_stack, 0)
        /\ p1.func_scope_stack = h.func_scope_stack
    BY <1>2, <1>3, <1>4, ScopeFields
  <1>6. p2 = [p1 EXCEPT !.ss_offset_stack = Append(h.ss_offset_stack, m)]
    <2>1. /\ Front(Append(h.ss_offset_stack, 0)) = h.ss_offset_stack
          /\ Last(Append(h.ss_offset_stack, 0)) = 0
      BY <1>2, FrontAppend
    <2>2. Front(p1.ss_offset_stack) = h.ss_offset_stack /\ Last(p1.ss_offset_stack) + m = m
      BY <1>5, <2>1
    <2> QED
      BY <2>2 DEF IncrOffset
  <1> HIDE DEF p2
  <1>7. Append(h.ss_offset_stack, m) \in Seq(Nat)
    BY <1>2
  <1>8. /\ p2 \in Handlers
        /\ p2.scope = h.scope + 1
        /\ p2.ss_stack = formals
        /\ p2.ss_offset_stack = Append(h.ss_offset_stack, m)
        /\ p2.func_scope_stack = h.func_scope_stack
    BY <1>5, <1>6, <1>7, OffsetFields
  <1>9. /\ p3 \in Handlers
        /\ p3.scope = h.scope + 1
        /\ p3.ss_stack = h.ss_stack
        /\ p3.ss_offset_stack = h.ss_offset_stack
        /\ p3.func_scope_stack = h.func_scope_stack
    <2>1. /\ Front(formals) = h.ss_stack
          /\ Front(Append(h.ss_offset_stack, m)) = h.ss_offset_stack
      BY <1>2, FrontAppend DEF ScopeSpaces
    <2>2. p2.ss_stack # << >> /\ p2.ss_offset_stack # << >>
      <3>1. Append(h.ss_offset_stack, m) # << >>
        BY <1>2, FrontAppend
      <3>2. "FORMAL_ARGUMENTS_SS" \in ScopeSpaces
        BY DEF ScopeSpaces
      <3>3. formals # << >>
        BY <1>2, <3>2, FrontAppend
      <3> HIDE DEF formals
      <3> QED
        BY <1>8, <3>1, <3>3
    <2> QED
      BY <1>8, <2>1, <2>2, LeaveSSFields
  <1> HIDE DEF p3
  <1>10. p4 = [p3 EXCEPT !.scope = h.scope]
    <2>1. p3.scope - 1 = h.scope
      BY <1>2, <1>9
    <2> QED
      BY <2>1 DEF DecreaseScope
  <1>11. /\ p4 \in Handlers
         /\ p4.scope = h.scope
         /\ p4.ss_stack = h.ss_stack
         /\ p4.ss_offset_stack = h.ss_offset_stack
         /\ p4.func_scope_stack = h.func_scope_stack
    BY <1>2, <1>9, <1>10, ScopeFields
  <1> HIDE DEF p4
  <1>12. /\ p5 \in Handlers
         /\ p5.scope = h.scope
         /\ p5.ss_stack = Append(h.ss_stack, "FUNCTION_LOCALS_SS")
         /\ p5.ss_offset_stack = Append(h.ss_offset_stack, 0)
         /\ p5.func_scope_stack = h.func_scope_stack
    BY <1>11, EnterSSFields DEF ScopeSpaces
  <1> HIDE DEF p5
  <1>13. p6 = [p5 EXCEPT !.func_scope_stack = Append(h.func_scope_stack, h.scope)]
    BY <1>11, <1>12
  <1> HIDE DEF p6
  <1>14. Append(h.func_scope_stack, h.scope) \in Seq(Nat)
    BY <1>2
  <1>15. /\ p6 \in Handlers
         /\ p6.scope = h.scope
         /\ p6.ss_stack = Append(h.ss_stack, "FUNCTION_LOCALS_SS")
         /\ p6.ss_offset_stack = Append(h.ss_offset_stack, 0)
         /\ p6.func_scope_stack = Append(h.func_scope_stack, h.scope)
    BY <1>12, <1>13, <1>14, FunctionScopeFields
  <1>16. p7 = [p6 EXCEPT !.scope = h.scope + 1]
    BY <1>15 DEF IncreaseScope
  <1> HIDE DEF p7
  <1>17. /\ p7 \in Handlers
         /\ p7.scope = h.scope + 1
         /\ p7.ss_stack = Append(h.ss_stack, "FUNCTION_LOCALS_SS")
         /\ p7.ss_offset_stack = Append(h.ss_offset_stack, 0)
         /\ p7.func_scope_stack = Append(h.func_scope_stack, h.scope)
    BY <1>2, <1>15, <1>16, ScopeFields
  <1> QED
    BY <1>1, <1>17 DEF p7

-----------------------------------------------------------------------------
(* A function begins: its entry, those of its formals, and its body.       *)
FormalEntry(id, k, home) ==
  VarEntry(Scope + 1, id, "FORMAL_ARG", "FORMAL_ARGUMENTS_SS", k - 1, home)

LEMMA FormalFields ==
  ASSUME TypeOK, NEW id \in Ids, NEW k \in Nat \ {0}, NEW home \in Nat
  PROVE  /\ FormalEntry(id, k, home)
              = [scope |-> Scope + 1, name |-> id, visible |-> TRUE, type |-> "FORMAL_ARG",
                 ss |-> "FORMAL_ARGUMENTS_SS", offset |-> k - 1, home |-> home]
         /\ FormalEntry(id, k, home) \in Entries
  <1>1. Scope \in Nat /\ Scope + 1 # GLOBAL_SCOPE /\ Scope + 1 \in Nat /\ k - 1 \in Nat
    BY HandlerFields DEF GLOBAL_SCOPE
  <1>2. FormalEntry(id, k, home)
          = [scope |-> Scope + 1, name |-> id, visible |-> TRUE, type |-> "FORMAL_ARG",
             ss |-> "FORMAL_ARGUMENTS_SS", offset |-> k - 1, home |-> home]
    BY <1>1 DEF FormalEntry, VarEntry
  <1> QED
    BY <1>1, <1>2 DEF Entries, ScopeSpaces, Names

LEMMA FuncOpenFields ==
  ASSUME IInv, NEW name \in Names \cup GenericNames, NEW ids \in Seq(Ids),
         FuncOpen(name, ids), Lookup(sym_table, name, Scope) = {}, LegalFormals(ids),
         ~ShadowsLibFunc(sym_table, name)
  PROVE  LET n == Len(sym_table) + 1
             m == Len(ids)
         IN  /\ sym_table' \in Seq(Entries)
             /\ Len(sym_table') = n + m
             /\ DOMAIN sym_table' = 1 .. n + m
             /\ \A i \in 1 .. Len(sym_table) : sym_table'[i] = sym_table[i]
             /\ sym_table'[n] = FuncEntry(Scope, name, "USER_FUNC")
             /\ \A k \in 1 .. m : sym_table'[n + k] = FormalEntry(ids[k], k, n)
             /\ scp_handler' \in Handlers
             /\ scp_handler'.scope = Scope + 1
             /\ scp_handler'.ss_stack = Append(scp_handler.ss_stack, "FUNCTION_LOCALS_SS")
             /\ scp_handler'.ss_offset_stack = Append(scp_handler.ss_offset_stack, 0)
             /\ scp_handler'.func_scope_stack = Append(scp_handler.func_scope_stack, Scope)
             /\ func_handler' = Append(func_handler, n)
             /\ open' = Append(open, n)
             /\ found' = 0
             /\ UNCHANGED outcome
  <1> DEFINE n == Len(sym_table) + 1
             m == Len(ids)
             prefix == FuncPrefix(scp_handler)
             f == FuncEntry(Scope, name, "USER_FUNC")
             formals == Formals(prefix, ids, n)
  <1>1. /\ sym_table' = Append(sym_table, f) \o formals
        /\ scp_handler' = IncreaseScope(FuncArgs(IncrOffset(prefix, m)))
        /\ func_handler' = Append(func_handler, n)
        /\ open' = Append(open, n)
        /\ found' = 0
        /\ UNCHANGED outcome
    BY DEF FuncOpen
  <1>2. scp_handler \in Handlers /\ scp_handler.scope = Scope /\ m \in Nat
    BY DEF IInv, TypeOK, Handlers, Scope
  <1>3. /\ scp_handler' \in Handlers
        /\ scp_handler'.scope = Scope + 1
        /\ scp_handler'.ss_stack = Append(scp_handler.ss_stack, "FUNCTION_LOCALS_SS")
        /\ scp_handler'.ss_offset_stack = Append(scp_handler.ss_offset_stack, 0)
        /\ scp_handler'.func_scope_stack = Append(scp_handler.func_scope_stack, Scope)
    BY <1>1, <1>2, HandlerOfBody
  <1>4. prefix.scope = Scope + 1 /\ CurrentSS(prefix) = "FORMAL_ARGUMENTS_SS" /\ NextOffset(prefix) = 0
    <2> DEFINE inner == EnterSS(scp_handler, "FORMAL_ARGUMENTS_SS")
    <2>1. /\ inner \in Handlers
          /\ inner.scope = Scope
          /\ inner.ss_stack = Append(scp_handler.ss_stack, "FORMAL_ARGUMENTS_SS")
          /\ inner.ss_offset_stack = Append(scp_handler.ss_offset_stack, 0)
      BY <1>2, EnterSSFields DEF ScopeSpaces
    <2>2. prefix = [inner EXCEPT !.scope = Scope + 1]
      BY <2>1 DEF FuncPrefix, IncreaseScope
    <2>3. Scope + 1 \in Nat
      BY HandlerFields DEF IInv
    <2> HIDE DEF inner, prefix
    <2>4. /\ prefix.scope = Scope + 1
          /\ prefix.ss_stack = Append(scp_handler.ss_stack, "FORMAL_ARGUMENTS_SS")
          /\ prefix.ss_offset_stack = Append(scp_handler.ss_offset_stack, 0)
      BY <2>1, <2>2, <2>3, ScopeFields
    <2>5. /\ Last(Append(scp_handler.ss_stack, "FORMAL_ARGUMENTS_SS")) = "FORMAL_ARGUMENTS_SS"
          /\ Last(Append(scp_handler.ss_offset_stack, 0)) = 0
      BY HandlerFields, FrontAppend DEF IInv, ScopeSpaces
    <2> QED
      BY <2>4, <2>5 DEF CurrentSS, NextOffset
  <1>5. Len(sym_table) \in Nat /\ n \in Nat /\ n # 0 /\ sym_table \in Seq(Entries) /\ Scope \in Nat
    BY HandlerFields DEF IInv
  <1>6. formals = [k \in 1 .. m |-> FormalEntry(ids[k], k, n)]
    <2>1. \A k \in 1 .. m : 0 + k - 1 = k - 1
      BY <1>2
    <2>2. DOMAIN ids = 1 .. m
      OBVIOUS
    <2> HIDE DEF prefix, m, n
    <2>3. formals = [k \in 1 .. m |-> VarEntry(Scope + 1, ids[k], "FORMAL_ARG",
                                              "FORMAL_ARGUMENTS_SS", 0 + k - 1, n)]
      BY <1>4, <2>2 DEF Formals
    <2> QED
      BY <2>1, <2>3 DEF FormalEntry
  <1>7. \A k \in 1 .. m : FormalEntry(ids[k], k, n) \in Entries
    <2>1. \A k \in 1 .. m : ids[k] \in Ids /\ k \in Nat \ {0}
      BY <1>2
    <2> QED
      BY <1>5, <2>1, FormalFields DEF IInv
  <1> HIDE DEF formals
  <1>8. formals \in Seq(Entries) /\ Len(formals) = m /\ \A k \in 1 .. m : formals[k] = FormalEntry(ids[k], k, n)
    <2> DEFINE entry(k) == FormalEntry(ids[k], k, n)
    <2>1. \A k \in 1 .. m : entry(k) \in Entries
      BY <1>7
    <2>2. formals = [k \in 1 .. m |-> entry(k)]
      BY <1>6
    <2> HIDE DEF entry, m, n
    <2>3. formals \in Seq(Entries) /\ Len(formals) = m /\ \A k \in 1 .. m : formals[k] = entry(k)
      BY <1>2, <2>1, <2>2
    <2> QED
      BY <2>3 DEF entry
  <1>9. f \in Entries
    BY <1>5 DEF FuncEntry, Entries
  <1> HIDE DEF f, n, m
  <1>10. Append(sym_table, f) \in Seq(Entries) /\ Len(Append(sym_table, f)) = n
    BY <1>5, <1>9 DEF n
  <1>11. /\ \A i \in 1 .. Len(sym_table) : Append(sym_table, f)[i] = sym_table[i]
         /\ Append(sym_table, f)[n] = f
    BY <1>5, <1>9 DEF n
  <1>12. /\ sym_table' \in Seq(Entries)
         /\ Len(sym_table') = n + m
         /\ DOMAIN sym_table' = 1 .. n + m
         /\ \A i \in 1 .. Len(sym_table) : sym_table'[i] = sym_table[i]
         /\ sym_table'[n] = f
         /\ \A k \in 1 .. m : sym_table'[n + k] = FormalEntry(ids[k], k, n)
    <2> DEFINE t == Append(sym_table, f)
    <2>1. t \in Seq(Entries) /\ Len(t) = n /\ sym_table' = t \o formals
      BY <1>1, <1>10
    <2>2. (\A i \in 1 .. Len(sym_table) : t[i] = sym_table[i]) /\ t[n] = f
      BY <1>11
    <2> HIDE DEF t
    <2>3. /\ sym_table' \in Seq(Entries)
          /\ Len(sym_table') = n + m
          /\ DOMAIN sym_table' = 1 .. n + m
      <3>1. /\ t \o formals \in Seq(Entries)
            /\ Len(t \o formals) = n + m
        BY <1>2, <1>5, <1>8, <2>1, ConcatProperties
      <3> DEFINE grown == t \o formals
      <3>2. grown \in Seq(Entries) /\ Len(grown) = n + m
        BY <3>1
      <3> HIDE DEF grown
      <3>3. DOMAIN grown = 1 .. n + m
        BY <3>2
      <3> QED
        BY <2>1, <3>2, <3>3 DEF grown
    <2>4. \A i \in 1 .. n : sym_table'[i] = t[i]
      BY <1>2, <1>5, <1>8, <2>1
    <2>5. \A k \in 1 .. m : sym_table'[n + k] = formals[k]
      BY <1>2, <1>5, <1>8, <2>1
    <2>6. \A i \in 1 .. Len(sym_table) : i \in 1 .. n
      BY <1>5 DEF n
    <2> QED
      BY <1>5, <1>8, <2>2, <2>3, <2>4, <2>5, <2>6
  <1> QED
    BY <1>1, <1>3, <1>12 DEF n, m, f

LEMMA FuncOpenKeeps ==
  ASSUME IInv, NEW name \in Names \cup GenericNames, NEW ids \in Seq(Ids),
         Room(1 + Len(ids)), FuncOpen(name, ids),
         Lookup(sym_table, name, Scope) = {}, LegalFormals(ids),
         ~ShadowsLibFunc(sym_table, name)
  PROVE  IInv'
  <1> USE DEF IInv
  <1> DEFINE N == Len(sym_table)
             n == N + 1
             m == Len(ids)
             depth == Len(func_handler)
             off == scp_handler.ss_offset_stack
             below == scp_handler.func_scope_stack
  <1>1. /\ sym_table' \in Seq(Entries)
        /\ Len(sym_table') = n + m
        /\ DOMAIN sym_table' = 1 .. n + m
        /\ \A i \in 1 .. N : sym_table'[i] = sym_table[i]
        /\ sym_table'[n] = FuncEntry(Scope, name, "USER_FUNC")
        /\ \A k \in 1 .. m : sym_table'[n + k] = FormalEntry(ids[k], k, n)
        /\ scp_handler' \in Handlers
        /\ scp_handler'.scope = Scope + 1
        /\ scp_handler'.ss_stack = Append(scp_handler.ss_stack, "FUNCTION_LOCALS_SS")
        /\ scp_handler'.ss_offset_stack = Append(off, 0)
        /\ scp_handler'.func_scope_stack = Append(below, Scope)
        /\ func_handler' = Append(func_handler, n)
        /\ open' = Append(open, n)
        /\ found' = 0
        /\ UNCHANGED outcome
    BY FuncOpenFields
  <1>2. /\ N \in Nat /\ n \in Nat /\ m \in Nat /\ depth \in Nat /\ Len(open) \in Nat
        /\ Scope = Len(open)
        /\ DOMAIN sym_table = 1 .. N
        /\ DOMAIN func_handler = 1 .. depth
        /\ func_handler \in Seq(1 .. N)
        /\ open \in Seq({0} \cup 1 .. N)
        /\ ids \in [1 .. m -> Ids]
    BY HandlerFields DEF Structure, HandlersInStep
  <1>3. \A k \in 1 .. m :
          /\ ~IsFunc(sym_table'[n + k])
          /\ sym_table'[n + k].scope = Scope + 1
          /\ sym_table'[n + k].name = ids[k]
          /\ sym_table'[n + k].visible = TRUE
          /\ sym_table'[n + k].ss = "FORMAL_ARGUMENTS_SS"
          /\ sym_table'[n + k].offset = k - 1
          /\ sym_table'[n + k].home = n
    <2>1. \A k \in 1 .. m : ids[k] \in Ids /\ k \in Nat \ {0}
      BY <1>2
    <2>2. \A k \in 1 .. m : sym_table'[n + k] = FormalEntry(ids[k], k, n)
      BY <1>1
    <2>3. TypeOK /\ n \in Nat
      BY <1>2
    <2> HIDE DEF m, n, IInv
    <2> SUFFICES ASSUME NEW k \in 1 .. m
                 PROVE  /\ ~IsFunc(sym_table'[n + k])
                        /\ sym_table'[n + k].scope = Scope + 1
                        /\ sym_table'[n + k].name = ids[k]
                        /\ sym_table'[n + k].visible = TRUE
                        /\ sym_table'[n + k].ss = "FORMAL_ARGUMENTS_SS"
                        /\ sym_table'[n + k].offset = k - 1
                        /\ sym_table'[n + k].home = n
      OBVIOUS
    <2>4. /\ ids[k] \in Ids /\ k \in Nat \ {0}
          /\ sym_table'[n + k] = FormalEntry(ids[k], k, n)
      BY <2>1, <2>2
    <2> DEFINE e == FormalEntry(ids[k], k, n)
    <2>5. e = [scope |-> Scope + 1, name |-> ids[k], visible |-> TRUE, type |-> "FORMAL_ARG",
               ss |-> "FORMAL_ARGUMENTS_SS", offset |-> k - 1, home |-> n]
      BY <2>3, <2>4, FormalFields
    <2>6. sym_table'[n + k] = e
      BY <2>4
    <2> HIDE DEF e
    <2>7. /\ e.scope = Scope + 1 /\ e.name = ids[k] /\ e.visible = TRUE
          /\ e.type = "FORMAL_ARG" /\ e.ss = "FORMAL_ARGUMENTS_SS"
          /\ e.offset = k - 1 /\ e.home = n
      BY <2>5
    <2> QED
      BY <2>6, <2>7 DEF IsFunc
  <1>4. /\ IsFunc(sym_table'[n])
        /\ sym_table'[n].scope = Scope
        /\ sym_table'[n].name = name
        /\ sym_table'[n].visible = TRUE
    BY <1>1 DEF FuncEntry, IsFunc
  <1>5. \A i \in 1 .. n + m : \/ i \in 1 .. N
                              \/ i = n
                              \/ \E k \in 1 .. m : i = n + k
    <2> SUFFICES ASSUME NEW i \in 1 .. n + m
                 PROVE  i \in 1 .. N \/ i = n \/ \E k \in 1 .. m : i = n + k
      OBVIOUS
    <2>1. CASE i <= n
      BY <1>2, <2>1
    <2>2. CASE i > n
      <3>1. i - n \in 1 .. m /\ i = n + (i - n)
        BY <1>2, <2>2
      <3> QED
        BY <3>1
    <2> QED
      BY <1>2, <2>1, <2>2
  <1>6. /\ func_handler' \in Seq(1 .. n)
        /\ Len(func_handler') = depth + 1
        /\ DOMAIN func_handler' = 1 .. depth + 1
        /\ \A k \in 1 .. depth : func_handler'[k] = func_handler[k] /\ func_handler[k] \in 1 .. N
        /\ func_handler'[depth + 1] = n
    <2>1. func_handler \in Seq(1 .. n) /\ n \in 1 .. n
      BY <1>2
    <2> HIDE DEF N, n, depth
    <2>2. func_handler' = Append(func_handler, n) /\ Len(func_handler) = depth
      BY <1>1 DEF depth
    <2>3. \A k \in 1 .. depth : func_handler[k] \in 1 .. N
      BY <1>2, <2>2
    <2> QED
      BY <1>2, <2>1, <2>2, <2>3, AppendProperties
  <1>7. /\ open' \in Seq({0} \cup 1 .. n)
        /\ Len(open') = Len(open) + 1
        /\ DOMAIN open' = 1 .. Len(open) + 1
        /\ DOMAIN open = 1 .. Len(open)
        /\ \A j \in 1 .. Len(open) : open'[j] = open[j]
        /\ open'[Len(open) + 1] = n
    <2>1. open \in Seq({0} \cup 1 .. n) /\ n \in 1 .. n
      BY <1>2
    <2> HIDE DEF N, n
    <2> QED
      BY <1>1, <1>2, <2>1
  <1>8. TypeOK'
    <2>1. 1 .. n \subseteq DOMAIN sym_table'
      BY <1>1, <1>2
    <2>2. func_handler' \in Seq(DOMAIN sym_table') /\ open' \in Seq({0} \cup DOMAIN sym_table')
      <3> DEFINE D == DOMAIN sym_table'
      <3>1. 1 .. n \subseteq D
        BY <2>1
      <3> HIDE DEF D
      <3>2. \A i \in 1 .. depth + 1 : func_handler'[i] \in D
        BY <1>6, <3>1
      <3>3. \A i \in 1 .. Len(open) + 1 : open'[i] \in {0} \cup D
        BY <1>7, <3>1
      <3> QED
        BY <1>6, <1>7, <3>2, <3>3 DEF D
    <2>3. outcome' \in {"parsing", "compiled", "syntax_error", "runtime_error", "assertion"}
      BY <1>1 DEF TypeOK
    <2> QED
      BY <1>1, <2>2, <2>3 DEF TypeOK, Handlers
  <1> HIDE DEF n, N, m, depth, off, below
  <1>9. TableGrows'
    BY <1>1, <1>2 DEF Room, Structure, TableGrows, n, N, m
  <1>10. N + 1 = n /\ Len(func_handler) = depth
    BY DEF n, depth
  <1>o. \A i \in 1 .. N : sym_table'[i] = sym_table[i] /\ i \in 1 .. n + m /\ i < n
    BY <1>1, <1>2, <1>10
  <1>11. OneVisibleEntry'
    <2>1. \A i \in 1 .. N :
            /\ sym_table[i].scope \in Nat
            /\ sym_table[i].visible => sym_table[i].scope <= Scope
            /\ ~(sym_table[i].visible /\ sym_table[i].name = name /\ sym_table[i].scope = Scope)
      BY <1>2, EntryFields DEF OneVisibleEntry, Lookup
    <2>2. \A i, j \in 1 .. N :
            /\ sym_table[i].visible /\ sym_table[j].visible
            /\ sym_table[i].name = sym_table[j].name
            /\ sym_table[i].scope = sym_table[j].scope
            => i = j
      BY <1>2, OnlyEntry DEF OneVisibleEntry
    <2>3. Scope' = Scope + 1 /\ Scope \in Nat
      BY <1>1, <1>2 DEF Scope
    <2>4. \A j, k \in 1 .. m : ids[j] = ids[k] => j = k
      BY <1>2 DEF LegalFormals, IsInjective
    <2>5. ASSUME NEW i \in 1 .. n + m, NEW j \in 1 .. n + m,
                 sym_table'[i].visible, sym_table'[j].visible,
                 sym_table'[i].name = sym_table'[j].name,
                 sym_table'[i].scope = sym_table'[j].scope
          PROVE  i = j
      <3>1. CASE i \in 1 .. N
        <4>1. sym_table[i].scope <= Scope /\ sym_table'[i] = sym_table[i]
          BY <1>o, <2>1, <2>5, <3>1
        <4>2. CASE j \in 1 .. N
          BY <1>o, <2>2, <2>5, <3>1, <4>2
        <4>3. CASE j = n
          BY <1>4, <2>1, <2>5, <3>1, <4>1, <4>3
        <4>4. CASE \E k \in 1 .. m : j = n + k
          BY <1>3, <2>1, <2>3, <2>5, <3>1, <4>1, <4>4
        <4> QED
          BY <1>5, <4>2, <4>3, <4>4
      <3>2. CASE i = n
        <4>1. CASE j \in 1 .. N
          BY <1>4, <1>o, <2>1, <2>5, <3>2, <4>1
        <4>2. CASE \E k \in 1 .. m : j = n + k
          BY <1>3, <1>4, <2>3, <2>5, <3>2, <4>2
        <4> QED
          BY <1>5, <3>2, <4>1, <4>2
      <3>3. CASE \E k \in 1 .. m : i = n + k
        <4>1. PICK k \in 1 .. m : i = n + k
          BY <3>3
        <4>2. sym_table'[i].scope = Scope + 1 /\ sym_table'[i].name = ids[k]
          BY <1>3, <4>1
        <4>3. PICK l \in 1 .. m : j = n + l
          <5>1. j \notin 1 .. N
            <6>1. SUFFICES ASSUME j \in 1 .. N PROVE FALSE
              OBVIOUS
            <6>2. sym_table[j].scope <= Scope /\ sym_table[j].scope = Scope + 1
              BY <1>o, <2>1, <2>5, <4>2, <6>1
            <6> QED
              BY <2>3, <6>2
          <5>2. j # n
            <6>1. sym_table'[j].scope = Scope + 1 /\ Scope + 1 # Scope
              BY <2>3, <2>5, <4>2
            <6> QED
              BY <1>4, <6>1
          <5> QED
            BY <1>5, <5>1, <5>2
        <4>4. k = l
          <5>1. ids[k] = ids[l]
            BY <1>3, <2>5, <4>2, <4>3
          <5> QED
            BY <2>4, <5>1
        <4> QED
          BY <4>1, <4>3, <4>4
      <3> QED
        BY <1>5, <3>1, <3>2, <3>3
    <2>6. \A i \in 1 .. n + m : sym_table'[i].visible => sym_table'[i].scope <= Scope'
      <3> SUFFICES ASSUME NEW i \in 1 .. n + m, sym_table'[i].visible
                   PROVE  sym_table'[i].scope <= Scope'
        OBVIOUS
      <3>1. CASE i \in 1 .. N
        BY <1>o, <2>1, <2>3, <3>1
      <3>2. CASE i = n
        BY <1>4, <2>3, <3>2
      <3>3. CASE \E k \in 1 .. m : i = n + k
        BY <1>3, <2>3, <3>3
      <3> QED
        BY <1>5, <3>1, <3>2, <3>3
    <2>7. \A i \in DOMAIN sym_table' : sym_table'[i].visible =>
            Lookup(sym_table', sym_table'[i].name, sym_table'[i].scope) = {i}
      BY <1>1, <2>5, OnlyEntry
    <2> QED
      BY <1>1, <2>6, <2>7 DEF OneVisibleEntry
  <1>12. FunctionsNested'
    <2>1. /\ \A j, k \in 1 .. depth : j < k => func_handler[j] < func_handler[k]
          /\ \A k \in 1 .. depth : IsFunc(sym_table[func_handler[k]])
      BY <1>2 DEF Structure, FunctionsNested
    <2>2. \A k \in 1 .. depth + 1 : k \in 1 .. depth \/ k = depth + 1
      BY <1>2
    <2>3. \A k \in 1 .. depth : func_handler[k] < n
      BY <1>2, <1>6, <1>10
    <2>4. ASSUME NEW j \in 1 .. depth + 1, NEW k \in 1 .. depth + 1, j < k
          PROVE  func_handler'[j] < func_handler'[k]
      <3>1. j \in 1 .. depth /\ func_handler'[j] = func_handler[j]
        BY <1>2, <1>6, <2>2, <2>4
      <3>2. CASE k \in 1 .. depth
        <4>1. func_handler'[k] = func_handler[k]
          BY <1>6, <3>2
        <4> QED
          BY <2>1, <2>4, <3>1, <3>2, <4>1
      <3>3. CASE k = depth + 1
        BY <1>6, <2>3, <3>1, <3>3
      <3> QED
        BY <2>2, <3>2, <3>3
    <2>5. ASSUME NEW k \in 1 .. depth + 1
          PROVE  IsFunc(sym_table'[func_handler'[k]])
      <3>1. CASE k \in 1 .. depth
        <4>1. func_handler'[k] = func_handler[k] /\ func_handler[k] \in 1 .. N
          BY <1>6, <3>1
        <4>2. sym_table'[func_handler[k]] = sym_table[func_handler[k]]
          BY <1>o, <4>1
        <4> QED
          BY <2>1, <3>1, <4>1, <4>2
      <3>2. CASE k = depth + 1
        BY <1>4, <1>6, <3>2
      <3> QED
        BY <2>2, <3>1, <3>2
    <2> QED
      BY <1>6, <2>4, <2>5 DEF FunctionsNested
  <1>13. SpacesFit'
    <2>1. \A i \in 1 .. N : ~IsFunc(sym_table[i]) =>
            /\ sym_table[i].ss = "PROGRAM_SS" <=> sym_table[i].home = 0
            /\ sym_table[i].home # 0 => /\ sym_table[i].home \in 1 .. N
                                        /\ IsFunc(sym_table[sym_table[i].home])
      BY <1>2 DEF Structure, SpacesFit, IsVar
    <2>2. n # 0 /\ n \in 1 .. n + m /\ \A i \in 1 .. N : i \in 1 .. n + m
      BY <1>2, <1>10
    <2>3. ASSUME NEW i \in 1 .. n + m, ~IsFunc(sym_table'[i])
          PROVE  /\ sym_table'[i].ss = "PROGRAM_SS" <=> sym_table'[i].home = 0
                 /\ sym_table'[i].home # 0 => /\ sym_table'[i].home \in 1 .. n + m
                                              /\ IsFunc(sym_table'[sym_table'[i].home])
      <3>1. CASE i \in 1 .. N
        BY <1>1, <2>1, <2>2, <2>3, <3>1
      <3>2. CASE \E k \in 1 .. m : i = n + k
        BY <1>3, <1>4, <2>2, <3>2
      <3> QED
        BY <1>4, <1>5, <2>3, <3>1, <3>2
    <2> QED
      BY <1>1, <2>3 DEF SpacesFit, IsVar
  <1>14. VisibleAtHome'
    <2>1. \A i \in 1 .. N : ~IsFunc(sym_table[i]) /\ sym_table[i].visible =>
            /\ sym_table[i].scope \in Nat
            /\ sym_table[i].scope <= Len(open)
            /\ HomeAt(sym_table[i].scope, sym_table[i].home)
      BY <1>2, EntryFields DEF OneVisibleEntry, Structure, VisibleAtHome, IsVar
    <2> DEFINE HomeNow(s, h) ==
                 \/ h = 0 /\ \A j \in 1 .. s : open'[j] = 0
                 \/ h # 0 /\ \E j \in 1 .. s : open'[j] = h /\ \A l \in j + 1 .. s : open'[l] = 0
    <2>2. ASSUME NEW s \in Nat, s <= Len(open), NEW h, HomeAt(s, h)
          PROVE  HomeNow(s, h)
      <3>1. \A j \in 1 .. s : j \in 1 .. Len(open) /\ open'[j] = open[j]
        BY <1>2, <1>7, <2>2
      <3>2. CASE h = 0
        BY <2>2, <3>1, <3>2 DEF HomeAt
      <3>3. CASE h # 0
        <4>1. PICK j \in 1 .. s : open[j] = h /\ \A l \in j + 1 .. s : open[l] = 0
          BY <2>2, <3>3 DEF HomeAt
        <4>2. \A l \in j + 1 .. s : l \in 1 .. s
          BY <2>2
        <4>3. open'[j] = h /\ \A l \in j + 1 .. s : open'[l] = 0
          BY <3>1, <4>1, <4>2
        <4> QED
          BY <3>3, <4>3
      <3> QED
        BY <3>2, <3>3
    <2>3. HomeNow(Scope + 1, n)
      <3>1. Scope + 1 \in 1 .. Scope + 1 /\ n # 0 /\ open'[Scope + 1] = n
        BY <1>2, <1>7, <1>10
      <3>2. \A l \in Scope + 1 + 1 .. Scope + 1 : FALSE
        BY <1>2
      <3> QED
        BY <3>1, <3>2
    <2> HIDE DEF HomeNow
    <2>4. ASSUME NEW i \in 1 .. n + m, ~IsFunc(sym_table'[i]), sym_table'[i].visible
          PROVE  HomeNow(sym_table'[i].scope, sym_table'[i].home)
      <3>1. CASE i \in 1 .. N
        BY <1>o, <2>1, <2>2, <2>4, <3>1
      <3>2. CASE \E k \in 1 .. m : i = n + k
        BY <1>3, <2>3, <3>2
      <3> QED
        BY <1>4, <1>5, <2>4, <3>1, <3>2
    <2> QED
      BY <1>1, <2>4 DEF VisibleAtHome, IsVar, HomeAt, HomeNow
  <1>15. PlacesDistinct'
    <2>1. \A i, j \in 1 .. N :
            (i # j /\ ~IsFunc(sym_table[i]) /\ ~IsFunc(sym_table[j])
               /\ sym_table[i].home = sym_table[j].home /\ sym_table[i].ss = sym_table[j].ss)
              => sym_table[i].offset # sym_table[j].offset
      BY <1>2 DEF Structure, PlacesDistinct, IsVar
    <2>2. \A i \in 1 .. N : ~IsFunc(sym_table[i]) => sym_table[i].home # n
      BY <1>2, <1>10 DEF Structure, SpacesFit, IsVar
    <2>3. ASSUME NEW i \in 1 .. n + m, NEW j \in 1 .. n + m, i # j,
                 ~IsFunc(sym_table'[i]), ~IsFunc(sym_table'[j]),
                 sym_table'[i].home = sym_table'[j].home
          PROVE  (sym_table'[i].ss = sym_table'[j].ss) => sym_table'[i].offset # sym_table'[j].offset
      <3>1. CASE i \in 1 .. N
        <4>1. j \in 1 .. N
          <5>1. sym_table'[i].home # n
            BY <1>o, <2>2, <2>3, <3>1
          <5> QED
            BY <1>3, <1>4, <1>5, <2>3, <5>1
        <4> QED
          BY <1>o, <2>1, <2>3, <3>1, <4>1
      <3>2. CASE \E k \in 1 .. m : i = n + k
        <4>1. PICK k \in 1 .. m : i = n + k
          BY <3>2
        <4>2. j \notin 1 .. N /\ j # n
          BY <1>o, <1>3, <1>4, <2>2, <2>3, <4>1
        <4>3. PICK l \in 1 .. m : j = n + l
          BY <1>5, <4>2
        <4>4. k \in Nat /\ l \in Nat /\ k # l
          BY <2>3, <4>1, <4>3
        <4>5. sym_table'[i].offset = k - 1 /\ sym_table'[j].offset = l - 1
          BY <1>3, <4>1, <4>3
        <4> QED
          BY <4>4, <4>5
      <3> QED
        BY <1>4, <1>5, <2>3, <3>1, <3>2
    <2> QED
      BY <1>1, <2>3 DEF PlacesDistinct, IsVar
  <1>16. /\ off \in [1 .. depth + 1 -> Nat]
         /\ Len(off) = depth + 1
         /\ off \in Seq(Nat)
    <2>1. off \in Seq(Nat) /\ Len(off) = depth + 1
      BY Here, HandlerFields DEF Structure, off, depth
    <2> QED
      BY <1>2, <2>1
  <1>17. /\ \A k \in 1 .. depth + 1 : scp_handler'.ss_offset_stack[k] = off[k]
         /\ Head(scp_handler'.ss_offset_stack) = Head(off)
         /\ Len(scp_handler'.ss_offset_stack) = depth + 2
    <2> DEFINE grown == Append(off, 0)
    <2>1. /\ grown \in Seq(Nat) /\ Len(grown) = depth + 2
          /\ \A k \in 1 .. depth + 1 : grown[k] = off[k]
      BY <1>2, <1>16
    <2>2. scp_handler'.ss_offset_stack = grown
      BY <1>1 DEF off
    <2> HIDE DEF grown
    <2>3. Head(grown) = grown[1] /\ Head(off) = off[1]
      BY <1>2, <1>16, <2>1
    <2> QED
      BY <1>2, <2>1, <2>2, <2>3
  <1>18. EnoughLocals'
    <2> DEFINE Total(h) == TotalIn(sym_table, func_handler, off, h)
               NewTotal(h) == TotalIn(sym_table', func_handler', scp_handler'.ss_offset_stack, h)
    <2>1. \A k \in 1 .. depth : Total(func_handler[k]) = off[1 + k]
      <3>1. \A j, k \in DOMAIN func_handler : func_handler[j] = func_handler[k] => j = k
        BY FunctionsDiffer DEF Structure
      <3> QED
        <4> SUFFICES ASSUME NEW k \in 1 .. depth
                     PROVE  Total(func_handler[k]) = off[1 + k]
          OBVIOUS
        <4>1. k \in DOMAIN func_handler
          BY <1>2
        <4> QED
          BY <3>1, <4>1, OpenTotals
    <2>2. \A k \in 1 .. depth : NewTotal(func_handler[k]) = off[1 + k]
      <3>1. \A k \in 1 .. depth + 1 : k \in 1 .. depth \/ k = depth + 1
        BY <1>2
      <3>2. \A j, k \in 1 .. depth : func_handler[j] = func_handler[k] => j = k
        BY <1>2, FunctionsDiffer DEF Structure
      <3>3. \A k \in 1 .. depth : func_handler[k] # n
        BY <1>6, <1>o
      <3>4. ASSUME NEW k \in 1 .. depth
            PROVE  NewTotal(func_handler[k]) = off[1 + k]
        <4>1. k \in DOMAIN func_handler' /\ func_handler'[k] = func_handler[k]
          BY <1>2, <1>6
        <4>2. \A j \in DOMAIN func_handler' : func_handler'[j] = func_handler'[k] => j = k
          BY <1>6, <3>1, <3>2, <3>3, <4>1
        <4>3. NewTotal(func_handler'[k]) = scp_handler'.ss_offset_stack[1 + k]
          BY <4>1, <4>2, OpenTotals
        <4>4. 1 + k \in 1 .. depth + 1
          BY <1>2
        <4> QED
          BY <1>17, <4>1, <4>3, <4>4
      <3> QED
        BY <3>4
    <2>3. ASSUME NEW h \in 1 .. N
          PROVE  NewTotal(h) = Total(h)
      <3>1. CASE \E k \in 1 .. depth : func_handler[k] = h
        BY <2>1, <2>2, <3>1
      <3>2. CASE ~\E k \in 1 .. depth : func_handler[k] = h
        <4>1. ~\E k \in DOMAIN func_handler' : func_handler'[k] = h
          <5>1. h # n
            BY <1>o
          <5>2. \A k \in 1 .. depth + 1 : k \in 1 .. depth \/ k = depth + 1
            BY <1>2
          <5> QED
            BY <1>6, <3>2, <5>1, <5>2
        <4>2. ~\E k \in DOMAIN func_handler : func_handler[k] = h
          BY <1>2, <3>2
        <4>3. NewTotal(h) = sym_table'[h].total_locals /\ Total(h) = sym_table[h].total_locals
          BY <4>1, <4>2 DEF TotalIn
        <4> QED
          BY <1>o, <4>3
      <3> QED
        BY <3>1, <3>2
    <2> HIDE DEF Total, NewTotal
    <2>4. \A i \in 1 .. N : ~IsFunc(sym_table[i]) =>
            /\ sym_table[i].ss = "FUNCTION_LOCALS_SS" =>
                 /\ sym_table[i].home \in 1 .. N
                 /\ sym_table[i].offset < Total(sym_table[i].home)
            /\ sym_table[i].ss = "PROGRAM_SS" => sym_table[i].offset < Head(off)
      BY <1>2, EnoughInTotal DEF Structure, SpacesFit, IsVar, Total, off
    <2>5. ASSUME NEW i \in 1 .. n + m, ~IsFunc(sym_table'[i])
          PROVE  /\ sym_table'[i].ss = "FUNCTION_LOCALS_SS"
                      => sym_table'[i].offset < NewTotal(sym_table'[i].home)
                 /\ sym_table'[i].ss = "PROGRAM_SS"
                      => sym_table'[i].offset < Head(scp_handler'.ss_offset_stack)
      <3>1. CASE i \in 1 .. N
        BY <1>o, <1>17, <2>3, <2>4, <2>5, <3>1
      <3>2. CASE \E k \in 1 .. m : i = n + k
        BY <1>3, <3>2
      <3> QED
        BY <1>4, <1>5, <2>5, <3>1, <3>2
    <2> QED
      BY <1>1, <2>5 DEF EnoughLocals, TotalLocals, TotalIn, IsVar, NewTotal
  <1>19. HandlersInStep'
    <2>1. HandlersInStep /\ TypeOK
      BY DEF Structure
    <2>2. /\ below \in [1 .. depth -> Nat] /\ below \in Seq(Nat) /\ Len(below) = depth
          /\ \A j, k \in 1 .. depth : j < k => below[j] < below[k]
          /\ \A k \in 1 .. depth : /\ below[k] + 1 \in 1 .. Len(open)
                                  /\ open[below[k] + 1] = func_handler[k]
          /\ FunctionsIn(open) = {below[k] + 1 : k \in 1 .. depth}
      BY <2>1, InStep, HandlerFields DEF HandlersInStep, below, depth
    <2> DEFINE nb == scp_handler'.func_scope_stack
    <2>3. /\ Len(nb) = depth + 1
          /\ \A k \in 1 .. depth : nb[k] = below[k]
          /\ nb[depth + 1] = Scope
      <3>1. below \in Seq(Nat) /\ Len(below) = depth /\ Scope \in Nat
        BY <1>2, <2>2
      <3>2. nb = Append(below, Scope)
        BY <1>1
      <3> HIDE DEF nb
      <3> QED
        BY <3>1, <3>2, AppendProperties
    <2>4. \A k \in 1 .. depth + 1 : k \in 1 .. depth \/ k = depth + 1
      BY <1>2
    <2> HIDE DEF nb
    <2>5. Scope' = Len(open')
      BY <1>1, <1>2, <1>7 DEF Scope
    <2>6. scp_handler'.ss_stack = [k \in 1 .. Len(func_handler') + 1 |->
                                     IF k = 1 THEN "PROGRAM_SS" ELSE "FUNCTION_LOCALS_SS"]
      <3> DEFINE spaces(d) == [k \in 1 .. d |-> IF k = 1 THEN "PROGRAM_SS" ELSE "FUNCTION_LOCALS_SS"]
                 grown == Append(scp_handler.ss_stack, "FUNCTION_LOCALS_SS")
      <3>1. scp_handler.ss_stack = spaces(depth + 1)
        BY <1>10, <2>1 DEF HandlersInStep
      <3>2. grown = spaces(depth + 2)
        <4>1. /\ spaces(depth + 1) \in Seq(ScopeSpaces) /\ Len(spaces(depth + 1)) = depth + 1
              /\ spaces(depth + 2) \in Seq(ScopeSpaces) /\ Len(spaces(depth + 2)) = depth + 2
          BY <1>2 DEF ScopeSpaces
        <4>2. /\ grown \in Seq(ScopeSpaces) /\ Len(grown) = depth + 2
              /\ \A k \in 1 .. depth + 1 : grown[k] = spaces(depth + 1)[k]
              /\ grown[depth + 2] = "FUNCTION_LOCALS_SS"
          <5> HIDE DEF spaces
          <5> QED
            BY <1>2, <3>1, <4>1 DEF ScopeSpaces
        <4>3. ASSUME NEW k \in 1 .. depth + 2 PROVE grown[k] = spaces(depth + 2)[k]
          <5>1. CASE k \in 1 .. depth + 1
            <6>1. grown[k] = spaces(depth + 1)[k]
              BY <4>2, <5>1
            <6> HIDE DEF grown
            <6> QED
              BY <1>2, <5>1, <6>1
          <5>2. CASE k = depth + 2
            <6>1. grown[k] = "FUNCTION_LOCALS_SS" /\ k # 1
              BY <1>2, <4>2, <5>2
            <6> HIDE DEF grown
            <6> QED
              BY <6>1
          <5>3. k \in 1 .. depth + 1 \/ k = depth + 2
            BY <1>2
          <5> QED
            BY <5>1, <5>2, <5>3
        <4> HIDE DEF spaces, grown
        <4> QED
          BY <4>1, <4>2, <4>3, SeqEqual
      <3>3. Len(func_handler') + 1 = depth + 2
        BY <1>2, <1>6
      <3>4. scp_handler'.ss_stack = grown
        BY <1>1
      <3>5. scp_handler'.ss_stack = spaces(Len(func_handler') + 1)
        <4> HIDE DEF spaces, grown
        <4> QED
          BY <3>2, <3>3, <3>4
      <3> QED
        BY <3>5
    <2>7. /\ Len(scp_handler'.ss_offset_stack) = Len(func_handler') + 1
          /\ Len(nb) = Len(func_handler')
      BY <1>2, <1>6, <1>17, <2>3
    <2>8. \A j, k \in 1 .. depth + 1 : j < k => nb[j] < nb[k]
      <3> SUFFICES ASSUME NEW j \in 1 .. depth + 1, NEW k \in 1 .. depth + 1, j < k
                   PROVE  nb[j] < nb[k]
        OBVIOUS
      <3>1. j \in 1 .. depth /\ nb[j] = below[j]
        BY <1>2, <2>3, <2>4
      <3>2. CASE k \in 1 .. depth
        BY <2>2, <2>3, <3>1, <3>2
      <3>3. CASE k = depth + 1
        <4>1. below[j] < Scope
          BY <1>2, <2>2, <3>1
        <4> QED
          BY <2>3, <3>1, <3>3, <4>1
      <3> QED
        BY <2>4, <3>2, <3>3
    <2>9. FunctionsIn(open') = {nb[k] + 1 : k \in 1 .. depth + 1}
      <3>1. ASSUME NEW i \in 1 .. Len(open) + 1, open'[i] # 0
            PROVE  \E k \in 1 .. depth + 1 : i = nb[k] + 1
        <4>1. CASE i \in 1 .. Len(open)
          <5>1. PICK k \in 1 .. depth : i = below[k] + 1
            BY <1>7, <2>2, <3>1, <4>1 DEF FunctionsIn
          <5>2. k \in 1 .. depth + 1 /\ nb[k] = below[k]
            BY <1>2, <2>3
          <5> QED
            BY <5>1, <5>2
        <4>2. CASE i = Len(open) + 1
          <5>1. depth + 1 \in 1 .. depth + 1 /\ i = nb[depth + 1] + 1
            BY <1>2, <2>3, <4>2
          <5> QED
            BY <5>1
        <4> QED
          BY <1>2, <4>1, <4>2
      <3>2. ASSUME NEW k \in 1 .. depth + 1
            PROVE  nb[k] + 1 \in 1 .. Len(open) + 1 /\ open'[nb[k] + 1] # 0
        <4>1. CASE k \in 1 .. depth
          <5>1. nb[k] = below[k] /\ below[k] + 1 \in 1 .. Len(open) /\ func_handler[k] # 0
            BY <1>6, <2>2, <2>3, <4>1
          <5>2. open'[below[k] + 1] = func_handler[k]
            BY <1>7, <2>2, <4>1, <5>1
          <5> QED
            BY <1>2, <5>1, <5>2
        <4>2. CASE k = depth + 1
          BY <1>2, <1>7, <1>10, <2>3, <4>2
        <4> QED
          BY <2>4, <4>1, <4>2
      <3> QED
        BY <1>7, <3>1, <3>2 DEF FunctionsIn
    <2>10. \A k \in 1 .. depth + 1 : open'[nb[k] + 1] = func_handler'[k]
      <3> SUFFICES ASSUME NEW k \in 1 .. depth + 1
                   PROVE  open'[nb[k] + 1] = func_handler'[k]
        OBVIOUS
      <3>1. CASE k \in 1 .. depth
        BY <1>6, <1>7, <2>2, <2>3, <3>1
      <3>2. CASE k = depth + 1
        BY <1>2, <1>6, <1>7, <2>3, <3>2
      <3> QED
        BY <2>4, <3>1, <3>2
    <2> QED
      BY <1>6, <2>5, <2>6, <2>7, <2>8, <2>9, <2>10 DEF HandlersInStep, nb
  <1>20. OperandsInScope'
    BY <1>1 DEF OperandsInScope
  <1> QED
    BY <1>8, <1>9, <1>11, <1>12, <1>13, <1>14, <1>15, <1>18, <1>19, <1>20 DEF Structure

-----------------------------------------------------------------------------
(* A block or a function ends: its names are hidden. *)
VarEntries ==
  [scope : Nat, name : Names \cup GenericNames, visible : BOOLEAN, type : VarTypes,
   ss : ScopeSpaces, offset : Nat, home : Nat]

FuncEntries ==
  [scope : Nat, name : Names \cup GenericNames, visible : BOOLEAN,
   type : {"USER_FUNC", "LIB_FUNC"}, total_locals : Nat]

LEMMA EntryKinds ==
  ASSUME NEW e \in Entries
  PROVE  /\ IsFunc(e) => e \in FuncEntries
         /\ ~IsFunc(e) => e \in VarEntries
  BY DEF Entries, IsFunc, FuncEntries, VarEntries, VarTypes

(* What a table keeps when entries are hidden. *)
LEMMA HiddenEntry ==
  ASSUME NEW e \in Entries
  PROVE  LET d == [e EXCEPT !.visible = FALSE]
         IN  /\ d \in Entries
             /\ d.visible = FALSE
             /\ d.scope = e.scope /\ d.name = e.name /\ d.type = e.type
             /\ ~IsFunc(e) => d.ss = e.ss /\ d.offset = e.offset /\ d.home = e.home
             /\ IsFunc(e) => d.total_locals = e.total_locals
  <1> DEFINE d == [e EXCEPT !.visible = FALSE]
  <1>1. CASE IsFunc(e)
    <2>1. e \in FuncEntries
      BY <1>1, EntryKinds
    <2>2. /\ d \in FuncEntries /\ d.visible = FALSE
          /\ d.scope = e.scope /\ d.name = e.name /\ d.type = e.type
          /\ d.total_locals = e.total_locals
      BY <2>1 DEF FuncEntries
    <2> HIDE DEF d
    <2>3. d \in Entries
      BY <2>2 DEF FuncEntries, Entries
    <2> QED
      BY <1>1, <2>2, <2>3 DEF d
  <1>2. CASE ~IsFunc(e)
    <2>1. e \in VarEntries
      BY <1>2, EntryKinds
    <2>2. /\ d \in VarEntries /\ d.visible = FALSE
          /\ d.scope = e.scope /\ d.name = e.name /\ d.type = e.type
          /\ d.ss = e.ss /\ d.offset = e.offset /\ d.home = e.home
      BY <2>1 DEF VarEntries
    <2> HIDE DEF d
    <2>3. d \in Entries
      BY <2>2 DEF VarEntries, VarTypes, Entries
    <2> QED
      BY <1>2, <2>2, <2>3 DEF d
  <1> QED
    BY <1>1, <1>2

(* The table after a scope is left, whatever totals were set. *)
SameButHidden(table) ==
  /\ Len(table) = Len(sym_table)
  /\ \A i \in 1 .. Len(sym_table) :
       /\ table[i].scope = sym_table[i].scope
       /\ table[i].name = sym_table[i].name
       /\ table[i].type = sym_table[i].type
       /\ table[i].visible <=> sym_table[i].visible /\ sym_table[i].scope # Scope
       /\ ~IsFunc(sym_table[i]) => /\ table[i].ss = sym_table[i].ss
                                   /\ table[i].offset = sym_table[i].offset
                                   /\ table[i].home = sym_table[i].home

LEMMA HideFields ==
  ASSUME TypeOK
  PROVE  LET table == Hide(sym_table, Scope)
         IN  /\ table \in Seq(Entries)
             /\ SameButHidden(table)
             /\ \A i \in 1 .. Len(sym_table) :
                  IsFunc(sym_table[i]) => table[i].total_locals = sym_table[i].total_locals
  <1> DEFINE N == Len(sym_table)
             after(e) == IF e.scope = Scope THEN [e EXCEPT !.visible = FALSE] ELSE e
             table == Hide(sym_table, Scope)
  <1>1. N \in Nat /\ DOMAIN sym_table = 1 .. N /\ \A i \in 1 .. N : sym_table[i] \in Entries
    BY HandlerFields
  <1>2. table = [i \in 1 .. N |-> after(sym_table[i])]
    BY <1>1 DEF Hide
  <1>3. ASSUME NEW i \in 1 .. N
        PROVE  /\ after(sym_table[i]) \in Entries
               /\ after(sym_table[i]).scope = sym_table[i].scope
               /\ after(sym_table[i]).name = sym_table[i].name
               /\ after(sym_table[i]).type = sym_table[i].type
               /\ after(sym_table[i]).visible <=> sym_table[i].visible /\ sym_table[i].scope # Scope
               /\ ~IsFunc(sym_table[i]) =>
                    /\ after(sym_table[i]).ss = sym_table[i].ss
                    /\ after(sym_table[i]).offset = sym_table[i].offset
                    /\ after(sym_table[i]).home = sym_table[i].home
               /\ IsFunc(sym_table[i]) =>
                    after(sym_table[i]).total_locals = sym_table[i].total_locals
    <2>1. CASE sym_table[i].scope = Scope
      <3>1. after(sym_table[i]) = [sym_table[i] EXCEPT !.visible = FALSE]
        BY <2>1
      <3>2. sym_table[i] \in Entries
        BY <1>1
      <3> HIDE DEF after
      <3> QED
        BY <2>1, <3>1, <3>2, HiddenEntry
    <2>2. CASE sym_table[i].scope # Scope
      <3>1. after(sym_table[i]) = sym_table[i]
        BY <2>2
      <3> HIDE DEF after
      <3> QED
        BY <1>1, <2>2, <3>1
    <2> QED
      BY <2>1, <2>2
  <1> HIDE DEF N, after, table
  <1>4. table \in Seq(Entries) /\ Len(table) = N /\ \A i \in 1 .. N : table[i] = after(sym_table[i])
    BY <1>1, <1>2, <1>3
  <1> QED
    BY <1>3, <1>4 DEF SameButHidden, N, table

(* What both ways of leaving a scope keep. *)
LEMMA LeavingKeeps ==
  ASSUME IInv, open # << >>, open' = Front(open), found' = 0,
         scp_handler'.scope = Scope - 1,
         sym_table' \in Seq(Entries), SameButHidden(sym_table'),
         outcome' = outcome
  PROVE  /\ OneVisibleEntry' /\ SpacesFit' /\ VisibleAtHome' /\ PlacesDistinct'
         /\ OperandsInScope' /\ TableGrows'
         /\ open' \in Seq({0} \cup DOMAIN sym_table')
  <1> USE DEF IInv
  <1> DEFINE N == Len(sym_table)
  <1>1. /\ N \in Nat /\ Scope \in Nat
        /\ DOMAIN sym_table = 1 .. N /\ DOMAIN sym_table' = 1 .. N /\ Len(sym_table') = N
        /\ Scope = Len(open)
        /\ open \in Seq({0} \cup 1 .. N)
    BY HandlerFields DEF Structure, HandlersInStep, SameButHidden
  <1>2. \A i \in 1 .. N :
          /\ sym_table'[i].scope = sym_table[i].scope
          /\ sym_table'[i].name = sym_table[i].name
          /\ sym_table'[i].type = sym_table[i].type
          /\ sym_table'[i].visible => sym_table[i].visible /\ sym_table[i].scope # Scope
          /\ ~IsFunc(sym_table[i]) => /\ sym_table'[i].ss = sym_table[i].ss
                                      /\ sym_table'[i].offset = sym_table[i].offset
                                      /\ sym_table'[i].home = sym_table[i].home
    BY DEF SameButHidden
  <1>3. \A i \in 1 .. N : IsFunc(sym_table'[i]) <=> IsFunc(sym_table[i])
    BY <1>2 DEF IsFunc
  <1>4. /\ open' \in Seq({0} \cup 1 .. N)
        /\ Len(open) \in Nat \ {0}
        /\ \A j \in 1 .. Len(open) - 1 : open'[j] = open[j]
    BY <1>1, FrontFields
  <1> HIDE DEF N
  <1>5. OneVisibleEntry'
    <2>1. \A i, j \in 1 .. N :
            /\ sym_table[i].visible /\ sym_table[j].visible
            /\ sym_table[i].name = sym_table[j].name
            /\ sym_table[i].scope = sym_table[j].scope
            => i = j
      BY <1>1, OnlyEntry DEF OneVisibleEntry
    <2>2. \A i, j \in 1 .. N :
            /\ sym_table'[i].visible /\ sym_table'[j].visible
            /\ sym_table'[i].name = sym_table'[j].name
            /\ sym_table'[i].scope = sym_table'[j].scope
            => i = j
      BY <1>2, <2>1
    <2>3. \A i \in 1 .. N : sym_table'[i].visible =>
            Lookup(sym_table', sym_table'[i].name, sym_table'[i].scope) = {i}
      BY <1>1, <2>2, OnlyEntry
    <2>4. Scope' = Scope - 1
      BY DEF Scope
    <2>5. \A i \in 1 .. N : sym_table[i].scope \in Nat /\ (sym_table[i].visible => sym_table[i].scope <= Scope)
      BY <1>1, EntryFields DEF OneVisibleEntry
    <2>6. \A i \in 1 .. N : sym_table'[i].visible => sym_table'[i].scope <= Scope'
      BY <1>1, <1>2, <2>4, <2>5
    <2>7. outcome' \notin {"runtime_error", "assertion"}
      BY DEF OneVisibleEntry
    <2> QED
      BY <1>1, <2>3, <2>6, <2>7 DEF OneVisibleEntry
  <1>6. SpacesFit'
    <2>1. \A i \in 1 .. N : ~IsFunc(sym_table[i]) =>
            /\ sym_table[i].ss = "PROGRAM_SS" <=> sym_table[i].home = 0
            /\ sym_table[i].home # 0 => /\ sym_table[i].home \in 1 .. N
                                        /\ IsFunc(sym_table[sym_table[i].home])
      BY <1>1 DEF Structure, SpacesFit, IsVar
    <2>2. \A i \in 1 .. N : ~IsFunc(sym_table'[i]) =>
            /\ sym_table'[i].ss = "PROGRAM_SS" <=> sym_table'[i].home = 0
            /\ sym_table'[i].home # 0 => /\ sym_table'[i].home \in 1 .. N
                                         /\ IsFunc(sym_table'[sym_table'[i].home])
      BY <1>2, <1>3, <2>1
    <2> QED
      BY <1>1, <2>2 DEF SpacesFit, IsVar
  <1>7. VisibleAtHome'
    <2>1. \A i \in 1 .. N : ~IsFunc(sym_table[i]) /\ sym_table[i].visible =>
            /\ sym_table[i].scope \in Nat
            /\ sym_table[i].scope <= Len(open)
            /\ HomeAt(sym_table[i].scope, sym_table[i].home)
      BY <1>1, EntryFields DEF OneVisibleEntry, Structure, VisibleAtHome, IsVar
    <2> DEFINE HomeNow(s, h) ==
                 \/ h = 0 /\ \A j \in 1 .. s : open'[j] = 0
                 \/ h # 0 /\ \E j \in 1 .. s : open'[j] = h /\ \A l \in j + 1 .. s : open'[l] = 0
    <2>2. ASSUME NEW s \in Nat, s <= Len(open) - 1, NEW h, HomeAt(s, h)
          PROVE  HomeNow(s, h)
      <3>1. \A j \in 1 .. s : j \in 1 .. Len(open) - 1 /\ open'[j] = open[j]
        BY <1>4, <2>2
      <3>2. CASE h = 0
        BY <2>2, <3>1, <3>2 DEF HomeAt
      <3>3. CASE h # 0
        <4>1. PICK j \in 1 .. s : open[j] = h /\ \A l \in j + 1 .. s : open[l] = 0
          BY <2>2, <3>3 DEF HomeAt
        <4>2. \A l \in j + 1 .. s : l \in 1 .. s
          BY <2>2
        <4>3. open'[j] = h /\ \A l \in j + 1 .. s : open'[l] = 0
          BY <3>1, <4>1, <4>2
        <4> QED
          BY <3>3, <4>3
      <3> QED
        BY <3>2, <3>3
    <2> HIDE DEF HomeNow
    <2>3. ASSUME NEW i \in 1 .. N, ~IsFunc(sym_table'[i]), sym_table'[i].visible
          PROVE  HomeNow(sym_table'[i].scope, sym_table'[i].home)
      <3>1. /\ sym_table[i].scope \in Nat /\ sym_table[i].scope <= Len(open)
            /\ sym_table[i].scope # Len(open)
            /\ HomeAt(sym_table[i].scope, sym_table[i].home)
        BY <1>1, <1>2, <1>3, <2>1, <2>3
      <3>2. HomeNow(sym_table[i].scope, sym_table[i].home)
        BY <1>4, <2>2, <3>1
      <3> QED
        BY <1>2, <1>3, <2>3, <3>2
    <2> QED
      BY <1>1, <2>3 DEF VisibleAtHome, IsVar, HomeAt, HomeNow
  <1>8. PlacesDistinct'
    <2>1. \A i, j \in 1 .. N :
            (i # j /\ ~IsFunc(sym_table[i]) /\ ~IsFunc(sym_table[j])
               /\ sym_table[i].home = sym_table[j].home /\ sym_table[i].ss = sym_table[j].ss)
              => sym_table[i].offset # sym_table[j].offset
      BY <1>1 DEF Structure, PlacesDistinct, IsVar
    <2>2. \A i, j \in 1 .. N :
            (i # j /\ ~IsFunc(sym_table'[i]) /\ ~IsFunc(sym_table'[j])
               /\ sym_table'[i].home = sym_table'[j].home /\ sym_table'[i].ss = sym_table'[j].ss)
              => sym_table'[i].offset # sym_table'[j].offset
      BY <1>2, <1>3, <2>1
    <2> QED
      BY <1>1, <2>2 DEF PlacesDistinct, IsVar
  <1>9. OperandsInScope' /\ TableGrows'
    BY <1>1 DEF OperandsInScope, Structure, TableGrows, N
  <1> QED
    BY <1>1, <1>4, <1>5, <1>6, <1>7, <1>8, <1>9

LEMMA BlockCloseKeeps ==
  ASSUME IInv, BlockClose
  PROVE  IInv'
  <1> USE DEF IInv
  <1> DEFINE N == Len(sym_table)
             depth == Len(func_handler)
             below == scp_handler.func_scope_stack
  <1>1. /\ open # << >> /\ Last(open) = 0
        /\ sym_table' = Hide(sym_table, Scope)
        /\ scp_handler' = [scp_handler EXCEPT !.scope = Scope - 1]
        /\ open' = Front(open)
        /\ found' = 0
        /\ UNCHANGED <<func_handler, outcome>>
    BY DEF BlockClose, LeaveBlock, DecreaseScope, Scope
  <1>2. /\ sym_table' \in Seq(Entries)
        /\ SameButHidden(sym_table')
        /\ \A i \in 1 .. N :
             IsFunc(sym_table[i]) => sym_table'[i].total_locals = sym_table[i].total_locals
    BY <1>1, HideFields
  <1>3. /\ N \in Nat /\ depth \in Nat /\ Scope \in Nat
        /\ DOMAIN sym_table = 1 .. N
        /\ DOMAIN func_handler = 1 .. depth
        /\ \A k \in 1 .. depth : func_handler[k] \in 1 .. N
        /\ Scope = Len(open)
        /\ open \in Seq({0} \cup 1 .. N)
    BY HandlerFields, SMTT(30) DEF Structure, HandlersInStep
  <1>4. /\ Len(open) \in Nat \ {0}
        /\ DOMAIN open = 1 .. Len(open)
        /\ DOMAIN open' = 1 .. Len(open) - 1
        /\ Len(open') = Len(open) - 1
        /\ \A j \in 1 .. Len(open) - 1 : open'[j] = open[j]
        /\ open[Len(open)] = 0
    BY <1>1, <1>3, FrontFields
  <1>5. /\ scp_handler' \in Handlers
        /\ scp_handler'.scope = Scope - 1
        /\ scp_handler'.ss_stack = scp_handler.ss_stack
        /\ scp_handler'.ss_offset_stack = scp_handler.ss_offset_stack
        /\ scp_handler'.func_scope_stack = below
    <2>1. scp_handler \in Handlers /\ Scope - 1 \in Nat
      BY <1>3, <1>4 DEF TypeOK, Handlers
    <2> QED
      BY <1>1, <2>1, ScopeFields
  <1>6. /\ OneVisibleEntry' /\ SpacesFit' /\ VisibleAtHome' /\ PlacesDistinct'
        /\ OperandsInScope' /\ TableGrows'
        /\ open' \in Seq({0} \cup DOMAIN sym_table')
    BY <1>1, <1>2, <1>5, LeavingKeeps
  <1>7. DOMAIN sym_table' = 1 .. N
    BY <1>2, <1>3 DEF SameButHidden
  <1>8. \A i \in 1 .. N : /\ IsFunc(sym_table'[i]) <=> IsFunc(sym_table[i])
                          /\ ~IsFunc(sym_table[i]) => /\ sym_table'[i].ss = sym_table[i].ss
                                                      /\ sym_table'[i].offset = sym_table[i].offset
                                                      /\ sym_table'[i].home = sym_table[i].home
    BY <1>2 DEF SameButHidden, IsFunc
  <1>9. TypeOK'
    BY <1>1, <1>2, <1>3, <1>5, <1>6, <1>7 DEF TypeOK, Handlers
  <1>10. FunctionsNested'
    BY <1>1, <1>3, <1>8 DEF FunctionsNested, Structure
  <1>11. HandlersInStep'
    <2>1. HandlersInStep /\ TypeOK
      BY DEF Structure
    <2>2. /\ \A j, k \in 1 .. depth : j < k => below[j] < below[k]
          /\ \A k \in 1 .. depth : /\ below[k] + 1 \in 1 .. Len(open)
                                  /\ open[below[k] + 1] = func_handler[k]
                                  /\ open[below[k] + 1] # 0
      BY <2>1, InStep
    <2>3. Scope' = Len(open')
      BY <1>3, <1>4, <1>5 DEF Scope
    <2>4. scp_handler'.ss_stack = [k \in 1 .. Len(func_handler') + 1 |->
                                     IF k = 1 THEN "PROGRAM_SS" ELSE "FUNCTION_LOCALS_SS"]
      BY <1>1, <1>5, <2>1 DEF HandlersInStep
    <2>5. /\ Len(scp_handler'.ss_offset_stack) = Len(func_handler') + 1
          /\ Len(scp_handler'.func_scope_stack) = Len(func_handler')
      BY <1>1, <1>5, <2>1 DEF HandlersInStep
    <2>6. FunctionsIn(open') = FunctionsIn(open)
      BY <1>4 DEF FunctionsIn
    <2>7. FunctionsIn(open) = {below[k] + 1 : k \in 1 .. depth}
      BY <2>1 DEF HandlersInStep
    <2>8. \A k \in 1 .. depth : open'[below[k] + 1] = func_handler[k]
      BY <1>4, <2>2
    <2>9. \A j, k \in 1 .. Len(func_handler') :
            j < k => scp_handler'.func_scope_stack[j] < scp_handler'.func_scope_stack[k]
      BY <1>1, <1>5, <2>2
    <2>10. FunctionsIn(open') = {scp_handler'.func_scope_stack[k] + 1 : k \in 1 .. Len(func_handler')}
      BY <1>1, <1>5, <2>6, <2>7
    <2>11. \A k \in 1 .. Len(func_handler') :
             open'[scp_handler'.func_scope_stack[k] + 1] = func_handler'[k]
      BY <1>1, <1>5, <2>8
    <2> QED
      BY <2>3, <2>4, <2>5, <2>9, <2>10, <2>11 DEF HandlersInStep
  <1>12. EnoughLocals'
    <2> DEFINE off == scp_handler.ss_offset_stack
               Total(h) == TotalIn(sym_table, func_handler, off, h)
               NewTotal(h) == TotalIn(sym_table', func_handler', scp_handler'.ss_offset_stack, h)
    <2>1. ASSUME NEW h \in 1 .. N, IsFunc(sym_table[h])
          PROVE  NewTotal(h) = Total(h)
      BY <1>1, <1>2, <1>5, <2>1 DEF TotalIn
    <2> HIDE DEF Total, NewTotal
    <2>2. \A i \in 1 .. N : ~IsFunc(sym_table[i]) =>
            /\ sym_table[i].ss = "FUNCTION_LOCALS_SS" =>
                 /\ sym_table[i].home \in 1 .. N
                 /\ IsFunc(sym_table[sym_table[i].home])
                 /\ sym_table[i].offset < Total(sym_table[i].home)
            /\ sym_table[i].ss = "PROGRAM_SS" => sym_table[i].offset < Head(off)
      BY <1>3, EnoughInTotal DEF Structure, SpacesFit, IsVar, Total
    <2>3. \A i \in 1 .. N : ~IsFunc(sym_table'[i]) =>
            /\ sym_table'[i].ss = "FUNCTION_LOCALS_SS"
                 => sym_table'[i].offset < NewTotal(sym_table'[i].home)
            /\ sym_table'[i].ss = "PROGRAM_SS"
                 => sym_table'[i].offset < Head(scp_handler'.ss_offset_stack)
      BY <1>5, <1>8, <2>1, <2>2
    <2> QED
      BY <1>7, <2>3 DEF EnoughLocals, TotalLocals, TotalIn, IsVar, NewTotal
  <1> QED
    BY <1>6, <1>9, <1>10, <1>11, <1>12 DEF Structure

(* The number of a function's locals is set. *)
LEMMA TotalSet ==
  ASSUME NEW e \in Entries, IsFunc(e), NEW total \in Nat
  PROVE  LET d == [e EXCEPT !.total_locals = total]
         IN  /\ d \in Entries
             /\ d.scope = e.scope /\ d.name = e.name /\ d.type = e.type
             /\ d.visible = e.visible /\ d.total_locals = total
  <1> DEFINE d == [e EXCEPT !.total_locals = total]
  <1>1. e \in FuncEntries
    BY EntryKinds
  <1>2. /\ d \in FuncEntries
        /\ d.scope = e.scope /\ d.name = e.name /\ d.type = e.type
        /\ d.visible = e.visible /\ d.total_locals = total
    BY <1>1 DEF FuncEntries
  <1> HIDE DEF d
  <1>3. d \in Entries
    BY <1>2 DEF FuncEntries, Entries
  <1> QED
    BY <1>2, <1>3 DEF d

(* The innermost open body is that of the innermost open function.         *)
LEMMA LastIsFunction ==
  ASSUME TypeOK, HandlersInStep, open # << >>, Last(open) # 0
  PROVE  LET depth == Len(func_handler)
         IN  /\ depth \in Nat \ {0}
             /\ Last(open) = func_handler[depth]
             /\ Len(open) = scp_handler.func_scope_stack[depth] + 1
  <1> DEFINE depth == Len(func_handler)
             below == scp_handler.func_scope_stack
  <1>1. /\ below \in [1 .. depth -> Nat]
        /\ \A j, k \in 1 .. depth : j < k => below[j] < below[k]
        /\ \A k \in 1 .. depth : /\ below[k] + 1 \in 1 .. Len(open)
                                /\ open[below[k] + 1] = func_handler[k]
        /\ \A j \in 1 .. Len(open) : open[j] # 0 => \E k \in 1 .. depth : j = below[k] + 1
    BY InStep
  <1>2. Len(open) \in Nat \ {0} /\ Last(open) = open[Len(open)] /\ depth \in Nat
    <2>1. open \in Seq({0} \cup DOMAIN sym_table)
      BY HandlerFields
    <2> QED
      BY <2>1, FrontFields, HandlerFields
  <1>3. PICK k \in 1 .. depth : Len(open) = below[k] + 1
    BY <1>1, <1>2
  <1>4. k = depth
    <2>1. SUFFICES ASSUME k < depth PROVE FALSE
      BY <1>2
    <2>2. depth \in 1 .. depth /\ below[k] < below[depth] /\ below[depth] + 1 <= Len(open)
      BY <1>1, <1>2, <2>1
    <2>3. below[k] \in Nat /\ below[depth] \in Nat
      BY <1>1, <2>2
    <2> QED
      BY <1>3, <2>2, <2>3
  <1> QED
    BY <1>1, <1>2, <1>3, <1>4

LEMMA FuncCloseFields ==
  ASSUME IInv, FuncClose
  PROVE  LET N     == Len(sym_table)
             depth == Len(func_handler)
         IN  /\ open # << >>
             /\ depth \in Nat \ {0}
             /\ Last(open) = func_handler[depth]
             /\ Len(open) = scp_handler.func_scope_stack[depth] + 1
             /\ sym_table' \in Seq(Entries)
             /\ SameButHidden(sym_table')
             /\ sym_table'[func_handler[depth]].total_locals = scp_handler.ss_offset_stack[depth + 1]
             /\ \A i \in 1 .. N : IsFunc(sym_table[i]) /\ i # func_handler[depth]
                                    => sym_table'[i].total_locals = sym_table[i].total_locals
             /\ scp_handler' \in Handlers
             /\ scp_handler'.scope = Scope - 1
             /\ scp_handler'.ss_stack = Front(scp_handler.ss_stack)
             /\ scp_handler'.ss_offset_stack = Front(scp_handler.ss_offset_stack)
             /\ scp_handler'.func_scope_stack = Front(scp_handler.func_scope_stack)
             /\ func_handler' = Front(func_handler)
             /\ open' = Front(open)
             /\ found' = 0
             /\ UNCHANGED outcome
  <1> USE DEF IInv
  <1> DEFINE N     == Len(sym_table)
             depth == Len(func_handler)
             table == Hide(sym_table, Scope)
             lower == DecreaseScope(scp_handler)
             f     == Last(open)
             total == scp_handler.ss_offset_stack[depth + 1]
  <1>1. /\ open # << >> /\ f # 0
        /\ sym_table' = [table EXCEPT ![f].total_locals = NextOffset(lower)]
        /\ scp_handler' = ExitFunctionSS(lower)
        /\ func_handler' = Front(func_handler)
        /\ open' = Front(open)
        /\ found' = 0
        /\ UNCHANGED outcome
    BY DEF FuncClose, LeaveBlock, Scope
  <1>2. /\ depth \in Nat \ {0}
        /\ f = func_handler[depth]
        /\ Len(open) = scp_handler.func_scope_stack[depth] + 1
    BY <1>1, LastIsFunction DEF Structure
  <1>3. /\ N \in Nat /\ Scope \in Nat
        /\ DOMAIN sym_table = 1 .. N
        /\ f \in 1 .. N /\ IsFunc(sym_table[f])
        /\ Scope = Len(open)
    <2>1. depth \in DOMAIN func_handler
      BY <1>2, HandlerFields
    <2>2. func_handler[depth] \in DOMAIN sym_table /\ IsFunc(sym_table[func_handler[depth]])
      BY <2>1, HandlerFields DEF Structure, FunctionsNested
    <2>3. N \in Nat /\ Scope \in Nat /\ DOMAIN sym_table = 1 .. N /\ Scope = Len(open)
      BY HandlerFields DEF Structure, HandlersInStep
    <2> HIDE DEF f, depth
    <2> QED
      BY <1>2, <2>2, <2>3
  <1>4. scp_handler \in Handlers /\ Scope - 1 \in Nat
    <2>1. open \in Seq({0} \cup DOMAIN sym_table)
      BY HandlerFields
    <2> QED
      BY <1>1, <1>3, <2>1, FrontFields DEF TypeOK, Handlers
  <1>5. lower = [scp_handler EXCEPT !.scope = Scope - 1]
    BY DEF DecreaseScope, Scope
  <1> HIDE DEF lower
  <1>6. /\ lower \in Handlers
        /\ lower.scope = Scope - 1
        /\ lower.ss_stack = scp_handler.ss_stack
        /\ lower.ss_offset_stack = scp_handler.ss_offset_stack
        /\ lower.func_scope_stack = scp_handler.func_scope_stack
    BY <1>4, <1>5, ScopeFields
  <1>7. NextOffset(lower) = total /\ total \in Nat
    BY <1>6, Here DEF NextOffset, Structure
  <1>8. /\ scp_handler.ss_stack \in Seq(ScopeSpaces) /\ scp_handler.ss_stack # << >>
        /\ scp_handler.ss_offset_stack \in Seq(Nat) /\ scp_handler.ss_offset_stack # << >>
        /\ scp_handler.func_scope_stack \in Seq(Nat) /\ scp_handler.func_scope_stack # << >>
    <2>1. /\ Len(scp_handler.ss_stack) = depth + 1
          /\ Len(scp_handler.ss_offset_stack) = depth + 1
          /\ Len(scp_handler.func_scope_stack) = depth
      BY <1>2 DEF Structure, HandlersInStep
    <2>2. depth + 1 # 0 /\ depth # 0 /\ Len(<< >>) = 0
      BY <1>2
    <2> HIDE DEF depth
    <2> QED
      BY <2>1, <2>2, HandlerFields
  <1> DEFINE left == LeaveSS(lower)
  <1>9. /\ left \in Handlers
        /\ left.scope = Scope - 1
        /\ left.ss_stack = Front(scp_handler.ss_stack)
        /\ left.ss_offset_stack = Front(scp_handler.ss_offset_stack)
        /\ left.func_scope_stack = scp_handler.func_scope_stack
    BY <1>6, <1>8, LeaveSSFields
  <1>10. scp_handler' = [left EXCEPT !.func_scope_stack = Front(scp_handler.func_scope_stack)]
    <2>1. scp_handler' = [left EXCEPT !.func_scope_stack = Front(left.func_scope_stack)]
      BY <1>1 DEF ExitFunctionSS
    <2> HIDE DEF left
    <2> QED
      BY <1>9, <2>1
  <1> HIDE DEF left
  <1>11. Front(scp_handler.func_scope_stack) \in Seq(Nat)
    BY <1>8, FrontFields
  <1>12. /\ scp_handler' \in Handlers
         /\ scp_handler'.scope = Scope - 1
         /\ scp_handler'.ss_stack = Front(scp_handler.ss_stack)
         /\ scp_handler'.ss_offset_stack = Front(scp_handler.ss_offset_stack)
         /\ scp_handler'.func_scope_stack = Front(scp_handler.func_scope_stack)
    BY <1>9, <1>10, <1>11, FunctionScopeFields
  <1>13. /\ table \in Seq(Entries)
         /\ SameButHidden(table)
         /\ \A i \in 1 .. N : IsFunc(sym_table[i]) => table[i].total_locals = sym_table[i].total_locals
    BY HideFields
  <1> HIDE DEF table, total, f
  <1>14. Len(table) = N /\ DOMAIN table = 1 .. N /\ table[f] \in Entries /\ IsFunc(table[f])
    <2>1. Len(table) = N /\ table[f].type = sym_table[f].type
      BY <1>3, <1>13 DEF SameButHidden
    <2>2. IsFunc(table[f])
      BY <1>3, <2>1 DEF IsFunc
    <2> HIDE DEF N
    <2> QED
      BY <1>3, <1>13, <2>1, <2>2
  <1> DEFINE e == [table[f] EXCEPT !.total_locals = total]
  <1>15. /\ e \in Entries
         /\ e.scope = table[f].scope /\ e.name = table[f].name /\ e.type = table[f].type
         /\ e.visible = table[f].visible /\ e.total_locals = total
    BY <1>7, <1>14, TotalSet
  <1>16. sym_table' = [table EXCEPT ![f] = e]
    BY <1>1, <1>7
  <1> HIDE DEF e
  <1>17. /\ sym_table' \in Seq(Entries)
         /\ Len(sym_table') = N
         /\ sym_table'[f] = e
         /\ \A i \in 1 .. N : i # f => sym_table'[i] = table[i]
    <2> HIDE DEF N
    <2> QED
      BY <1>3, <1>13, <1>14, <1>15, <1>16, ExceptSeq
  <1>18. SameButHidden(sym_table')
    BY <1>3, <1>13, <1>15, <1>17 DEF SameButHidden
  <1>19. /\ sym_table'[f].total_locals = total
         /\ \A i \in 1 .. N : IsFunc(sym_table[i]) /\ i # f
                                => sym_table'[i].total_locals = sym_table[i].total_locals
    BY <1>13, <1>15, <1>17
  <1> QED
    BY <1>1, <1>2, <1>12, <1>17, <1>18, <1>19 DEF f, total

LEMMA FuncCloseKeeps ==
  ASSUME IInv, FuncClose
  PROVE  IInv'
  <1> USE DEF IInv
  <1> DEFINE N     == Len(sym_table)
             depth == Len(func_handler)
             below == scp_handler.func_scope_stack
             off   == scp_handler.ss_offset_stack
             f     == func_handler[depth]
  <1>1. /\ open # << >>
        /\ depth \in Nat \ {0}
        /\ Last(open) = f
        /\ Len(open) = below[depth] + 1
        /\ sym_table' \in Seq(Entries)
        /\ SameButHidden(sym_table')
        /\ sym_table'[f].total_locals = off[depth + 1]
        /\ \A i \in 1 .. N : IsFunc(sym_table[i]) /\ i # f
                               => sym_table'[i].total_locals = sym_table[i].total_locals
        /\ scp_handler' \in Handlers
        /\ scp_handler'.scope = Scope - 1
        /\ scp_handler'.ss_stack = Front(scp_handler.ss_stack)
        /\ scp_handler'.ss_offset_stack = Front(off)
        /\ scp_handler'.func_scope_stack = Front(below)
        /\ func_handler' = Front(func_handler)
        /\ open' = Front(open)
        /\ found' = 0
        /\ UNCHANGED outcome
    BY FuncCloseFields
  <1>2. /\ N \in Nat /\ Scope \in Nat
        /\ DOMAIN sym_table = 1 .. N
        /\ DOMAIN func_handler = 1 .. depth
        /\ func_handler \in Seq(1 .. N)
        /\ Scope = Len(open)
        /\ open \in Seq({0} \cup 1 .. N)
    BY HandlerFields DEF Structure, HandlersInStep
  <1>3. /\ Len(open) \in Nat \ {0}
        /\ DOMAIN open = 1 .. Len(open)
        /\ DOMAIN open' = 1 .. Len(open) - 1
        /\ Len(open') = Len(open) - 1
        /\ \A j \in 1 .. Len(open) - 1 : open'[j] = open[j]
    <2>1. open # << >> /\ open' = Front(open) /\ open \in Seq({0} \cup 1 .. N)
      BY <1>1, <1>2
    <2> HIDE DEF N
    <2>2. DOMAIN open = 1 .. Len(open)
      BY <2>1
    <2> QED
      BY <2>1, <2>2, FrontFields
  <1>4. /\ func_handler' \in Seq(1 .. N)
        /\ Len(func_handler') = depth - 1
        /\ DOMAIN func_handler' = 1 .. depth - 1
        /\ \A k \in 1 .. depth - 1 : func_handler'[k] = func_handler[k]
        /\ \A k \in 1 .. depth : func_handler[k] \in 1 .. N
    <2>1. func_handler # << >>
      <3>1. Len(func_handler) # 0 /\ Len(<< >>) = 0
        BY <1>1
      <3> QED
        BY <3>1
    <2>2. \A k \in 1 .. depth : func_handler[k] \in 1 .. N
      BY <1>2
    <2> QED
      BY <1>1, <1>2, <2>1, <2>2, FrontFields
  <1>5. /\ OneVisibleEntry' /\ SpacesFit' /\ VisibleAtHome' /\ PlacesDistinct'
        /\ OperandsInScope' /\ TableGrows'
        /\ open' \in Seq({0} \cup DOMAIN sym_table')
    BY <1>1, LeavingKeeps
  <1>6. DOMAIN sym_table' = 1 .. N
    BY <1>1, <1>2 DEF SameButHidden
  <1>7. \A i \in 1 .. N : /\ IsFunc(sym_table'[i]) <=> IsFunc(sym_table[i])
                          /\ ~IsFunc(sym_table[i]) => /\ sym_table'[i].ss = sym_table[i].ss
                                                      /\ sym_table'[i].offset = sym_table[i].offset
                                                      /\ sym_table'[i].home = sym_table[i].home
    BY <1>1 DEF SameButHidden, IsFunc
  <1>8. TypeOK'
    BY <1>1, <1>4, <1>5, <1>6 DEF TypeOK, Handlers
  <1> HIDE DEF N, depth, below, off, f
  <1>9. \A k \in 1 .. depth - 1 : k \in 1 .. depth /\ k # depth
    BY <1>1
  <1>10. FunctionsNested'
    <2>1. /\ \A j, k \in 1 .. depth : j < k => func_handler[j] < func_handler[k]
          /\ \A k \in 1 .. depth : IsFunc(sym_table[func_handler[k]])
      BY <1>2 DEF Structure, FunctionsNested
    <2>2. \A j, k \in 1 .. depth - 1 : j < k => func_handler'[j] < func_handler'[k]
      BY <1>4, <1>9, <2>1
    <2>3. \A k \in 1 .. depth - 1 : IsFunc(sym_table'[func_handler'[k]])
      BY <1>4, <1>7, <1>9, <2>1
    <2> QED
      BY <1>4, <2>2, <2>3 DEF FunctionsNested
  <1>11. HandlersInStep /\ TypeOK
    BY DEF Structure
  <1>12. /\ scp_handler'.ss_offset_stack \in [1 .. depth -> Nat]
         /\ Len(scp_handler'.ss_offset_stack) = depth
         /\ \A k \in 1 .. depth : scp_handler'.ss_offset_stack[k] = off[k]
         /\ Head(scp_handler'.ss_offset_stack) = Head(off)
    <2>1. off \in Seq(Nat) /\ Len(off) = depth + 1 /\ off # << >>
      <3>1. off \in Seq(Nat) /\ Len(off) = depth + 1
        BY Here, HandlerFields DEF Structure, off, depth
      <3>2. depth + 1 # 0 /\ Len(<< >>) = 0
        BY <1>1
      <3> QED
        BY <3>1, <3>2
    <2> DEFINE shorter == Front(off)
    <2>2. /\ shorter \in Seq(Nat) /\ Len(shorter) = Len(off) - 1
          /\ \A k \in 1 .. Len(off) - 1 : shorter[k] = off[k]
      BY <2>1, FrontFields
    <2>3. Len(off) - 1 = depth
      BY <1>1, <2>1
    <2> HIDE DEF shorter
    <2>4. /\ shorter \in Seq(Nat) /\ Len(shorter) = depth
          /\ \A k \in 1 .. depth : shorter[k] = off[k]
      BY <2>2, <2>3
    <2>5. Head(shorter) = shorter[1] /\ Head(off) = off[1] /\ 1 \in 1 .. depth
      BY <1>1, <2>1, <2>4
    <2>6. scp_handler'.ss_offset_stack = shorter
      BY <1>1 DEF shorter
    <2> QED
      BY <1>1, <2>4, <2>5, <2>6
  <1>13. EnoughLocals'
    <2> DEFINE Total(h) == TotalIn(sym_table, func_handler, off, h)
               NewTotal(h) == TotalIn(sym_table', func_handler', scp_handler'.ss_offset_stack, h)
    <2>1. \A j, k \in 1 .. depth : func_handler[j] = func_handler[k] => j = k
      BY <1>2, FunctionsDiffer DEF Structure
    <2>2. ASSUME NEW k \in 1 .. depth
          PROVE  Total(func_handler[k]) = off[1 + k]
      <3>1. k \in DOMAIN func_handler
        BY <1>2
      <3>2. \A j \in DOMAIN func_handler : func_handler[j] = func_handler[k] => j = k
        BY <1>2, <2>1
      <3> QED
        BY <3>1, <3>2, OpenTotals
    <2>3. ASSUME NEW k \in 1 .. depth
          PROVE  NewTotal(func_handler[k]) = off[1 + k]
      <3>1. CASE k = depth
        <4>1. func_handler[k] = f
          BY <3>1 DEF f
        <4>2. ~\E j \in DOMAIN func_handler' : func_handler'[j] = f
          BY <1>1, <1>4, <1>9, <2>1 DEF f
        <4>3. NewTotal(f) = sym_table'[f].total_locals
          BY <4>2 DEF TotalIn
        <4>4. 1 + k = depth + 1
          BY <1>1, <3>1
        <4> QED
          BY <1>1, <4>1, <4>3, <4>4
      <3>2. CASE k # depth
        <4>1. k \in 1 .. depth - 1 /\ 1 + k \in 1 .. depth
          BY <1>1, <3>2
        <4>2. k \in DOMAIN func_handler' /\ func_handler'[k] = func_handler[k]
          BY <1>4, <4>1
        <4>3. \A j \in DOMAIN func_handler' : func_handler'[j] = func_handler'[k] => j = k
          BY <1>4, <1>9, <2>1, <4>2
        <4>4. NewTotal(func_handler'[k]) = scp_handler'.ss_offset_stack[1 + k]
          BY <4>2, <4>3, OpenTotals
        <4> QED
          BY <1>12, <4>1, <4>2, <4>4
      <3> QED
        BY <3>1, <3>2
    <2>4. ASSUME NEW h \in 1 .. N, IsFunc(sym_table[h])
          PROVE  NewTotal(h) = Total(h)
      <3>1. CASE \E k \in 1 .. depth : func_handler[k] = h
        BY <2>2, <2>3, <3>1
      <3>2. CASE ~\E k \in 1 .. depth : func_handler[k] = h
        <4>1. /\ ~\E k \in DOMAIN func_handler : func_handler[k] = h
              /\ ~\E k \in DOMAIN func_handler' : func_handler'[k] = h
              /\ h # f
          BY <1>1, <1>2, <1>4, <1>9, <3>2 DEF f
        <4>2. NewTotal(h) = sym_table'[h].total_locals /\ Total(h) = sym_table[h].total_locals
          BY <4>1 DEF TotalIn
        <4> QED
          BY <1>1, <2>4, <4>1, <4>2 DEF N
      <3> QED
        BY <3>1, <3>2
    <2> HIDE DEF Total, NewTotal
    <2>5. \A i \in 1 .. N : ~IsFunc(sym_table[i]) =>
            /\ sym_table[i].ss = "FUNCTION_LOCALS_SS" =>
                 /\ sym_table[i].home \in 1 .. N
                 /\ IsFunc(sym_table[sym_table[i].home])
                 /\ sym_table[i].offset < Total(sym_table[i].home)
            /\ sym_table[i].ss = "PROGRAM_SS" => sym_table[i].offset < Head(off)
      BY <1>2, EnoughInTotal DEF Structure, SpacesFit, IsVar, Total, off
    <2>6. \A i \in 1 .. N : ~IsFunc(sym_table'[i]) =>
            /\ sym_table'[i].ss = "FUNCTION_LOCALS_SS"
                 => sym_table'[i].offset < NewTotal(sym_table'[i].home)
            /\ sym_table'[i].ss = "PROGRAM_SS"
                 => sym_table'[i].offset < Head(scp_handler'.ss_offset_stack)
      BY <1>7, <1>12, <2>4, <2>5
    <2> QED
      BY <1>6, <2>6 DEF EnoughLocals, TotalLocals, TotalIn, IsVar, NewTotal
  <1>14. HandlersInStep'
    <2> DEFINE nb == scp_handler'.func_scope_stack
    <2>1. /\ below \in Seq(Nat) /\ Len(below) = depth
          /\ \A j, k \in 1 .. depth : j < k => below[j] < below[k]
          /\ \A k \in 1 .. depth : /\ below[k] + 1 \in 1 .. Len(open)
                                  /\ open[below[k] + 1] = func_handler[k]
                                  /\ open[below[k] + 1] # 0
          /\ \A j \in 1 .. Len(open) : open[j] # 0 => \E k \in 1 .. depth : j = below[k] + 1
      BY <1>11, InStep, HandlerFields DEF HandlersInStep, below, depth
    <2>2. /\ Len(nb) = depth - 1
          /\ \A k \in 1 .. depth - 1 : nb[k] = below[k]
      <3>1. below # << >>
        <4>1. Len(<< >>) = 0
          OBVIOUS
        <4> QED
          BY <1>1, <2>1, <4>1
      <3>2. nb = Front(below)
        BY <1>1 DEF below
      <3> HIDE DEF nb
      <3> QED
        BY <2>1, <3>1, <3>2, FrontFields
    <2> HIDE DEF nb
    <2>3. Scope' = Len(open')
      BY <1>1, <1>2, <1>3 DEF Scope
    <2>4. scp_handler'.ss_stack = [k \in 1 .. Len(func_handler') + 1 |->
                                     IF k = 1 THEN "PROGRAM_SS" ELSE "FUNCTION_LOCALS_SS"]
      <3> DEFINE spaces(d) == [k \in 1 .. d |-> IF k = 1 THEN "PROGRAM_SS" ELSE "FUNCTION_LOCALS_SS"]
                 shorter == Front(scp_handler.ss_stack)
      <3>1. scp_handler.ss_stack = spaces(depth + 1)
        BY <1>11 DEF HandlersInStep, depth
      <3>2. /\ spaces(depth + 1) \in Seq(ScopeSpaces) /\ Len(spaces(depth + 1)) = depth + 1
            /\ spaces(depth) \in Seq(ScopeSpaces) /\ Len(spaces(depth)) = depth
            /\ \A k \in 1 .. depth : spaces(depth + 1)[k] = spaces(depth)[k]
        BY <1>1 DEF ScopeSpaces
      <3>3. scp_handler.ss_stack # << >>
        <4>1. Len(<< >>) = 0 /\ depth + 1 # 0
          BY <1>1
        <4> HIDE DEF spaces
        <4> QED
          BY <3>1, <3>2, <4>1
      <3>4. depth + 1 - 1 = depth /\ Len(func_handler') + 1 = depth
        BY <1>1, <1>4
      <3> HIDE DEF spaces
      <3>5. /\ shorter \in Seq(ScopeSpaces) /\ Len(shorter) = depth
            /\ \A k \in 1 .. depth : shorter[k] = spaces(depth + 1)[k]
        BY <3>1, <3>2, <3>3, <3>4, FrontFields
      <3> HIDE DEF shorter
      <3>6. shorter = spaces(depth)
        BY <3>2, <3>5, SeqEqual
      <3>7. scp_handler'.ss_stack = spaces(Len(func_handler') + 1)
        BY <1>1, <3>4, <3>6 DEF shorter
      <3> QED
        BY <3>7 DEF spaces
    <2>5. /\ Len(scp_handler'.ss_offset_stack) = Len(func_handler') + 1
          /\ Len(nb) = Len(func_handler')
      BY <1>1, <1>4, <1>12, <2>2
    <2>6. \A j, k \in 1 .. depth - 1 : j < k => nb[j] < nb[k]
      BY <1>9, <2>1, <2>2
    <2>7. \A k \in 1 .. depth - 1 : nb[k] + 1 \in 1 .. Len(open) - 1
      <3> SUFFICES ASSUME NEW k \in 1 .. depth - 1
                   PROVE  nb[k] + 1 \in 1 .. Len(open) - 1
        OBVIOUS
      <3>1. k \in 1 .. depth /\ depth \in 1 .. depth /\ k < depth
        BY <1>1
      <3>2. below[k] < below[depth] /\ below[k] \in Nat /\ below[depth] \in Nat
        BY <2>1, <3>1
      <3> QED
        BY <1>1, <1>3, <2>2, <3>2
    <2>8. FunctionsIn(open') = {nb[k] + 1 : k \in 1 .. depth - 1}
      <3>1. ASSUME NEW i \in 1 .. Len(open) - 1, open'[i] # 0
            PROVE  \E k \in 1 .. depth - 1 : i = nb[k] + 1
        <4>1. i \in 1 .. Len(open) /\ i # Len(open) /\ open[i] # 0
          <5>1. i \in 1 .. Len(open) /\ i # Len(open)
            BY <1>3
          <5> QED
            BY <1>3, <3>1, <5>1
        <4>2. PICK k \in 1 .. depth : i = below[k] + 1
          BY <2>1, <4>1
        <4>3. k \in 1 .. depth - 1
          BY <1>1, <4>1, <4>2
        <4> QED
          BY <2>2, <4>2, <4>3
      <3>2. \A k \in 1 .. depth - 1 : nb[k] + 1 \in 1 .. Len(open) - 1 /\ open'[nb[k] + 1] # 0
        BY <1>3, <1>9, <2>1, <2>2, <2>7
      <3> QED
        BY <1>3, <3>1, <3>2 DEF FunctionsIn
    <2>9. \A k \in 1 .. depth - 1 : open'[nb[k] + 1] = func_handler'[k]
      BY <1>3, <1>4, <1>9, <2>1, <2>2, <2>7
    <2> QED
      BY <1>4, <2>3, <2>4, <2>5, <2>6, <2>8, <2>9 DEF HandlersInStep, nb
  <1> QED
    BY <1>5, <1>8, <1>10, <1>13, <1>14 DEF Structure

-----------------------------------------------------------------------------
(* The handlers. *)
LEMMA LookupIsEntry ==
  ASSUME IInv, NEW name, NEW s, NEW i \in Lookup(sym_table, name, s)
  PROVE  /\ i \in DOMAIN sym_table
         /\ sym_table[i].visible
         /\ sym_table[i].name = name
         /\ sym_table[i].scope = s
         /\ Lookup(sym_table, name, s) = {i}
  <1>1. /\ i \in DOMAIN sym_table
        /\ sym_table[i].visible /\ sym_table[i].name = name /\ sym_table[i].scope = s
    BY DEF Lookup
  <1>2. Lookup(sym_table, sym_table[i].name, sym_table[i].scope) = {i}
    BY <1>1 DEF IInv, OneVisibleEntry
  <1> QED
    BY <1>1, <1>2

LEMMA ReferToEntry ==
  ASSUME IInv, NEW i \in DOMAIN sym_table, Refer(i),
         \/ IsFunc(sym_table[i])
         \/ sym_table[i].ss = "PROGRAM_SS"
         \/ sym_table[i].home = Home /\ Home # 0
  PROVE  IInv'
  <1>1. /\ UNCHANGED <<sym_table, scp_handler, func_handler, open>>
        /\ found' = i /\ outcome' = outcome
    BY DEF Refer
  <1>2. outcome' \in {"parsing", "compiled", "syntax_error"}
    BY <1>1 DEF IInv, TypeOK, OneVisibleEntry
  <1>3. OperandsInScope'
    BY <1>1 DEF OperandsInScope, Home
  <1> QED
    BY <1>1, <1>2, <1>3, ReferKeeps

(* The assertions that an entry is the only one never fail.                *)
LEMMA ReferToOnlyKeeps ==
  ASSUME IInv, NEW name, NEW s, Lookup(sym_table, name, s) # {},
         s = Scope \/ s = GLOBAL_SCOPE,
         ReferToOnly(Lookup(sym_table, name, s))
  PROVE  IInv'
  <1>1. PICK i \in Lookup(sym_table, name, s) : TRUE
    OBVIOUS
  <1>2. /\ i \in DOMAIN sym_table
        /\ sym_table[i].visible
        /\ sym_table[i].scope = s
        /\ Lookup(sym_table, name, s) = {i}
    BY <1>1, LookupIsEntry
  <1>3. Cardinality({i}) = 1
    BY FS_Singleton
  <1>4. Max({i}) = i
    <2>1. i \in Nat /\ {i} \subseteq 0 .. i /\ {i} # {}
      BY <1>2, HandlerFields DEF IInv
    <2> QED
      BY <2>1, MaxOfBounded
  <1>5. Refer(i)
    BY <1>2, <1>3, <1>4 DEF ReferToOnly
  <1>6. \/ IsFunc(sym_table[i])
        \/ sym_table[i].ss = "PROGRAM_SS"
        \/ sym_table[i].home = Home /\ Home # 0
    <2>1. CASE s = Scope
      BY <1>2, <2>1, InnermostMayBeNamed
    <2>2. CASE s = GLOBAL_SCOPE
      BY <1>2, <2>2, MayBeNamed DEF Accessible
    <2> QED
      BY <2>1, <2>2
  <1> QED
    BY <1>2, <1>5, <1>6, ReferToEntry

LEMMA IdentifierKeeps ==
  ASSUME IInv, NEW id \in Ids, Identifier(id)
  PROVE  IInv'
  <1> DEFINE all_entries == RecursiveLookup(sym_table, id, Scope)
             scopes      == {sym_table[i].scope : i \in all_entries}
             key_scope   == Max(scopes)
             found_entry == Min(Lookup(sym_table, id, key_scope))
  <1>1. /\ Room(1)
        /\ IF all_entries = {} THEN NewVar(id)
           ELSE IF Accessible(sym_table[found_entry], key_scope, ActiveFunctionScope(scp_handler))
                THEN Refer(found_entry) ELSE Stop("syntax_error")
    BY DEF Identifier
  <1>2. Scope \in Nat
    BY HandlerFields DEF IInv
  <1>3. CASE all_entries = {}
    <2>1. Scope \in GLOBAL_SCOPE .. Scope
      BY <1>2 DEF GLOBAL_SCOPE
    <2>2. Lookup(sym_table, id, Scope) = {}
      BY <1>3, <2>1 DEF RecursiveLookup
    <2>3. id \in Names
      BY DEF Names
    <2> QED
      BY <1>1, <1>3, <2>2, <2>3, NewVarKeeps
  <1>4. CASE all_entries # {}
    <2>1. \A i \in all_entries : /\ i \in Lookup(sym_table, id, sym_table[i].scope)
                                 /\ sym_table[i].scope \in 0 .. Scope
      BY DEF RecursiveLookup, Lookup, GLOBAL_SCOPE
    <2>2. scopes \subseteq 0 .. Scope /\ scopes # {}
      BY <1>4, <2>1
    <2> HIDE DEF all_entries
    <2>3. key_scope \in scopes
      <3> HIDE DEF scopes
      <3> QED
        BY <1>2, <2>2, MaxOfBounded
    <2>4. Lookup(sym_table, id, key_scope) # {}
      BY <2>1, <2>3
    <2> HIDE DEF key_scope
    <2>5. Lookup(sym_table, id, key_scope) \subseteq Nat
      BY HandlerFields DEF Lookup, IInv
    <2>6. found_entry \in Lookup(sym_table, id, key_scope)
      BY <2>4, <2>5, MinOfNat
    <2> HIDE DEF found_entry
    <2>7. /\ found_entry \in DOMAIN sym_table
          /\ sym_table[found_entry].visible
          /\ sym_table[found_entry].scope = key_scope
      BY <2>6, LookupIsEntry
    <2>8. CASE Accessible(sym_table[found_entry], key_scope, ActiveFunctionScope(scp_handler))
      <3>1. Refer(found_entry)
        BY <1>1, <1>4, <2>8
      <3>2. \/ IsFunc(sym_table[found_entry])
            \/ sym_table[found_entry].ss = "PROGRAM_SS"
            \/ sym_table[found_entry].home = Home /\ Home # 0
        BY <2>7, <2>8, MayBeNamed
      <3> QED
        BY <2>7, <3>1, <3>2, ReferToEntry
    <2>9. CASE ~Accessible(sym_table[found_entry], key_scope, ActiveFunctionScope(scp_handler))
      <3>1. Stop("syntax_error")
        BY <1>1, <1>4, <2>9
      <3> QED
        BY <3>1, StopKeeps
    <2> QED
      BY <2>8, <2>9
  <1> QED
    BY <1>3, <1>4

LEMMA LocalIdentifierKeeps ==
  ASSUME IInv, NEW id \in Ids, LocalIdentifier(id)
  PROVE  IInv'
  <1>1. CASE Lookup(sym_table, id, Scope) # {}
    BY <1>1, ReferToOnlyKeeps DEF LocalIdentifier
  <1>2. CASE Lookup(sym_table, id, Scope) = {} /\ ShadowsLibFunc(sym_table, id)
    BY <1>2, StopKeeps DEF LocalIdentifier
  <1>3. CASE Lookup(sym_table, id, Scope) = {} /\ ~ShadowsLibFunc(sym_table, id)
    <2>1. NewVar(id) /\ Room(1) /\ id \in Names
      BY <1>3 DEF LocalIdentifier, Names
    <2> QED
      BY <1>3, <2>1, NewVarKeeps
  <1> QED
    BY <1>1, <1>2, <1>3

LEMMA GlobalIdentifierKeeps ==
  ASSUME IInv, NEW id \in Ids, GlobalIdentifier(id)
  PROVE  IInv'
  <1>1. CASE Lookup(sym_table, id, GLOBAL_SCOPE) # {}
    BY <1>1, ReferToOnlyKeeps DEF GlobalIdentifier
  <1>2. CASE Lookup(sym_table, id, GLOBAL_SCOPE) = {}
    BY <1>2, StopKeeps DEF GlobalIdentifier
  <1> QED
    BY <1>1, <1>2

LEMMA MakeNewKeeps ==
  ASSUME IInv, NEW n \in HiddenNumbers, MakeNew(n)
  PROVE  IInv'
  <1>1. CASE Lookup(sym_table, HiddenId(n), Scope) # {}
    BY <1>1, ReferToOnlyKeeps DEF MakeNew
  <1>2. CASE Lookup(sym_table, HiddenId(n), Scope) = {}
    <2>1. NewVar(HiddenId(n)) /\ Room(1) /\ HiddenId(n) \in Names
      BY <1>2 DEF MakeNew, Names
    <2> QED
      BY <1>2, <2>1, NewVarKeeps
  <1> QED
    BY <1>1, <1>2

LEMMA FunctionKeeps ==
  ASSUME IInv, NEW name \in Names \cup GenericNames, NEW ids \in IdLists, FuncOpen(name, ids)
  PROVE  IInv'
  <1>1. ids \in Seq(Ids)
    BY DEF IdLists
  <1>2. CASE \/ Lookup(sym_table, name, Scope) # {} \/ ShadowsLibFunc(sym_table, name)
             \/ ~LegalFormals(ids)
    BY <1>2, StopKeeps DEF FuncOpen
  <1>3. CASE /\ Lookup(sym_table, name, Scope) = {}
             /\ ~ShadowsLibFunc(sym_table, name)
             /\ LegalFormals(ids)
    <2>1. Room(1 + Len(ids))
      BY DEF FuncOpen
    <2> QED
      BY <1>1, <1>3, <2>1, FuncOpenKeeps
  <1> QED
    BY <1>2, <1>3

LEMMA ReturnStmtKeeps ==
  ASSUME IInv, ReturnStmt
  PROVE  IInv'
  <1>1. CASE CurrentSS(scp_handler) # "FUNCTION_LOCALS_SS"
    BY <1>1, StopKeeps DEF ReturnStmt
  <1>2. CASE CurrentSS(scp_handler) = "FUNCTION_LOCALS_SS"
    <2>1. Refer(0)
      BY <1>2 DEF ReturnStmt
    <2>2. /\ UNCHANGED <<sym_table, scp_handler, func_handler, open>>
          /\ found' = 0 /\ outcome' = outcome
      BY <2>1 DEF Refer
    <2>3. outcome' \in {"parsing", "compiled", "syntax_error"}
      BY <2>2 DEF IInv, TypeOK, OneVisibleEntry
    <2>4. OperandsInScope'
      BY <2>2 DEF OperandsInScope
    <2> QED
      BY <2>2, <2>3, <2>4, ReferKeeps
  <1> QED
    BY <1>1, <1>2

(* At the end of the source no scope space is open but the program's.      *)
(* The end of the source is in the program, so the assertion holds.        *)
LEMMA EndOfFileStops ==
  ASSUME IInv, EndOfFile
  PROVE  Stop("compiled") /\ open = << >>
  <1>1. open = << >>
    BY DEF EndOfFile
  <1>2. Len(func_handler) = 0
    <2> DEFINE depth == Len(func_handler)
               below == scp_handler.func_scope_stack
    <2>1. SUFFICES ASSUME depth # 0 PROVE FALSE
      OBVIOUS
    <2>2. depth \in 1 .. depth
      <3>1. depth \in Nat
        BY HandlerFields DEF IInv
      <3> HIDE DEF depth
      <3> QED
        BY <2>1, <3>1
    <2>3. below[depth] + 1 \in 1 .. Len(open)
      BY <2>2, InStep DEF IInv, Structure
    <2>4. Len(open) = 0
      BY <1>1
    <2> QED
      BY <2>3, <2>4
  <1>3. CurrentSS(scp_handler) = "PROGRAM_SS"
    BY <1>2, Here DEF IInv
  <1> QED
    BY <1>1, <1>3 DEF EndOfFile

LEMMA EndOfFileKeeps ==
  ASSUME IInv, EndOfFile
  PROVE  IInv'
  BY EndOfFileStops, StopKeeps

LEMMA InitHolds ==
  ASSUME Init
  PROVE  IInv
  <1> DEFINE libs == Len(LibFuncs)
  <1>1. /\ LibFuncs \in Seq(Ids)
        /\ \A i, j \in DOMAIN LibFuncs : LibFuncs[i] = LibFuncs[j] => i = j
        /\ MaxEntries \in Nat
    BY ScopesAssumption
  <1>2. /\ libs \in Nat /\ DOMAIN LibFuncs = 1 .. libs
        /\ \A i \in 1 .. libs : LibFuncs[i] \in Ids
    BY <1>1
  <1>3. /\ sym_table = [i \in 1 .. libs |-> LibEntry(LibFuncs[i])]
        /\ scp_handler = ScopeHandler
        /\ func_handler = << >>
        /\ open = << >>
        /\ found = 0
        /\ outcome = "parsing"
    BY <1>2 DEF Init
  <1>4. \A i \in 1 .. libs :
          /\ LibEntry(LibFuncs[i]) \in Entries
          /\ IsFunc(LibEntry(LibFuncs[i]))
          /\ LibEntry(LibFuncs[i]).scope = 0
          /\ LibEntry(LibFuncs[i]).name = LibFuncs[i]
    BY <1>2 DEF LibEntry, FuncEntry, IsFunc, Entries, Names, GLOBAL_SCOPE
  <1>5. /\ sym_table \in Seq(Entries)
        /\ Len(sym_table) = libs
        /\ DOMAIN sym_table = 1 .. libs
    <2> DEFINE entry(i) == LibEntry(LibFuncs[i])
    <2>1. sym_table = [i \in 1 .. libs |-> entry(i)] /\ \A i \in 1 .. libs : entry(i) \in Entries
      BY <1>3, <1>4
    <2> HIDE DEF entry, libs
    <2> QED
      BY <1>2, <2>1
  <1> HIDE DEF libs
  <1>6. \A i \in 1 .. libs :
          /\ IsFunc(sym_table[i])
          /\ sym_table[i].scope = 0
          /\ sym_table[i].name = LibFuncs[i]
    BY <1>3, <1>4
  <1>7. /\ scp_handler.scope = 0 /\ scp_handler.ss_stack = <<"PROGRAM_SS">>
        /\ scp_handler.ss_offset_stack = <<0>> /\ scp_handler.func_scope_stack = << >>
    BY <1>3 DEF ScopeHandler, GLOBAL_SCOPE
  <1>8. TypeOK
    BY <1>3, <1>5 DEF TypeOK, ScopeHandler, GLOBAL_SCOPE, ScopeSpaces
  <1>9. OneVisibleEntry
    <2>1. \A i, j \in DOMAIN sym_table : sym_table[i].name = sym_table[j].name => i = j
      BY <1>1, <1>2, <1>5, <1>6
    <2>2. \A i \in DOMAIN sym_table :
            sym_table[i].visible => Lookup(sym_table, sym_table[i].name, sym_table[i].scope) = {i}
      BY <2>1, OnlyEntry
    <2>3. \A i \in DOMAIN sym_table : sym_table[i].scope <= Scope
      BY <1>5, <1>6, <1>7 DEF Scope
    <2>4. outcome \notin {"runtime_error", "assertion"}
      BY <1>3
    <2> QED
      BY <2>2, <2>3, <2>4 DEF OneVisibleEntry
  <1>10. OperandsInScope
    BY <1>3 DEF OperandsInScope
  <1>11. TableGrows
    BY <1>1, <1>2, <1>5 DEF TableGrows, libs
  <1>12. HandlersInStep
    <2>1. <<"PROGRAM_SS">> = [k \in 1 .. 1 |-> IF k = 1 THEN "PROGRAM_SS" ELSE "FUNCTION_LOCALS_SS"]
      OBVIOUS
    <2>2. Len(func_handler) = 0 /\ Len(open) = 0 /\ DOMAIN open = {}
      BY <1>3
    <2>3. FunctionsIn(open) = {}
      BY <2>2 DEF FunctionsIn
    <2> QED
      BY <1>7, <2>1, <2>2, <2>3 DEF HandlersInStep, Scope
  <1>13. FunctionsNested /\ SpacesFit /\ VisibleAtHome /\ PlacesDistinct /\ EnoughLocals
    BY <1>3, <1>5, <1>6 DEF FunctionsNested, SpacesFit, VisibleAtHome, PlacesDistinct,
                            EnoughLocals, IsVar
  <1> QED
    BY <1>8, <1>9, <1>10, <1>11, <1>12, <1>13 DEF IInv, Structure

LEMMA NextKeeps ==
  ASSUME IInv, [Next]_vars
  PROVE  IInv'
  <1>1. CASE UNCHANGED vars
    BY <1>1, ReferKeeps DEF vars, IInv, TypeOK, OneVisibleEntry, OperandsInScope, Home
  <1>2. ASSUME NEW id \in Ids, Identifier(id) \/ LocalIdentifier(id) \/ GlobalIdentifier(id)
        PROVE  IInv'
    BY <1>2, IdentifierKeeps, LocalIdentifierKeeps, GlobalIdentifierKeeps
  <1>3. ASSUME NEW n \in HiddenNumbers, MakeNew(n)
        PROVE  IInv'
    BY <1>3, MakeNewKeeps
  <1>4. CASE BlockOpen
    BY <1>4, BlockOpenKeeps
  <1>5. CASE BlockClose
    BY <1>5, BlockCloseKeeps
  <1>6. ASSUME NEW ids \in IdLists, NEW id \in Ids, FuncOpen(id, ids)
        PROVE  IInv'
    BY <1>6, FunctionKeeps DEF Names
  <1>7. ASSUME NEW ids \in IdLists, FuncOpen(GenericId(Len(sym_table)), ids)
        PROVE  IInv'
    <2>1. GenericId(Len(sym_table)) \in GenericNames
      BY DEF IInv, Structure, TableGrows, GenericNames
    <2> QED
      BY <1>7, <2>1, FunctionKeeps
  <1>8. CASE FuncClose
    BY <1>8, FuncCloseKeeps
  <1>9. CASE ReturnStmt
    BY <1>9, ReturnStmtKeeps
  <1>10. CASE EndOfFile
    BY <1>10, EndOfFileKeeps
  <1> QED
    BY <1>1, <1>2, <1>3, <1>4, <1>5, <1>6, <1>7, <1>8, <1>9, <1>10 DEF Next

-----------------------------------------------------------------------------
THEOREM InvariantHolds == Spec => []IInv
  <1>1. Init => IInv
    BY InitHolds
  <1>2. IInv /\ [Next]_vars => IInv'
    BY NextKeeps
  <1> QED
    BY <1>1, <1>2, PTL DEF Spec

(* The types of the symbol table, the handlers and the parser's stack.     *)
THEOREM TypeCorrect == Spec => []TypeOK
  <1>1. IInv => TypeOK
    BY DEF IInv
  <1> QED
    BY <1>1, InvariantHolds, PTL

(* Scope, scope spaces, open functions and the braces of the source agree  *)
(* for programs of any size and depth.                                     *)
THEOREM HandlersAgree == Spec => []HandlersInStep
  <1>1. IInv => HandlersInStep
    BY DEF IInv, Structure
  <1> QED
    BY <1>1, InvariantHolds, PTL

(* No source makes insert throw or an assertion of the parser's handlers   *)
(* fail, and no name of a scope that was left stays visible.               *)
THEOREM NamesUnambiguous == Spec => []OneVisibleEntry
  <1>1. IInv => OneVisibleEntry
    BY DEF IInv
  <1> QED
    BY <1>1, InvariantHolds, PTL

(* Every operand is one that the machine can reach where it is used.       *)
THEOREM OperandsReachable == Spec => []OperandsInScope
  <1>1. IInv => OperandsInScope
    BY DEF IInv
  <1> QED
    BY <1>1, InvariantHolds, PTL

(* Variables of one function never share a cell. *)
THEOREM VariablesApart == Spec => []PlacesDistinct
  <1>1. IInv => PlacesDistinct
    BY DEF IInv, Structure
  <1> QED
    BY <1>1, InvariantHolds, PTL

(* The cells that are reserved for a function's locals, and for those of   *)
(* the program, are enough.                                                *)
THEOREM LocalsReserved == Spec => []EnoughLocals
  <1>1. IInv => EnoughLocals
    BY DEF IInv, Structure
  <1> QED
    BY <1>1, InvariantHolds, PTL

-----------------------------------------------------------------------------
(* What the refinement needs besides IInv: the entries of library          *)
(* functions stay, a name that the parser made up for a function is its    *)
(* own, and no scope space counts more variables than were inserted.       *)
LibFuncsStay ==
  /\ \A i \in DOMAIN sym_table : sym_table[i].type = "LIB_FUNC" <=> i <= Len(LibFuncs)
  /\ \A i \in DOMAIN LibFuncs : /\ sym_table[i].name = LibFuncs[i]
                                /\ sym_table[i].scope = GLOBAL_SCOPE
                                /\ sym_table[i].visible

GenericOwn ==
  \A i \in DOMAIN sym_table : sym_table[i].name \in Names \/ sym_table[i].name = GenericId(i - 1)

OffsetsCount ==
  \A k \in DOMAIN scp_handler.ss_offset_stack :
    scp_handler.ss_offset_stack[k] + Len(LibFuncs) <= Len(sym_table)

Named == IInv /\ LibFuncsStay /\ GenericOwn /\ OffsetsCount

LEMMA LibFuncsFields ==
  /\ LibFuncs \in Seq(Ids)
  /\ Len(LibFuncs) \in Nat
  /\ DOMAIN LibFuncs = 1 .. Len(LibFuncs)
  /\ \A i \in 1 .. Len(LibFuncs) : LibFuncs[i] \in Ids
  /\ MaxEntries \in Nat
  BY ScopesAssumption

LEMMA NamedUnchanged ==
  ASSUME Named, IInv', sym_table' = sym_table,
         scp_handler'.ss_offset_stack = scp_handler.ss_offset_stack
  PROVE  Named'
  BY DEF Named, LibFuncsStay, GenericOwn, OffsetsCount

LEMMA NamedNewVar ==
  ASSUME Named, IInv', NEW name \in Names, Lookup(sym_table, name, Scope) = {}, NewVar(name)
  PROVE  Named'
  <1> DEFINE N == Len(sym_table)
             n == N + 1
             depth == Len(func_handler)
             L == Len(LibFuncs)
             off == scp_handler.ss_offset_stack
  <1>1. /\ Len(sym_table') = n
        /\ DOMAIN sym_table' = 1 .. n
        /\ \A i \in 1 .. N : sym_table'[i] = sym_table[i]
        /\ ~IsFunc(sym_table'[n])
        /\ sym_table'[n].name = name
        /\ scp_handler' = IncrOffset(scp_handler, 1)
    BY NewVarFields DEF Named
  <1>2. N \in Nat /\ DOMAIN sym_table = 1 .. N /\ L \in Nat /\ L <= N
        /\ DOMAIN LibFuncs = 1 .. L /\ depth \in Nat
    BY LibFuncsFields, HandlerFields DEF Named, IInv, Structure, TableGrows
  <1>3. /\ DOMAIN scp_handler'.ss_offset_stack = 1 .. depth + 1
        /\ \A k \in 1 .. depth : scp_handler'.ss_offset_stack[k] = off[k] /\ off[k] \in Nat
        /\ scp_handler'.ss_offset_stack[depth + 1] = off[depth + 1] + 1
        /\ off[depth + 1] \in Nat
        /\ DOMAIN off = 1 .. depth + 1
    <2>1. /\ scp_handler'.ss_offset_stack \in Seq(Nat)
          /\ Len(scp_handler'.ss_offset_stack) = depth + 1
          /\ \A k \in 1 .. depth : scp_handler'.ss_offset_stack[k] = off[k]
          /\ scp_handler'.ss_offset_stack[depth + 1] = off[depth + 1] + 1
      BY <1>1, IncrOffsetFields DEF Named, IInv
    <2>2. off \in Seq(Nat) /\ Len(off) = depth + 1
      BY HandlerFields, Here DEF Named, IInv
    <2> HIDE DEF depth, off
    <2> QED
      BY <1>2, <2>1, <2>2
  <1> HIDE DEF N, L, depth, off
  <1>4. LibFuncsStay'
    <2>1. \A i \in 1 .. N : sym_table[i].type = "LIB_FUNC" <=> i <= L
      BY <1>2 DEF Named, LibFuncsStay, L
    <2>2. sym_table'[n].type # "LIB_FUNC" /\ ~(n <= L)
      BY <1>1, <1>2 DEF IsFunc
    <2>3. \A i \in 1 .. n : i = n \/ i \in 1 .. N
      BY <1>2
    <2>4. \A i \in 1 .. L : i \in 1 .. N
      BY <1>2
    <2> HIDE DEF n
    <2>5. \A i \in 1 .. n : sym_table'[i].type = "LIB_FUNC" <=> i <= L
      BY <1>1, <2>1, <2>2, <2>3
    <2> QED
      BY <1>1, <1>2, <2>4, <2>5 DEF Named, LibFuncsStay, L
  <1>5. GenericOwn'
    <2>1. \A i \in 1 .. n : i = n \/ i \in 1 .. N
      BY <1>2
    <2> HIDE DEF n
    <2> QED
      BY <1>1, <1>2, <2>1 DEF Named, GenericOwn
  <1>6. OffsetsCount'
    <2>1. \A k \in 1 .. depth + 1 : off[k] + L <= N
      BY <1>3 DEF Named, OffsetsCount, L, N, off
    <2>2. \A k \in 1 .. depth + 1 : scp_handler'.ss_offset_stack[k] + L <= n
      <3>1. \A k \in 1 .. depth + 1 : k = depth + 1 \/ k \in 1 .. depth
        BY <1>2
      <3> QED
        BY <1>2, <1>3, <2>1, <3>1
    <2> QED
      BY <1>1, <1>3, <2>2 DEF OffsetsCount, L, n
  <1> QED
    BY <1>4, <1>5, <1>6 DEF Named

LEMMA NamedFuncOpen ==
  ASSUME Named, IInv', NEW name, name \in Ids \/ name = GenericId(Len(sym_table)),
         NEW ids \in IdLists, FuncOpen(name, ids), name \in Names \cup GenericNames
  PROVE  Named'
  <1> DEFINE N == Len(sym_table)
             n == N + 1
             m == Len(ids)
             L == Len(LibFuncs)
             off == scp_handler.ss_offset_stack
  <1>1. CASE \/ Lookup(sym_table, name, Scope) # {} \/ ShadowsLibFunc(sym_table, name)
             \/ ~LegalFormals(ids)
    BY <1>1, NamedUnchanged DEF FuncOpen, Stop
  <1>2. CASE /\ Lookup(sym_table, name, Scope) = {}
             /\ ~ShadowsLibFunc(sym_table, name)
             /\ LegalFormals(ids)
    <2>1. ids \in Seq(Ids) /\ m \in Nat /\ \A k \in 1 .. m : ids[k] \in Ids
      BY DEF IdLists
    <2>2. /\ Len(sym_table') = n + m
          /\ DOMAIN sym_table' = 1 .. n + m
          /\ \A i \in 1 .. N : sym_table'[i] = sym_table[i]
          /\ sym_table'[n] = FuncEntry(Scope, name, "USER_FUNC")
          /\ \A k \in 1 .. m : sym_table'[n + k] = FormalEntry(ids[k], k, n)
          /\ scp_handler'.ss_offset_stack = Append(off, 0)
      BY <1>2, <2>1, FuncOpenFields DEF Named
    <2>3. N \in Nat /\ DOMAIN sym_table = 1 .. N /\ L \in Nat /\ L <= N
          /\ DOMAIN LibFuncs = 1 .. L /\ off \in Seq(Nat)
      BY LibFuncsFields, HandlerFields DEF Named, IInv, Structure, TableGrows
    <2>4. \A k \in 1 .. m : /\ sym_table'[n + k].type = "FORMAL_ARG"
                            /\ sym_table'[n + k].name = ids[k]
      <3> TAKE k \in 1 .. m
      <3>1. k \in Nat \ {0} /\ n \in Nat /\ ids[k] \in Ids /\ TypeOK
        BY <2>1, <2>3 DEF Named, IInv
      <3>2. sym_table'[n + k] = FormalEntry(ids[k], k, n)
        BY <2>2
      <3> HIDE DEF n, m
      <3>3. FormalEntry(ids[k], k, n).type = "FORMAL_ARG" /\ FormalEntry(ids[k], k, n).name = ids[k]
        BY <3>1, FormalFields
      <3> QED
        BY <3>2, <3>3
    <2>5. sym_table'[n].type = "USER_FUNC" /\ sym_table'[n].name = name
      BY <2>2 DEF FuncEntry
    <2>6. \A i \in 1 .. n + m : i \in 1 .. N \/ i = n \/ \E k \in 1 .. m : i = n + k
      <3>1. ASSUME NEW i \in 1 .. n + m, i \notin 1 .. N, i # n
            PROVE  i - n \in 1 .. m /\ i = n + (i - n)
        <4> HIDE DEF N, m
        <4> QED
          BY <2>1, <2>3, <3>1
      <3> HIDE DEF n, m
      <3> QED
        BY <3>1
    <2>7. ~(n <= L) /\ \A k \in 1 .. m : ~(n + k <= L)
      <3> HIDE DEF N, m
      <3> QED
        BY <2>1, <2>3
    <2>8. n - 1 = N
      BY <2>3
    <2> HIDE DEF N, n, m, L, off
    <2>9. LibFuncsStay'
      <3>1. \A i \in 1 .. N : sym_table[i].type = "LIB_FUNC" <=> i <= L
        BY <2>3 DEF Named, LibFuncsStay, L
      <3>2. \A i \in 1 .. n + m : sym_table'[i].type = "LIB_FUNC" <=> i <= L
        BY <2>2, <2>4, <2>5, <2>6, <2>7, <3>1
      <3>3. \A i \in 1 .. L : i \in 1 .. N
        BY <2>3
      <3> QED
        BY <2>2, <2>3, <3>2, <3>3 DEF Named, LibFuncsStay, L
    <2>10. GenericOwn'
      <3>1. name \in Names \/ name = GenericId(n - 1)
        BY <2>8 DEF Names, N
      <3>2. \A i \in 1 .. N : sym_table[i].name \in Names \/ sym_table[i].name = GenericId(i - 1)
        BY <2>3 DEF Named, GenericOwn
      <3>3. \A k \in 1 .. m : sym_table'[n + k].name \in Names
        BY <2>1, <2>4 DEF Names
      <3>4. \A i \in 1 .. n + m : sym_table'[i].name \in Names \/ sym_table'[i].name = GenericId(i - 1)
        BY <2>2, <2>5, <2>6, <3>1, <3>2, <3>3
      <3> QED
        BY <2>2, <3>4 DEF GenericOwn
    <2>11. OffsetsCount'
      <3>1. \A k \in DOMAIN off : off[k] + L <= N /\ off[k] \in Nat
        BY <2>3 DEF Named, OffsetsCount, off, L, N
      <3>2. \A k \in DOMAIN Append(off, 0) : \/ k \in DOMAIN off /\ Append(off, 0)[k] = off[k]
                                             \/ Append(off, 0)[k] = 0
        BY <2>3
      <3>3. n + m \in Nat /\ N <= n + m
        BY <2>1, <2>3 DEF n
      <3>4. \A k \in DOMAIN Append(off, 0) : Append(off, 0)[k] + L <= n + m
        BY <2>3, <3>1, <3>2, <3>3
      <3> QED
        BY <2>2, <3>4 DEF OffsetsCount, L
    <2> QED
      BY <2>9, <2>10, <2>11 DEF Named
  <1> QED
    BY <1>1, <1>2

LEMMA NamedLeaving ==
  ASSUME Named, IInv', SameButHidden(sym_table'), Scope # GLOBAL_SCOPE,
         \/ scp_handler'.ss_offset_stack = scp_handler.ss_offset_stack
         \/ /\ scp_handler.ss_offset_stack # << >>
            /\ scp_handler'.ss_offset_stack = Front(scp_handler.ss_offset_stack)
  PROVE  Named'
  <1> DEFINE N == Len(sym_table)
             L == Len(LibFuncs)
             off == scp_handler.ss_offset_stack
  <1>1. N \in Nat /\ DOMAIN sym_table = 1 .. N /\ L \in Nat /\ L <= N
        /\ DOMAIN LibFuncs = 1 .. L /\ off \in Seq(Nat)
    BY LibFuncsFields, HandlerFields DEF Named, IInv, Structure, TableGrows
  <1>2. DOMAIN sym_table' = 1 .. N /\ Len(sym_table') = N
    <2>1. DOMAIN sym_table' = 1 .. Len(sym_table')
      BY DEF IInv, TypeOK
    <2> QED
      BY <2>1 DEF SameButHidden
  <1>3. \A i \in 1 .. N : /\ sym_table'[i].name = sym_table[i].name
                          /\ sym_table'[i].type = sym_table[i].type
                          /\ sym_table'[i].scope = sym_table[i].scope
                          /\ sym_table'[i].visible <=> sym_table[i].visible /\ sym_table[i].scope # Scope
    BY DEF SameButHidden
  <1> HIDE DEF N
  <1>4. LibFuncsStay'
    <2>1. \A i \in 1 .. L : i \in 1 .. N
      BY <1>1
    <2> QED
      BY <1>1, <1>2, <1>3, <2>1 DEF Named, LibFuncsStay
  <1>5. GenericOwn'
    BY <1>1, <1>2, <1>3 DEF Named, GenericOwn
  <1>6. OffsetsCount'
    <2>1. \A k \in DOMAIN scp_handler'.ss_offset_stack :
            k \in DOMAIN off /\ scp_handler'.ss_offset_stack[k] = off[k]
      <3>1. CASE scp_handler'.ss_offset_stack = off
        BY <3>1
      <3>2. CASE off # << >> /\ scp_handler'.ss_offset_stack = Front(off)
        <4> HIDE DEF off
        <4>1. /\ DOMAIN Front(off) = 1 .. Len(off) - 1 /\ Len(off) \in Nat \ {0}
              /\ \A i \in 1 .. Len(off) - 1 : Front(off)[i] = off[i]
          BY <1>1, <3>2, FrontFields
        <4>2. \A k \in 1 .. Len(off) - 1 : k \in 1 .. Len(off)
          BY <4>1
        <4> QED
          BY <1>1, <3>2, <4>1, <4>2
      <3> QED
        BY <3>1, <3>2
    <2> QED
      BY <1>2, <2>1 DEF Named, OffsetsCount, N
  <1> QED
    BY <1>4, <1>5, <1>6 DEF Named

LEMMA NamedInit ==
  ASSUME Init
  PROVE  Named
  <1>1. IInv
    BY InitHolds
  <1>2. /\ DOMAIN sym_table = 1 .. Len(LibFuncs) /\ Len(sym_table) = Len(LibFuncs)
        /\ \A i \in 1 .. Len(LibFuncs) : sym_table[i] = LibEntry(LibFuncs[i])
    BY <1>1, LibFuncsFields, HandlerFields DEF Init, IInv
  <1>3. \A i \in 1 .. Len(LibFuncs) : /\ sym_table[i].name = LibFuncs[i]
                                      /\ sym_table[i].scope = GLOBAL_SCOPE
                                      /\ sym_table[i].visible = TRUE
                                      /\ sym_table[i].type = "LIB_FUNC"
    BY <1>2 DEF LibEntry, FuncEntry
  <1>4. LibFuncsStay
    BY <1>2, <1>3, LibFuncsFields DEF LibFuncsStay
  <1>5. GenericOwn
    BY <1>2, <1>3, LibFuncsFields DEF GenericOwn, Names
  <1>6. OffsetsCount
    <2>1. scp_handler.ss_offset_stack = <<0>>
      BY DEF Init, ScopeHandler
    <2> QED
      BY <1>2, <2>1, LibFuncsFields DEF OffsetsCount
  <1> QED
    BY <1>1, <1>4, <1>5, <1>6 DEF Named

(* A step that adds no entry. *)
LEMMA NamedKept ==
  ASSUME Named, IInv', UNCHANGED <<sym_table, scp_handler>>
  PROVE  Named'
  BY NamedUnchanged

LEMMA ReferFound ==
  ASSUME NEW entries, ReferToOnly(entries)
  PROVE  UNCHANGED <<sym_table, scp_handler>>
  BY DEF ReferToOnly, Refer, Stop

LEMMA NamedNext ==
  ASSUME Named, [Next]_vars
  PROVE  Named'
  <1>1. IInv'
    BY NextKeeps DEF Named
  <1>2. ASSUME NEW name \in Names, Lookup(sym_table, name, Scope) = {}, NewVar(name)
        PROVE  Named'
    BY <1>1, <1>2, NamedNewVar
  <1>3. ASSUME UNCHANGED <<sym_table, scp_handler>>
        PROVE  Named'
    BY <1>1, <1>3, NamedKept
  <1>4. ASSUME NEW id \in Ids, Identifier(id)
        PROVE  Named'
    <2>1. CASE RecursiveLookup(sym_table, id, Scope) = {}
      <3>1. Scope \in GLOBAL_SCOPE .. Scope
        BY HandlerFields DEF Named, IInv, GLOBAL_SCOPE
      <3>2. Lookup(sym_table, id, Scope) = {} /\ id \in Names
        BY <2>1, <3>1 DEF RecursiveLookup, Names
      <3>3. NewVar(id)
        BY <1>4, <2>1 DEF Identifier
      <3> QED
        BY <1>2, <3>2, <3>3
    <2>2. CASE RecursiveLookup(sym_table, id, Scope) # {}
      BY <1>3, <1>4, <2>2 DEF Identifier, Refer, Stop
    <2> QED
      BY <2>1, <2>2
  <1>5. ASSUME NEW id \in Ids, LocalIdentifier(id)
        PROVE  Named'
    <2>1. id \in Names
      BY DEF Names
    <2>2. CASE Lookup(sym_table, id, Scope) = {} /\ ~ShadowsLibFunc(sym_table, id)
      BY <1>2, <1>5, <2>1, <2>2 DEF LocalIdentifier
    <2>3. CASE Lookup(sym_table, id, Scope) # {} \/ ShadowsLibFunc(sym_table, id)
      BY <1>3, <1>5, <2>3, ReferFound DEF LocalIdentifier, Stop
    <2> QED
      BY <2>2, <2>3
  <1>6. ASSUME NEW id \in Ids, GlobalIdentifier(id)
        PROVE  Named'
    BY <1>3, <1>6, ReferFound DEF GlobalIdentifier, Stop
  <1>7. ASSUME NEW n \in HiddenNumbers, MakeNew(n)
        PROVE  Named'
    <2>1. HiddenId(n) \in Names
      BY DEF Names
    <2> QED
      BY <1>2, <1>3, <1>7, <2>1, ReferFound DEF MakeNew
  <1>8. ASSUME NEW ids \in IdLists, NEW id \in Ids, FuncOpen(id, ids)
        PROVE  Named'
    BY <1>1, <1>8, NamedFuncOpen DEF Names
  <1>9. ASSUME NEW ids \in IdLists, FuncOpen(GenericId(Len(sym_table)), ids)
        PROVE  Named'
    <2>1. GenericId(Len(sym_table)) \in GenericNames
      BY DEF Named, IInv, Structure, TableGrows, GenericNames
    <2> QED
      BY <1>1, <1>9, <2>1, NamedFuncOpen
  <1>10. CASE BlockOpen
    <2>1. sym_table' = sym_table /\ scp_handler'.ss_offset_stack = scp_handler.ss_offset_stack
      BY <1>10, HandlerFields DEF BlockOpen, IncreaseScope, Named, IInv, TypeOK
    <2> QED
      BY <1>1, <2>1, NamedUnchanged
  <1>11. CASE BlockClose \/ FuncClose
    <2>1. Scope # GLOBAL_SCOPE
      <3>1. open # << >>
        BY <1>11 DEF BlockClose, FuncClose
      <3>2. Len(open) # 0 /\ Scope = Len(open)
        <4>1. open \in Seq({0} \cup DOMAIN sym_table)
          BY HandlerFields DEF Named, IInv
        <4> QED
          BY <3>1, <4>1, EmptySeq DEF Named, IInv, Structure, HandlersInStep
      <3> QED
        BY <3>2 DEF GLOBAL_SCOPE
    <2>2. CASE BlockClose
      <3>1. sym_table' = Hide(sym_table, Scope) /\ scp_handler'.ss_offset_stack = scp_handler.ss_offset_stack
        BY <2>2, HandlerFields DEF BlockClose, LeaveBlock, DecreaseScope, Scope, Named, IInv, TypeOK
      <3>2. SameButHidden(sym_table')
        BY <3>1, HideFields DEF Named, IInv
      <3> QED
        BY <1>1, <2>1, <3>1, <3>2, NamedLeaving
    <2>3. CASE FuncClose
      <3>1. /\ SameButHidden(sym_table')
            /\ scp_handler'.ss_offset_stack = Front(scp_handler.ss_offset_stack)
        BY <2>3, FuncCloseFields DEF Named
      <3>2. scp_handler.ss_offset_stack # << >>
        <4>1. Len(scp_handler.ss_offset_stack) = Len(func_handler) + 1 /\ Len(func_handler) \in Nat
          BY Here, HandlerFields DEF Named, IInv
        <4> QED
          BY <4>1
      <3> QED
        BY <1>1, <2>1, <3>1, <3>2, NamedLeaving
    <2> QED
      BY <1>11, <2>2, <2>3
  <1>12. CASE ReturnStmt \/ EndOfFile
    BY <1>3, <1>12 DEF ReturnStmt, EndOfFile, Refer, Stop
  <1>13. CASE UNCHANGED vars
    BY <1>3, <1>13 DEF vars
  <1> QED
    BY <1>4, <1>5, <1>6, <1>7, <1>8, <1>9, <1>10, <1>11, <1>12, <1>13 DEF Next

-----------------------------------------------------------------------------
(* The mapping, as a function of the symbol table and the parser's stack.  *)
BindingIn(table, i) ==
  LET e == table[i]
  IN  CASE e.type = "LIB_FUNC"  -> [is |-> "libfunc"]
        [] e.type = "USER_FUNC" -> [is |-> "func", home |-> i]
        [] OTHER -> [is |-> "var", home |-> e.home, slot |-> e.offset,
                     in |-> IF e.ss = "FORMAL_ARGUMENTS_SS" THEN "formals" ELSE "body"]

DeclaredIn(table, scope) ==
  LET visible == {i \in DOMAIN table : /\ table[i].scope = scope
                                       /\ table[i].visible
                                       /\ table[i].name \in Names}
  IN  [n \in {table[i].name : i \in visible} |->
         BindingIn(table, CHOOSE i \in visible : table[i].name = n)]

ScopeAt(table, items, k) ==
  [home |-> HomeOf(SubSeq(items, 1, k - 1)), names |-> DeclaredIn(table, k - 1)]

ScopesIn(table, items, n) == [k \in 1 .. n |-> ScopeAt(table, items, k)]

OnlyOnce(table) ==
  \A i, j \in DOMAIN table :
    /\ table[i].visible /\ table[j].visible
    /\ table[i].name = table[j].name
    /\ table[i].scope = table[j].scope
    => i = j

(* What a scope declares: the names that a lookup finds in it, each as the *)
(* entry found.                                                            *)
IsDeclaration(f, table, s) ==
  /\ DOMAIN f = {n \in Names : Lookup(table, n, s) # {}}
  /\ \A n \in Names : \A i \in Lookup(table, n, s) : f[n] = BindingIn(table, i)
  /\ f = [n \in DOMAIN f |-> f[n]]

LEMMA DeclaredFields ==
  ASSUME NEW table, OnlyOnce(table), NEW s
  PROVE  IsDeclaration(DeclaredIn(table, s), table, s)
  <1> DEFINE visible == {i \in DOMAIN table : /\ table[i].scope = s
                                              /\ table[i].visible
                                              /\ table[i].name \in Names}
             of(n) == CHOOSE i \in visible : table[i].name = n
  <1>1. DeclaredIn(table, s) = [n \in {table[i].name : i \in visible} |-> BindingIn(table, of(n))]
    BY DEF DeclaredIn
  <1>2. \A n \in Names : \A i \in Lookup(table, n, s) : i \in visible /\ table[i].name = n
    BY DEF Lookup
  <1>3. \A i \in visible : i \in Lookup(table, table[i].name, s) /\ table[i].name \in Names
    BY DEF Lookup
  <1>4. {table[i].name : i \in visible} = {n \in Names : Lookup(table, n, s) # {}}
    <2> HIDE DEF visible
    <2> QED
      BY <1>2, <1>3
  <1>5. ASSUME NEW n \in Names, NEW i \in Lookup(table, n, s)
        PROVE  of(n) = i
    <2>1. i \in visible /\ table[i].name = n
      BY <1>2
    <2>2. of(n) \in visible /\ table[of(n)].name = n
      BY <2>1
    <2> QED
      BY <2>1, <2>2 DEF OnlyOnce
  <1> HIDE DEF of, visible
  <1> QED
    BY <1>1, <1>4, <1>5 DEF IsDeclaration

LEMMA SameFunction ==
  ASSUME NEW D, NEW f, NEW g, f = [n \in D |-> f[n]], g = [n \in D |-> g[n]],
         \A n \in D : f[n] = g[n]
  PROVE  f = g
  OBVIOUS

(* Two tables that a scope's lookups do not tell apart.                    *)
LEMMA DeclaredSame ==
  ASSUME NEW table, NEW other, OnlyOnce(table), OnlyOnce(other), NEW s,
         \A n \in Names : Lookup(other, n, s) = Lookup(table, n, s),
         \A n \in Names : \A i \in Lookup(table, n, s) : BindingIn(other, i) = BindingIn(table, i)
  PROVE  DeclaredIn(other, s) = DeclaredIn(table, s)
  <1> DEFINE f == DeclaredIn(table, s)
             g == DeclaredIn(other, s)
             D == {n \in Names : Lookup(table, n, s) # {}}
  <1>1. /\ DOMAIN f = D /\ DOMAIN g = D
        /\ f = [n \in DOMAIN f |-> f[n]] /\ g = [n \in DOMAIN g |-> g[n]]
        /\ \A n \in Names : \A i \in Lookup(table, n, s) : f[n] = BindingIn(table, i)
        /\ \A n \in Names : \A i \in Lookup(other, n, s) : g[n] = BindingIn(other, i)
    <2>1. D = {n \in Names : Lookup(other, n, s) # {}}
      OBVIOUS
    <2>2. IsDeclaration(f, table, s) /\ IsDeclaration(g, other, s)
      BY DeclaredFields
    <2> HIDE DEF f, g
    <2>3. DOMAIN f = D
      BY <2>2 DEF IsDeclaration
    <2> HIDE DEF D
    <2> QED
      BY <2>1, <2>2, <2>3 DEF IsDeclaration
  <1>2. ASSUME NEW n \in D
        PROVE  f[n] = g[n]
    <2>1. n \in Names /\ Lookup(table, n, s) # {}
      OBVIOUS
    <2>2. PICK i \in Lookup(table, n, s) : TRUE
      BY <2>1
    <2> HIDE DEF f, g, D
    <2> QED
      BY <1>1, <2>1, <2>2
  <1> HIDE DEF f, g, D
  <1> QED
    BY <1>1, <1>2, SameFunction DEF f, g

(* A scope of which nothing is visible. *)
LEMMA DeclaresNothing ==
  ASSUME NEW table, OnlyOnce(table), NEW s, \A n \in Names : Lookup(table, n, s) = {}
  PROVE  DeclaredIn(table, s) = << >>
  <1>1. /\ DOMAIN DeclaredIn(table, s) = {}
        /\ DeclaredIn(table, s) = [n \in DOMAIN DeclaredIn(table, s) |-> DeclaredIn(table, s)[n]]
    BY DeclaredFields DEF IsDeclaration
  <1> QED
    BY <1>1

(* One entry more in a scope, for a name that was not there: what Env!Bind *)
(* makes of the innermost scope.                                           *)
With(f, n, b) == [m \in DOMAIN f \cup {n} |-> IF m = n THEN b ELSE f[m]]

LEMMA DeclaredMore ==
  ASSUME NEW table, NEW other, OnlyOnce(table), OnlyOnce(other), NEW s,
         NEW name \in Names, NEW i,
         Lookup(other, name, s) = {i},
         \A n \in Names \ {name} : Lookup(other, n, s) = Lookup(table, n, s),
         \A n \in Names : \A j \in Lookup(table, n, s) : BindingIn(other, j) = BindingIn(table, j)
  PROVE  DeclaredIn(other, s) = With(DeclaredIn(table, s), name, BindingIn(other, i))
  <1> DEFINE f == DeclaredIn(table, s)
             g == DeclaredIn(other, s)
             h == [m \in DOMAIN f \cup {name} |-> IF m = name THEN BindingIn(other, i) ELSE f[m]]
             D == DOMAIN f \cup {name}
  <1>1. /\ DOMAIN f = {n \in Names : Lookup(table, n, s) # {}}
        /\ \A n \in Names : \A j \in Lookup(table, n, s) : f[n] = BindingIn(table, j)
        /\ DOMAIN g = {n \in Names : Lookup(other, n, s) # {}}
        /\ g = [n \in DOMAIN g |-> g[n]]
        /\ \A n \in Names : \A j \in Lookup(other, n, s) : g[n] = BindingIn(other, j)
    <2>1. IsDeclaration(f, table, s) /\ IsDeclaration(g, other, s)
      BY DeclaredFields
    <2> HIDE DEF f, g
    <2> QED
      BY <2>1 DEF IsDeclaration
  <1> HIDE DEF f, g
  <1>2. DOMAIN g = D
    BY <1>1
  <1>3. ASSUME NEW n \in D
        PROVE  g[n] = h[n]
    <2>1. CASE n = name
      BY <1>1, <2>1
    <2>2. CASE n # name
      <3>1. n \in Names \ {name} /\ Lookup(table, n, s) # {}
        BY <1>1, <2>2
      <3>2. PICK j \in Lookup(table, n, s) : TRUE
        BY <3>1
      <3>3. j \in Lookup(other, n, s) /\ BindingIn(other, j) = BindingIn(table, j)
        BY <3>1, <3>2
      <3>4. g[n] = BindingIn(other, j) /\ f[n] = BindingIn(table, j)
        BY <1>1, <3>1, <3>2, <3>3
      <3> QED
        BY <2>2, <3>3, <3>4
    <2> QED
      BY <2>1, <2>2
  <1>4. h = [n \in D |-> h[n]]
    OBVIOUS
  <1>5. g = [n \in D |-> g[n]]
    BY <1>1, <1>2
  <1> HIDE DEF h, D
  <1>6. g = h
    BY <1>3, <1>4, <1>5, SameFunction
  <1> QED
    BY <1>6 DEF f, g, h, With


-----------------------------------------------------------------------------
AllScopes(table, items) == {ScopeAt(table, items, k) : k \in Nat}

LEMMA ScopesFields ==
  ASSUME NEW table, NEW items, NEW n \in Nat
  PROVE  LET s == ScopesIn(table, items, n)
         IN  /\ s \in Seq(AllScopes(table, items))
             /\ Len(s) = n /\ DOMAIN s = 1 .. n
             /\ \A k \in 1 .. n : s[k] = ScopeAt(table, items, k)
  <1> DEFINE F == [k \in Nat |-> ScopeAt(table, items, k)]
             S == AllScopes(table, items)
  <1>1. ScopesIn(table, items, n) = [k \in 1 .. n |-> F[k]]
    BY DEF ScopesIn
  <1>2. \A k \in 1 .. n : F[k] \in S /\ F[k] = ScopeAt(table, items, k)
    BY DEF AllScopes
  <1> HIDE DEF F, S
  <1> QED
    BY <1>1, <1>2 DEF S

LEMMA ScopesFront ==
  ASSUME NEW table, NEW items, NEW n \in Nat
  PROVE  Front(ScopesIn(table, items, n + 1)) = ScopesIn(table, items, n)
  <1> DEFINE s == ScopesIn(table, items, n + 1)
             t == ScopesIn(table, items, n)
             S == AllScopes(table, items)
  <1>1. n + 1 \in Nat /\ n + 1 # 0
    OBVIOUS
  <1>2. /\ s \in Seq(S) /\ Len(s) = n + 1
        /\ \A k \in 1 .. n + 1 : s[k] = ScopeAt(table, items, k)
        /\ t \in Seq(S) /\ Len(t) = n
        /\ \A k \in 1 .. n : t[k] = ScopeAt(table, items, k)
    BY <1>1, ScopesFields
  <1> HIDE DEF s, t, S
  <1>3. s # << >>
    BY <1>1, <1>2
  <1>4. Front(s) \in Seq(S) /\ Len(Front(s)) = n /\ \A k \in 1 .. n : Front(s)[k] = s[k]
    BY <1>2, <1>3, FrontFields
  <1>5. \A k \in 1 .. n : k \in 1 .. n + 1
    OBVIOUS
  <1>6. Front(s) = t
    BY <1>2, <1>4, <1>5, SeqEqual
  <1> QED
    BY <1>6 DEF s, t

LEMMA ScopesAppend ==
  ASSUME NEW table, NEW items, NEW n \in Nat
  PROVE  ScopesIn(table, items, n + 1)
           = Append(ScopesIn(table, items, n), ScopeAt(table, items, n + 1))
  <1> DEFINE s == ScopesIn(table, items, n + 1)
             t == ScopesIn(table, items, n)
             x == ScopeAt(table, items, n + 1)
             S == AllScopes(table, items)
  <1>1. n + 1 \in Nat /\ x \in S
    BY DEF AllScopes
  <1>2. /\ s \in Seq(S) /\ Len(s) = n + 1
        /\ \A k \in 1 .. n + 1 : s[k] = ScopeAt(table, items, k)
        /\ t \in Seq(S) /\ Len(t) = n
        /\ \A k \in 1 .. n : t[k] = ScopeAt(table, items, k)
    BY <1>1, ScopesFields
  <1>3. x = ScopeAt(table, items, n + 1)
    OBVIOUS
  <1> HIDE DEF s, t, S, x
  <1>4. Append(t, x) \in Seq(S) /\ Len(Append(t, x)) = n + 1
        /\ \A k \in 1 .. n : Append(t, x)[k] = t[k]
        /\ Append(t, x)[n + 1] = x
    BY <1>1, <1>2
  <1>5. \A k \in 1 .. n + 1 : k \in 1 .. n \/ k = n + 1
    OBVIOUS
  <1>6. s = Append(t, x)
    BY <1>2, <1>3, <1>4, <1>5, SeqEqual
  <1> QED
    BY <1>6 DEF s, t, x

LEMMA ScopesSame ==
  ASSUME NEW table, NEW items, NEW other, NEW stack, NEW n \in Nat,
         \A k \in 1 .. n : ScopeAt(other, stack, k) = ScopeAt(table, items, k)
  PROVE  ScopesIn(other, stack, n) = ScopesIn(table, items, n)
  BY DEF ScopesIn

-----------------------------------------------------------------------------
(* HomeAt, for any stack of the parser. *)
HomeWithin(items, s, h) ==
  \/ h = 0 /\ \A j \in 1 .. s : items[j] = 0
  \/ h # 0 /\ \E j \in 1 .. s : items[j] = h /\ \A m \in j + 1 .. s : items[m] = 0

LEMMA SubFields ==
  ASSUME NEW items \in Seq(Nat), NEW s \in 0 .. Len(items)
  PROVE  /\ SubSeq(items, 1, s) \in Seq(Nat)
         /\ Len(SubSeq(items, 1, s)) = s
         /\ \A j \in 1 .. s : SubSeq(items, 1, s)[j] = items[j]
  <1>1. Len(items) \in Nat /\ s \in Nat
    OBVIOUS
  <1>2. \A j \in 1 .. s : items[j] \in Nat
    BY <1>1
  <1> QED
    BY <1>1, <1>2

LEMMA HomeIs ==
  ASSUME NEW items \in Seq(Nat), NEW s \in 0 .. Len(items), NEW h, HomeWithin(items, s, h)
  PROVE  HomeOf(SubSeq(items, 1, s)) = h
  <1> DEFINE t == SubSeq(items, 1, s)
             F == FunctionsIn(t)
  <1>1. t \in Seq(Nat) /\ Len(t) = s /\ \A j \in 1 .. s : t[j] = items[j]
    BY SubFields
  <1>2. s \in Nat
    OBVIOUS
  <1> HIDE DEF t
  <1>3. F = {j \in 1 .. s : items[j] # 0}
    BY <1>1 DEF FunctionsIn
  <1>4. CASE h = 0 /\ \A j \in 1 .. s : items[j] = 0
    BY <1>3, <1>4 DEF HomeOf, t
  <1>5. CASE h # 0 /\ \E j \in 1 .. s : items[j] = h /\ \A m \in j + 1 .. s : items[m] = 0
    <2>1. PICK j \in 1 .. s : items[j] = h /\ \A m \in j + 1 .. s : items[m] = 0
      BY <1>5
    <2>2. F \subseteq 0 .. s /\ F # {} /\ j \in F
      BY <1>3, <1>5, <2>1
    <2>3. Max(F) \in F /\ Max(F) >= j
      <3> HIDE DEF F
      <3> QED
        BY <1>2, <2>2, MaxOfBounded
    <2>4. Max(F) = j
      BY <1>2, <1>3, <2>1, <2>3
    <2>5. HomeOf(t) = t[Max(F)]
      BY <2>2 DEF HomeOf
    <2> QED
      BY <1>1, <2>1, <2>4, <2>5 DEF t
  <1> QED
    BY <1>4, <1>5 DEF HomeWithin

LEMMA HomeExists ==
  ASSUME NEW items \in Seq(Nat), NEW s \in 0 .. Len(items)
  PROVE  HomeWithin(items, s, HomeOf(SubSeq(items, 1, s)))
  <1> DEFINE F == {j \in 1 .. s : items[j] # 0}
  <1>1. s \in Nat
    OBVIOUS
  <1>2. CASE F = {}
    <2>1. HomeWithin(items, s, 0)
      BY <1>2 DEF HomeWithin
    <2> QED
      BY <2>1, HomeIs
  <1>3. CASE F # {}
    <2>1. F \subseteq 0 .. s
      OBVIOUS
    <2>2. Max(F) \in F /\ \A n \in F : Max(F) >= n
      <3> HIDE DEF F
      <3> QED
        BY <1>1, <1>3, <2>1, MaxOfBounded
    <2> DEFINE j == Max(F)
    <2> HIDE DEF j
    <2>3. j \in 1 .. s /\ items[j] # 0 /\ \A m \in j + 1 .. s : items[m] = 0
      <3>1. j \in 1 .. s /\ items[j] # 0 /\ \A n \in 1 .. s : items[n] # 0 => j >= n
        BY <2>2 DEF j
      <3>2. \A m \in j + 1 .. s : m \in 1 .. s /\ ~(j >= m)
        BY <1>1, <3>1
      <3> QED
        BY <3>1, <3>2
    <2>4. HomeWithin(items, s, items[j])
      BY <2>3 DEF HomeWithin
    <2> QED
      BY <2>4, HomeIs
  <1> QED
    BY <1>2, <1>3

LEMMA SubAppend ==
  ASSUME NEW items \in Seq(Nat), NEW x \in Nat, NEW s \in 0 .. Len(items)
  PROVE  SubSeq(Append(items, x), 1, s) = SubSeq(items, 1, s)
  <1>1. /\ Append(items, x) \in Seq(Nat) /\ Len(Append(items, x)) = Len(items) + 1
        /\ \A j \in 1 .. Len(items) : Append(items, x)[j] = items[j]
        /\ Len(items) \in Nat /\ s \in 0 .. Len(items) + 1
    OBVIOUS
  <1> DEFINE longer == Append(items, x)
  <1> HIDE DEF longer
  <1>2. /\ SubSeq(longer, 1, s) \in Seq(Nat) /\ Len(SubSeq(longer, 1, s)) = s
        /\ \A j \in 1 .. s : SubSeq(longer, 1, s)[j] = longer[j]
    BY <1>1, SubFields DEF longer
  <1>3. /\ SubSeq(items, 1, s) \in Seq(Nat) /\ Len(SubSeq(items, 1, s)) = s
        /\ \A j \in 1 .. s : SubSeq(items, 1, s)[j] = items[j]
    BY SubFields
  <1>4. \A j \in 1 .. s : longer[j] = items[j]
    BY <1>1 DEF longer
  <1> QED
    BY <1>2, <1>3, <1>4, SeqEqual DEF longer

LEMMA SubFront ==
  ASSUME NEW items \in Seq(Nat), items # << >>, NEW s \in 0 .. Len(items) - 1
  PROVE  SubSeq(Front(items), 1, s) = SubSeq(items, 1, s)
  <1> DEFINE shorter == Front(items)
  <1>1. /\ shorter \in Seq(Nat) /\ Len(shorter) = Len(items) - 1
        /\ \A j \in 1 .. Len(items) - 1 : shorter[j] = items[j]
        /\ Len(items) \in Nat \ {0}
    BY FrontFields
  <1> HIDE DEF shorter
  <1>2. /\ SubSeq(shorter, 1, s) \in Seq(Nat) /\ Len(SubSeq(shorter, 1, s)) = s
        /\ \A j \in 1 .. s : SubSeq(shorter, 1, s)[j] = shorter[j]
    BY <1>1, SubFields
  <1>3. /\ SubSeq(items, 1, s) \in Seq(Nat) /\ Len(SubSeq(items, 1, s)) = s
        /\ \A j \in 1 .. s : SubSeq(items, 1, s)[j] = items[j]
    BY <1>1, SubFields
  <1>4. \A j \in 1 .. s : shorter[j] = items[j]
    BY <1>1
  <1> QED
    BY <1>2, <1>3, <1>4, SeqEqual DEF shorter

-----------------------------------------------------------------------------
LEMMA OpenIsNat ==
  ASSUME Named
  PROVE  /\ open \in Seq(Nat) /\ Len(open) = Scope /\ Scope \in Nat
         /\ HomeWithin(open, Scope, Home)
         /\ HomeOf(SubSeq(open, 1, Scope)) = Home
  <1>1. open \in Seq(Nat) /\ Scope \in Nat
    <2>1. open \in Seq({0} \cup DOMAIN sym_table) /\ {0} \cup DOMAIN sym_table \subseteq Nat
      BY HandlerFields DEF Named, IInv
    <2> QED
      BY <2>1, HandlerFields DEF Named, IInv
  <1>2. Len(open) = Scope
    BY DEF Named, IInv, Structure, HandlersInStep
  <1>3. HomeWithin(open, Scope, Home)
    BY Here DEF Named, IInv, HomeAt, HomeWithin
  <1> QED
    BY <1>1, <1>2, <1>3, HomeIs

LEMMA OnlyOnceNow ==
  ASSUME OneVisibleEntry
  PROVE  OnlyOnce(sym_table)
  BY OnlyEntry DEF OneVisibleEntry, OnlyOnce

(* The open scopes of the refinement mapping, now and after a step. *)
LEMMA MappedScopes ==
  /\ OpenScopes = ScopesIn(sym_table, open, Scope + 1)
  /\ OpenScopes' = ScopesIn(sym_table', open', Scope' + 1)
  /\ FoundMeaning = IF found = 0 THEN [is |-> "nothing"] ELSE BindingIn(sym_table, found)
  /\ FoundMeaning' = IF found' = 0 THEN [is |-> "nothing"] ELSE BindingIn(sym_table', found')
  BY DEF OpenScopes, FoundMeaning, ScopesIn, ScopeAt, Declared, DeclaredIn, Binding, BindingIn

LEMMA EnvNow ==
  ASSUME Named
  PROVE  /\ OnlyOnce(sym_table)
         /\ Len(OpenScopes) = Scope + 1
         /\ DOMAIN OpenScopes = 1 .. Scope + 1
         /\ Env!Here = Home
         /\ Env!Inner = [home |-> Home, names |-> DeclaredIn(sym_table, Scope)]
         /\ Front(OpenScopes) = ScopesIn(sym_table, open, Scope)
         /\ \A k \in 1 .. Scope + 1 : OpenScopes[k] = ScopeAt(sym_table, open, k)
         /\ \A k \in 1 .. Scope + 1 : \A n :
              Env!Declares(k, n) <=> n \in Names /\ Lookup(sym_table, n, k - 1) # {}
  <1>1. OnlyOnce(sym_table)
    BY OnlyOnceNow DEF Named, IInv
  <1>2. Scope \in Nat /\ Scope + 1 \in Nat /\ (Scope + 1) - 1 = Scope
    BY OpenIsNat
  <1>3. /\ Len(OpenScopes) = Scope + 1 /\ DOMAIN OpenScopes = 1 .. Scope + 1
        /\ \A k \in 1 .. Scope + 1 : OpenScopes[k] = ScopeAt(sym_table, open, k)
    BY <1>2, ScopesFields, MappedScopes
  <1>4. Front(OpenScopes) = ScopesIn(sym_table, open, Scope)
    BY <1>2, ScopesFront, MappedScopes
  <1>5. Env!Inner = [home |-> Home, names |-> DeclaredIn(sym_table, Scope)]
    <2>1. Env!Inner = OpenScopes[Scope + 1]
      BY <1>3 DEF Env!Inner
    <2>2. Scope + 1 \in 1 .. Scope + 1
      BY <1>2
    <2>3. ScopeAt(sym_table, open, Scope + 1)
            = [home |-> Home, names |-> DeclaredIn(sym_table, Scope)]
      BY <1>2, OpenIsNat DEF ScopeAt
    <2> QED
      BY <1>3, <2>1, <2>2, <2>3
  <1>6. Env!Here = Home
    BY <1>5 DEF Env!Here
  <1>7. ASSUME NEW k \in 1 .. Scope + 1, NEW n
        PROVE  Env!Declares(k, n) <=> n \in Names /\ Lookup(sym_table, n, k - 1) # {}
    <2>1. OpenScopes[k].names = DeclaredIn(sym_table, k - 1)
      BY <1>3 DEF ScopeAt
    <2>2. DOMAIN DeclaredIn(sym_table, k - 1) = {m \in Names : Lookup(sym_table, m, k - 1) # {}}
      BY <1>1, DeclaredFields DEF IsDeclaration
    <2> QED
      BY <2>1, <2>2 DEF Env!Declares
  <1> QED
    BY <1>1, <1>3, <1>4, <1>5, <1>6, <1>7

-----------------------------------------------------------------------------
(* Steps that leave the table and the handlers as they are. *)
LEMMA StopFails ==
  ASSUME NEW error, Stop(error)
  PROVE  Env!Fails(error)
  <1>1. sym_table' = sym_table /\ open' = open /\ Scope' = Scope /\ found' = 0 /\ outcome' = error
    BY DEF Stop, Scope
  <1>2. OpenScopes' = OpenScopes
    BY <1>1, MappedScopes
  <1>3. FoundMeaning' = [is |-> "nothing"]
    BY <1>1, MappedScopes
  <1> QED
    BY <1>1, <1>2, <1>3 DEF Env!Fails, Env!Nothing

LEMMA ReferMeans ==
  ASSUME Named, NEW i \in DOMAIN sym_table, Refer(i)
  PROVE  Env!Means(BindingIn(sym_table, i))
  <1>1. /\ sym_table' = sym_table /\ open' = open /\ Scope' = Scope /\ found' = i
        /\ outcome' = outcome
    BY DEF Refer, Scope
  <1>2. OpenScopes' = OpenScopes
    BY <1>1, MappedScopes
  <1>3. i # 0
    BY HandlerFields DEF Named, IInv
  <1>4. FoundMeaning' = BindingIn(sym_table, i)
    BY <1>1, <1>3, MappedScopes
  <1> QED
    BY <1>1, <1>2, <1>4 DEF Env!Means

LEMMA ReferNothing ==
  ASSUME Refer(0)
  PROVE  Env!Becomes(OpenScopes)
  <1>1. /\ sym_table' = sym_table /\ open' = open /\ Scope' = Scope /\ found' = 0
        /\ outcome' = outcome
    BY DEF Refer, Scope
  <1>2. OpenScopes' = OpenScopes
    BY <1>1, MappedScopes
  <1>3. FoundMeaning' = [is |-> "nothing"]
    BY <1>1, MappedScopes
  <1> QED
    BY <1>1, <1>2, <1>3 DEF Env!Becomes, Env!Nothing

(* An entry that a lookup in an open scope finds is what the scope         *)
(* declares the name to be.                                                *)
LEMMA MeaningOf ==
  ASSUME Named, NEW s \in 0 .. Scope, NEW n \in Names, NEW i \in Lookup(sym_table, n, s)
  PROVE  /\ s + 1 \in 1 .. Scope + 1
         /\ Env!Declares(s + 1, n)
         /\ OpenScopes[s + 1].names[n] = BindingIn(sym_table, i)
         /\ OpenScopes[s + 1].home = HomeOf(SubSeq(open, 1, s))
         /\ Lookup(sym_table, n, s) = {i}
         /\ i \in DOMAIN sym_table
  <1>1. s + 1 \in 1 .. Scope + 1 /\ (s + 1) - 1 = s
    BY OpenIsNat
  <1>2. OpenScopes[s + 1] = ScopeAt(sym_table, open, s + 1)
    BY <1>1, EnvNow
  <1>3. /\ OpenScopes[s + 1].names = DeclaredIn(sym_table, s)
        /\ OpenScopes[s + 1].home = HomeOf(SubSeq(open, 1, s))
    BY <1>1, <1>2 DEF ScopeAt
  <1>4. IsDeclaration(DeclaredIn(sym_table, s), sym_table, s)
    BY DeclaredFields, EnvNow
  <1>5. DeclaredIn(sym_table, s)[n] = BindingIn(sym_table, i)
    BY <1>4 DEF IsDeclaration
  <1>6. Env!Declares(s + 1, n)
    BY <1>1, EnvNow
  <1>7. i \in DOMAIN sym_table /\ Lookup(sym_table, n, s) = {i}
    BY LookupIsEntry DEF Named
  <1> QED
    BY <1>1, <1>3, <1>5, <1>6, <1>7

(* A name shadows a library function if it is the name of one.             *)
LEMMA Shadowing ==
  ASSUME Named, NEW n
  PROVE  ShadowsLibFunc(sym_table, n) <=> n \in ToSet(LibFuncs)
  <1>1. /\ DOMAIN LibFuncs = 1 .. Len(LibFuncs) /\ Len(LibFuncs) \in Nat
        /\ DOMAIN sym_table = 1 .. Len(sym_table) /\ Len(sym_table) \in Nat
        /\ Len(LibFuncs) <= Len(sym_table)
    BY LibFuncsFields, HandlerFields DEF Named, IInv, Structure, TableGrows
  <1>2. ToSet(LibFuncs) = {LibFuncs[i] : i \in 1 .. Len(LibFuncs)}
    BY <1>1 DEF ToSet
  <1>3. ASSUME NEW i \in 1 .. Len(LibFuncs)
        PROVE  /\ i \in Lookup(sym_table, LibFuncs[i], GLOBAL_SCOPE)
               /\ sym_table[i].type = "LIB_FUNC"
    <2>1. i \in DOMAIN sym_table
      BY <1>1
    <2> QED
      BY <1>1, <2>1 DEF Named, LibFuncsStay, Lookup
  <1>4. ASSUME NEW i \in Lookup(sym_table, n, GLOBAL_SCOPE), sym_table[i].type = "LIB_FUNC"
        PROVE  i \in 1 .. Len(LibFuncs) /\ LibFuncs[i] = n
    <2>1. i \in DOMAIN sym_table /\ sym_table[i].name = n
      BY DEF Lookup
    <2>2. i \in 1 .. Len(LibFuncs)
      BY <1>1, <1>4, <2>1 DEF Named, LibFuncsStay
    <2> QED
      BY <1>1, <2>1, <2>2 DEF Named, LibFuncsStay
  <1> QED
    BY <1>2, <1>3, <1>4 DEF ShadowsLibFunc

(* Places of variables, and identities of functions.                       *)
LEMMA NextPlaceFree ==
  ASSUME Named, Room(1)
  PROVE  NextOffset(scp_handler) \in (0 .. MaxEntries) \ Env!Taken(Home, "body")
  <1> DEFINE off == NextOffset(scp_handler)
             depth == Len(func_handler)
             stack == scp_handler.ss_offset_stack
  <1>1. /\ off \in Nat /\ off = stack[depth + 1] /\ Len(stack) = depth + 1 /\ depth \in Nat
        /\ stack \in Seq(Nat)
    BY Here, HandlerFields DEF Named, IInv
  <1>2. off \in 0 .. MaxEntries
    <2>1. depth + 1 \in DOMAIN stack
      BY <1>1
    <2>2. off + Len(LibFuncs) <= Len(sym_table)
      BY <1>1, <2>1 DEF Named, OffsetsCount
    <2>3. /\ Len(LibFuncs) \in Nat /\ MaxEntries \in Nat /\ Len(sym_table) \in Nat
          /\ Len(sym_table) + 1 <= Len(LibFuncs) + MaxEntries
      BY LibFuncsFields, HandlerFields DEF Room, Named, IInv
    <2> HIDE DEF off
    <2> QED
      BY <1>1, <2>2, <2>3
  <1>3. ASSUME NEW i \in DOMAIN sym_table, IsVar(i), sym_table[i].home = Home,
               sym_table[i].ss # "FORMAL_ARGUMENTS_SS"
        PROVE  sym_table[i].offset # off
    <2>1. sym_table[i].offset \in Nat /\ sym_table[i].ss \in ScopeSpaces
      BY <1>3, EntryFields DEF Named, IInv
    <2>2. CASE depth = 0
      <3>1. Home = 0
        BY <2>2, Here DEF Named, IInv
      <3>2. sym_table[i].ss = "PROGRAM_SS"
        BY <1>3, <3>1 DEF Named, IInv, Structure, SpacesFit
      <3>3. sym_table[i].offset < Head(stack)
        BY <1>3, <3>2, EnoughInTotal DEF Named, IInv, Structure
      <3>4. Head(stack) = off
        BY <1>1, <2>2
      <3> HIDE DEF off
      <3> QED
        BY <1>1, <2>1, <3>3, <3>4
    <2>3. CASE depth # 0
      <3>1. Home = func_handler[depth] /\ Home \in DOMAIN sym_table /\ depth \in DOMAIN func_handler
        BY <1>1, <2>3, Here, HandlerFields DEF Named, IInv
      <3>2. Home # 0
        BY <3>1, HandlerFields DEF Named, IInv
      <3>3. sym_table[i].ss = "FUNCTION_LOCALS_SS"
        BY <1>3, <2>1, <3>2 DEF Named, IInv, Structure, SpacesFit, ScopeSpaces
      <3>4. sym_table[i].offset < TotalIn(sym_table, func_handler, stack, Home)
        BY <1>3, <3>3, EnoughInTotal DEF Named, IInv, Structure
      <3>5. \A j \in DOMAIN func_handler : func_handler[j] = func_handler[depth] => j = depth
        BY <3>1, FunctionsDiffer DEF Named, IInv, Structure
      <3>6. TotalIn(sym_table, func_handler, stack, func_handler[depth]) = stack[1 + depth]
        BY <3>1, <3>5, OpenTotals
      <3>7. 1 + depth = depth + 1
        BY <1>1
      <3> HIDE DEF off, depth, stack
      <3> QED
        BY <1>1, <2>1, <3>1, <3>4, <3>6, <3>7
    <2> QED
      BY <2>2, <2>3
  <1>4. off \notin Env!Taken(Home, "body")
    <2>1. SUFFICES ASSUME NEW k \in 1 .. Scope + 1, NEW n \in DOMAIN OpenScopes[k].names,
                          OpenScopes[k].names[n].is = "var",
                          OpenScopes[k].names[n].home = Home,
                          OpenScopes[k].names[n].in = "body"
                   PROVE  OpenScopes[k].names[n].slot # off
      BY EnvNow DEF Env!Taken
    <2>2. n \in Names /\ Lookup(sym_table, n, k - 1) # {}
      BY <2>1, EnvNow DEF Env!Declares
    <2>3. PICK i \in Lookup(sym_table, n, k - 1) : TRUE
      BY <2>2
    <2>4. k - 1 \in 0 .. Scope /\ (k - 1) + 1 = k
      BY OpenIsNat
    <2>5. i \in DOMAIN sym_table /\ OpenScopes[k].names[n] = BindingIn(sym_table, i)
      BY <2>2, <2>4, MeaningOf
    <2>6. BindingIn(sym_table, i).is = "var"
      BY <2>1, <2>5
    <2>7. IsVar(i)
      BY <2>6 DEF BindingIn, IsVar, IsFunc
    <2>8. BindingIn(sym_table, i)
            = [is |-> "var", home |-> sym_table[i].home, slot |-> sym_table[i].offset,
               in |-> IF sym_table[i].ss = "FORMAL_ARGUMENTS_SS" THEN "formals" ELSE "body"]
      BY <2>7 DEF BindingIn, IsVar, IsFunc
    <2>9. sym_table[i].home = Home /\ sym_table[i].ss # "FORMAL_ARGUMENTS_SS"
      BY <2>1, <2>5, <2>8
    <2>10. sym_table[i].offset # off
      BY <1>3, <2>5, <2>7, <2>9
    <2> HIDE DEF off
    <2> QED
      BY <2>5, <2>8, <2>10
  <1> QED
    BY <1>2, <1>4

-----------------------------------------------------------------------------
(* A new variable is what Env!Declare makes of the innermost scope. *)
LEMMA NewVarDeclares ==
  ASSUME Named, Room(1), NEW name \in Names, Lookup(sym_table, name, Scope) = {}, NewVar(name)
  PROVE  Env!Declare(name)
  <1> DEFINE N == Len(sym_table)
             n == N + 1
             off == NextOffset(scp_handler)
             b == BindingIn(sym_table', n)
  <1>1. /\ DOMAIN sym_table' = 1 .. n
        /\ \A i \in 1 .. N : sym_table'[i] = sym_table[i]
        /\ sym_table'[n] \in Entries
        /\ ~IsFunc(sym_table'[n])
        /\ sym_table'[n].scope = Scope
        /\ sym_table'[n].name = name
        /\ sym_table'[n].visible = TRUE
        /\ sym_table'[n].ss = CurrentSS(scp_handler)
        /\ sym_table'[n].offset = off
        /\ sym_table'[n].home = Home
        /\ scp_handler' = IncrOffset(scp_handler, 1)
        /\ found' = n
        /\ UNCHANGED <<open, outcome>>
    BY NewVarFields DEF Named
  <1>2. N \in Nat /\ DOMAIN sym_table = 1 .. N /\ n \in Nat /\ n # 0 /\ n \in 1 .. n
        /\ n \notin 1 .. N /\ (\A i \in 1 .. n : i = n \/ i \in 1 .. N) /\ 1 .. N \subseteq 1 .. n
    BY HandlerFields DEF Named, IInv
  <1>3. Scope' = Scope
    BY <1>1, IncrOffsetFields DEF Scope, Named, IInv
  <1>4. OnlyOnce(sym_table) /\ OnlyOnce(sym_table')
    <2>1. IInv'
      BY NewVarKeeps DEF Named
    <2>2. OneVisibleEntry'
      BY <2>1 DEF IInv
    <2>3. OnlyOnce(sym_table')
      BY <2>2, OnlyEntry DEF OneVisibleEntry, OnlyOnce
    <2> QED
      BY <2>3, EnvNow
  <1>5. b = Env!Var(Home, "body", off)
    <2>1. CurrentSS(scp_handler) # "FORMAL_ARGUMENTS_SS"
      BY Here DEF Named, IInv
    <2> HIDE DEF n, off
    <2> QED
      BY <1>1, <2>1 DEF BindingIn, IsFunc, Env!Var
  <1> HIDE DEF N, n, off
  <1>6. \A j \in 1 .. N : BindingIn(sym_table', j) = BindingIn(sym_table, j)
    BY <1>1, <1>2 DEF BindingIn
  <1>7. \A m, s : m # name \/ s # Scope => Lookup(sym_table', m, s) = Lookup(sym_table, m, s)
    BY <1>1, <1>2 DEF Lookup
  <1>8. Lookup(sym_table', name, Scope) = {n}
    BY <1>1, <1>2 DEF Lookup
  <1>9. \A m, s : Lookup(sym_table, m, s) \subseteq 1 .. N
    BY <1>2 DEF Lookup
  <1>10. ScopesIn(sym_table', open, Scope) = ScopesIn(sym_table, open, Scope)
    <2>1. ASSUME NEW k \in 1 .. Scope
          PROVE  ScopeAt(sym_table', open, k) = ScopeAt(sym_table, open, k)
      <3>1. k - 1 # Scope
        BY OpenIsNat
      <3>2. DeclaredIn(sym_table', k - 1) = DeclaredIn(sym_table, k - 1)
        BY <1>4, <1>6, <1>7, <1>9, <3>1, DeclaredSame
      <3> QED
        BY <3>2 DEF ScopeAt
    <2> QED
      BY <2>1, OpenIsNat, ScopesSame
  <1> DEFINE f == DeclaredIn(sym_table, Scope)
             g == DeclaredIn(sym_table', Scope)
  <1>11. g = With(f, name, b)
    <2>1. \A m \in Names \ {name} : Lookup(sym_table', m, Scope) = Lookup(sym_table, m, Scope)
      BY <1>7
    <2>2. \A m \in Names : \A j \in Lookup(sym_table, m, Scope) :
            BindingIn(sym_table', j) = BindingIn(sym_table, j)
      BY <1>6, <1>9
    <2> QED
      BY <1>4, <1>8, <2>1, <2>2, DeclaredMore
  <1> HIDE DEF b
  <1>12. ScopeAt(sym_table', open, Scope + 1) = [home |-> Home, names |-> g]
    BY OpenIsNat DEF ScopeAt
  <1> HIDE DEF f, g
  <1>13. OpenScopes' = Env!Bind(name, b)
    <2>1. OpenScopes' = ScopesIn(sym_table', open, Scope + 1)
      BY <1>1, <1>3, MappedScopes
    <2>2. @ = Append(ScopesIn(sym_table', open, Scope), ScopeAt(sym_table', open, Scope + 1))
      BY OpenIsNat, ScopesAppend
    <2>3. @ = Append(Front(OpenScopes), [home |-> Home, names |-> g])
      BY <1>10, <1>12, EnvNow
    <2>4. Env!Inner.names = f /\ Env!Here = Home
      BY EnvNow DEF f
    <2>5. Env!Bind(name, b) = Append(Front(OpenScopes), [home |-> Home, names |-> g])
      BY <1>11, <2>4 DEF With, Env!Bind, Env!Scope, Env!Front, Front
    <2> QED
      BY <2>1, <2>2, <2>3, <2>5
  <1>14. FoundMeaning' = b
    BY <1>1, <1>2, MappedScopes DEF b
  <1>15. off \in (0 .. MaxEntries) \ Env!Taken(Env!Here, "body")
    BY EnvNow, NextPlaceFree DEF off
  <1>16. Env!Here = Home
    BY EnvNow
  <1> QED
    BY <1>1, <1>5, <1>13, <1>14, <1>15, <1>16 DEF Env!Declare

(* Reading a name that a scope declares. *)
LEMMA ReferOnlyMeans ==
  ASSUME Named, NEW name \in Names, NEW s \in 0 .. Scope, Lookup(sym_table, name, s) # {},
         ReferToOnly(Lookup(sym_table, name, s))
  PROVE  /\ Env!Declares(s + 1, name)
         /\ Env!Means(OpenScopes[s + 1].names[name])
  <1>1. PICK i \in Lookup(sym_table, name, s) : TRUE
    OBVIOUS
  <1>2. /\ Env!Declares(s + 1, name)
        /\ OpenScopes[s + 1].names[name] = BindingIn(sym_table, i)
        /\ Lookup(sym_table, name, s) = {i}
        /\ i \in DOMAIN sym_table
    BY <1>1, MeaningOf
  <1>3. Cardinality({i}) = 1
    BY FS_Singleton
  <1>4. Max({i}) = i
    <2>1. i \in Nat /\ {i} \subseteq 0 .. i
      BY <1>2, HandlerFields DEF Named, IInv
    <2> QED
      BY <2>1, MaxOfBounded
  <1>5. Refer(i)
    BY <1>2, <1>3, <1>4 DEF ReferToOnly
  <1>6. Env!Means(BindingIn(sym_table, i))
    BY <1>2, <1>5, ReferMeans
  <1> QED
    BY <1>2, <1>6

LEMMA NothingToRead ==
  ASSUME Named, NEW name \in Names, NEW s \in 0 .. Scope, Lookup(sym_table, name, s) = {}
  PROVE  ~Env!Declares(s + 1, name)
  <1>1. s + 1 \in 1 .. Scope + 1 /\ (s + 1) - 1 = s
    BY OpenIsNat
  <1> QED
    BY <1>1, EnvNow

LEMMA LocalReads ==
  ASSUME Named, Parsing, Room(1), NEW name \in Names,
         IF Lookup(sym_table, name, Scope) # {}
         THEN ReferToOnly(Lookup(sym_table, name, Scope))
         ELSE IF name \in ToSet(LibFuncs) THEN Stop("syntax_error") ELSE NewVar(name)
  PROVE  Env!UseLocal(name)
  <1>1. Scope \in 0 .. Scope /\ Len(OpenScopes) = Scope + 1 /\ Env!Inner = OpenScopes[Scope + 1]
    BY OpenIsNat, EnvNow DEF Env!Inner
  <1>2. Env!Parsing
    BY DEF Parsing, Env!Parsing
  <1>3. CASE Lookup(sym_table, name, Scope) # {}
    <2>1. Env!Declares(Scope + 1, name) /\ Env!Means(OpenScopes[Scope + 1].names[name])
      BY <1>1, <1>3, ReferOnlyMeans
    <2> QED
      BY <1>1, <1>2, <2>1 DEF Env!UseLocal
  <1>4. CASE Lookup(sym_table, name, Scope) = {}
    <2>1. ~Env!Declares(Scope + 1, name)
      BY <1>1, <1>4, NothingToRead
    <2>2. CASE name \in ToSet(LibFuncs)
      <3>1. Env!Fails("syntax_error")
        BY <1>4, <2>2, StopFails
      <3> QED
        BY <1>1, <1>2, <2>1, <2>2, <3>1 DEF Env!UseLocal
    <2>3. CASE name \notin ToSet(LibFuncs)
      <3>1. Env!Declare(name)
        BY <1>4, <2>3, NewVarDeclares
      <3> QED
        BY <1>1, <1>2, <2>1, <2>3, <3>1 DEF Env!UseLocal
    <2> QED
      BY <2>2, <2>3
  <1> QED
    BY <1>3, <1>4

LEMMA LocalIdentifierImplements ==
  ASSUME Named, NEW id \in Ids, LocalIdentifier(id)
  PROVE  Env!UseLocal(id)
  <1>1. id \in Names
    BY DEF Names
  <1> QED
    BY <1>1, Shadowing, LocalReads DEF LocalIdentifier

(* A hidden variable has no library function's name. *)
LEMMA MakeNewImplements ==
  ASSUME Named, NEW n \in HiddenNumbers, MakeNew(n)
  PROVE  Env!UseLocal(HiddenId(n))
  <1>1. HiddenId(n) \in Names
    BY DEF Names
  <1>2. HiddenId(n) \notin Ids
    BY IdsAssumption
  <1>3. ToSet(LibFuncs) \subseteq Ids
    BY LibFuncsFields DEF ToSet
  <1>4. HiddenId(n) \notin ToSet(LibFuncs)
    BY <1>2, <1>3
  <1>5. /\ Parsing /\ Room(1)
        /\ Lookup(sym_table, HiddenId(n), Scope) = {} => NewVar(HiddenId(n))
        /\ Lookup(sym_table, HiddenId(n), Scope) # {}
             => ReferToOnly(Lookup(sym_table, HiddenId(n), Scope))
    BY DEF MakeNew
  <1> QED
    BY <1>1, <1>4, <1>5, LocalReads

LEMMA GlobalIdentifierImplements ==
  ASSUME Named, NEW id \in Ids, GlobalIdentifier(id)
  PROVE  Env!UseGlobal(id)
  <1>1. id \in Names /\ 0 \in 0 .. Scope
    BY OpenIsNat DEF Names
  <1>2. Env!Parsing
    BY DEF GlobalIdentifier, Parsing, Env!Parsing
  <1>3. CASE Lookup(sym_table, id, 0) = {}
    <2>1. Env!Fails("syntax_error")
      BY <1>3, StopFails DEF GlobalIdentifier, GLOBAL_SCOPE
    <2>2. ~Env!Declares(0 + 1, id)
      BY <1>1, <1>3, NothingToRead
    <2> QED
      BY <1>2, <2>1, <2>2 DEF Env!UseGlobal
  <1>4. CASE Lookup(sym_table, id, 0) # {}
    <2>1. ReferToOnly(Lookup(sym_table, id, 0))
      BY <1>4 DEF GlobalIdentifier, GLOBAL_SCOPE
    <2>2. Env!Declares(0 + 1, id) /\ Env!Means(OpenScopes[0 + 1].names[id])
      BY <1>1, <1>4, <2>1, ReferOnlyMeans
    <2> QED
      BY <1>2, <2>2 DEF Env!UseGlobal
  <1> QED
    BY <1>3, <1>4

-----------------------------------------------------------------------------
(* A scope above that of the innermost open function is in that function,  *)
(* and no other scope is: what Accessible compares.                        *)
LEMMA AboveActive ==
  ASSUME Named, NEW s \in 1 .. Scope
  PROVE  s > ActiveFunctionScope(scp_handler) <=> HomeOf(SubSeq(open, 1, s)) = Home
  <1> DEFINE depth == Len(func_handler)
             below == scp_handler.func_scope_stack
             active == ActiveFunctionScope(scp_handler)
             h == HomeOf(SubSeq(open, 1, s))
  <1>1. /\ open \in Seq(Nat) /\ Len(open) = Scope /\ Scope \in Nat
        /\ s \in Nat /\ s # 0 /\ s \in 0 .. Len(open) /\ depth \in Nat
        /\ below \in Seq(Nat) /\ Len(below) = depth
    BY OpenIsNat, HandlerFields DEF Named, IInv, Structure, HandlersInStep
  <1>2. HomeWithin(open, s, h)
    BY <1>1, HomeExists
  <1>3. CASE depth = 0
    <2>1. active = 0
      BY <1>1, <1>3 DEF ActiveFunctionScope, GLOBAL_SCOPE
    <2>2. Home = 0
      BY <1>3, Here DEF Named, IInv
    <2>3. \A j \in 1 .. Scope : open[j] = 0
      BY <2>2, OpenIsNat DEF HomeWithin
    <2>4. \A j \in 1 .. s : j \in 1 .. Scope
      BY <1>1
    <2>5. HomeWithin(open, s, 0)
      BY <2>3, <2>4 DEF HomeWithin
    <2>6. h = 0
      BY <1>1, <2>5, HomeIs
    <2> HIDE DEF h, active
    <2> QED
      BY <1>1, <2>1, <2>2, <2>6 DEF h, active
  <1>4. CASE depth # 0
    <2> DEFINE p == below[depth] + 1
    <2>1. active = below[depth]
      <3>1. below # << >> /\ Last(below) = below[depth]
        BY <1>1, <1>4 DEF Last
      <3> QED
        BY <3>1 DEF ActiveFunctionScope
    <2>2. /\ below \in [1 .. depth -> Nat]
          /\ \A j, k \in 1 .. depth : j < k => below[j] < below[k]
          /\ \A k \in 1 .. depth : /\ below[k] + 1 \in 1 .. Len(open)
                                  /\ open[below[k] + 1] = func_handler[k]
                                  /\ open[below[k] + 1] # 0
          /\ \A j \in 1 .. Len(open) : open[j] # 0 => \E k \in 1 .. depth : j = below[k] + 1
      BY InStep DEF Named, IInv, Structure
    <2>3. depth \in 1 .. depth /\ Home = func_handler[depth] /\ DOMAIN func_handler = 1 .. depth
      BY <1>1, <1>4, Here, HandlerFields DEF Named, IInv
    <2>4. below[depth] \in Nat /\ p \in 1 .. Len(open) /\ open[p] = Home /\ Home # 0
      BY <2>2, <2>3
    <2> HIDE DEF depth, below, p, active
    <2>5. \A k \in 1 .. depth : /\ below[k] \in Nat
                                /\ k = depth \/ below[k] < below[depth]
      BY <1>1, <2>2, <2>3
    <2>6. CASE s > active
      <3>1. p \in 1 .. s
        BY <1>1, <2>1, <2>4, <2>6 DEF p
      <3>2. ASSUME NEW m \in p + 1 .. s
            PROVE  open[m] = 0
        <4>1. m \in 1 .. Len(open) /\ m > p
          BY <1>1, <2>4
        <4>2. \A k \in 1 .. depth : m # below[k] + 1
          BY <2>4, <2>5, <4>1 DEF p
        <4> QED
          BY <2>2, <4>1, <4>2
      <3>3. HomeWithin(open, s, Home)
        BY <2>4, <3>1, <3>2 DEF HomeWithin
      <3> HIDE DEF h
      <3> QED
        BY <1>1, <2>6, <3>3, HomeIs DEF h, active
    <2>7. CASE ~(s > active)
      <3>1. ASSUME h = Home
            PROVE  FALSE
        <4>1. PICK j \in 1 .. s : open[j] = Home
          BY <1>2, <2>4, <3>1 DEF HomeWithin
        <4>2. j \in 1 .. Len(open) /\ j <= below[depth]
          BY <1>1, <2>1, <2>4, <2>7
        <4>3. PICK k \in 1 .. depth : j = below[k] + 1
          BY <2>2, <2>4, <4>1, <4>2
        <4>4. k # depth
          BY <2>4, <4>2, <4>3
        <4>5. func_handler[k] = func_handler[depth]
          BY <2>2, <2>3, <4>1, <4>3
        <4> QED
          BY <2>3, <4>4, <4>5, FunctionsDiffer DEF Named, IInv, Structure
      <3> QED
        BY <2>7, <3>1 DEF active, h
    <2> QED
      BY <2>6, <2>7
  <1> QED
    BY <1>3, <1>4

LEMMA VariableBinding ==
  ASSUME NEW i
  PROVE  IsFunc(sym_table[i]) <=> BindingIn(sym_table, i).is # "var"
  BY DEF IsFunc, BindingIn

LEMMA IdentifierImplements ==
  ASSUME Named, NEW id \in Ids, Identifier(id)
  PROVE  Env!Use(id)
  <1> DEFINE all_entries == RecursiveLookup(sym_table, id, Scope)
             scopes      == {sym_table[i].scope : i \in all_entries}
             key_scope   == Max(scopes)
             found_entry == Min(Lookup(sym_table, id, key_scope))
             known       == {i \in DOMAIN OpenScopes : Env!Declares(i, id)}
  <1>1. /\ Parsing /\ Room(1)
        /\ IF all_entries = {} THEN NewVar(id)
           ELSE IF Accessible(sym_table[found_entry], key_scope, ActiveFunctionScope(scp_handler))
                THEN Refer(found_entry) ELSE Stop("syntax_error")
    BY DEF Identifier
  <1>2. Scope \in Nat /\ id \in Names
    BY OpenIsNat DEF Names
  <1>3. Env!Parsing
    BY <1>1 DEF Parsing, Env!Parsing
  <1>4. known = {i \in 1 .. Scope + 1 : Lookup(sym_table, id, i - 1) # {}}
    BY <1>2, EnvNow
  <1>5. CASE all_entries = {}
    <2>1. \A s \in 0 .. Scope : Lookup(sym_table, id, s) = {}
      BY <1>5 DEF RecursiveLookup, GLOBAL_SCOPE
    <2>2. Scope \in 0 .. Scope /\ \A i \in 1 .. Scope + 1 : i - 1 \in 0 .. Scope
      BY <1>2
    <2>3. known = {}
      BY <1>4, <2>1, <2>2
    <2>4. NewVar(id) /\ Lookup(sym_table, id, Scope) = {}
      BY <1>1, <1>5, <2>1, <2>2
    <2>5. Env!Declare(id)
      BY <1>1, <1>2, <2>4, NewVarDeclares
    <2> QED
      BY <1>3, <2>3, <2>5 DEF Env!Use
  <1>6. CASE all_entries # {}
    <2>1. \A i \in all_entries : /\ i \in Lookup(sym_table, id, sym_table[i].scope)
                                 /\ sym_table[i].scope \in 0 .. Scope
      BY DEF RecursiveLookup, Lookup, GLOBAL_SCOPE
    <2>2. scopes \subseteq 0 .. Scope /\ scopes # {}
      BY <1>6, <2>1
    <2>3. \A s \in 0 .. Scope : Lookup(sym_table, id, s) # {} => s \in scopes
      <3>1. ASSUME NEW s \in 0 .. Scope, NEW i \in Lookup(sym_table, id, s)
            PROVE  i \in all_entries /\ sym_table[i].scope = s
        BY DEF RecursiveLookup, Lookup, GLOBAL_SCOPE
      <3> HIDE DEF all_entries
      <3> QED
        BY <3>1
    <2> HIDE DEF all_entries
    <2>4. key_scope \in scopes /\ \A s \in scopes : key_scope >= s
      <3> HIDE DEF scopes
      <3> QED
        BY <1>2, <2>2, MaxOfBounded
    <2>5. Lookup(sym_table, id, key_scope) # {} /\ key_scope \in 0 .. Scope
      BY <2>1, <2>2, <2>4
    <2> HIDE DEF key_scope, scopes
    <2>6. Lookup(sym_table, id, key_scope) \subseteq Nat
      BY HandlerFields DEF Lookup, Named, IInv
    <2>7. found_entry \in Lookup(sym_table, id, key_scope)
      BY <2>5, <2>6, MinOfNat
    <2> HIDE DEF found_entry
    <2>8. /\ key_scope + 1 \in 1 .. Scope + 1
          /\ OpenScopes[key_scope + 1].names[id] = BindingIn(sym_table, found_entry)
          /\ OpenScopes[key_scope + 1].home = HomeOf(SubSeq(open, 1, key_scope))
          /\ found_entry \in DOMAIN sym_table
      BY <1>2, <2>5, <2>7, MeaningOf
    <2>9. key_scope + 1 \in known /\ \A i \in known : key_scope + 1 >= i /\ i \in Nat
      <3>1. (key_scope + 1) - 1 = key_scope
        BY <1>2, <2>5
      <3>2. \A i \in 1 .. Scope + 1 : i - 1 \in 0 .. Scope /\ i = (i - 1) + 1
        BY <1>2
      <3>3. \A i \in known : i \in 1 .. Scope + 1 /\ i - 1 \in scopes
        BY <1>4, <2>3, <3>2
      <3>4. \A i \in known : key_scope >= i - 1
        BY <2>4, <3>3
      <3> HIDE DEF known
      <3>5. key_scope + 1 \in known
        BY <1>4, <2>5, <2>8, <3>1
      <3> QED
        BY <1>2, <2>5, <3>3, <3>4, <3>5
    <2> HIDE DEF known
    <2>10. Env!Max(known) = key_scope + 1
      <3>1. known \subseteq 0 .. key_scope + 1 /\ key_scope + 1 \in Nat /\ known # {}
        BY <1>2, <2>5, <2>9
      <3>2. Max(known) \in known /\ \A i \in known : Max(known) >= i
        BY <3>1, MaxOfBounded
      <3>3. Env!Max(known) = Max(known)
        BY DEF Env!Max, Max
      <3> DEFINE most == Max(known)
                 k == key_scope + 1
      <3>4. most \in Nat /\ k \in Nat /\ most >= k /\ k >= most
        BY <2>9, <3>1, <3>2
      <3> HIDE DEF most, k
      <3>5. most = k
        BY <3>4
      <3> QED
        BY <3>3, <3>5 DEF most, k
    <2> DEFINE in == Env!Max(known)
               b == OpenScopes[in].names[id]
    <2>11. Accessible(sym_table[found_entry], key_scope, ActiveFunctionScope(scp_handler))
             <=> (b.is # "var" \/ in = 1 \/ OpenScopes[in].home = Env!Here)
      <3>1. b = BindingIn(sym_table, found_entry) /\ Env!Here = Home
        BY <2>8, <2>10, EnvNow
      <3>2. IsFunc(sym_table[found_entry]) <=> b.is # "var"
        BY <3>1, VariableBinding
      <3>3. key_scope = GLOBAL_SCOPE <=> in = 1
        BY <2>5, <2>10 DEF GLOBAL_SCOPE
      <3>4. ASSUME key_scope # 0
            PROVE  key_scope > ActiveFunctionScope(scp_handler) <=> OpenScopes[in].home = Home
        <4>1. key_scope \in 1 .. Scope
          BY <1>2, <2>5, <3>4
        <4> QED
          BY <2>8, <2>10, <4>1, AboveActive
      <3> HIDE DEF b, in
      <3> QED
        BY <3>1, <3>2, <3>3, <3>4 DEF Accessible, GLOBAL_SCOPE
    <2>12. known # {}
      BY <2>9
    <2>13. CASE Accessible(sym_table[found_entry], key_scope, ActiveFunctionScope(scp_handler))
      <3>1. Refer(found_entry)
        BY <1>1, <1>6, <2>13 DEF found_entry, key_scope, scopes, all_entries
      <3>2. Env!Means(b)
        BY <2>8, <2>10, <3>1, ReferMeans
      <3> QED
        BY <1>3, <2>11, <2>12, <2>13, <3>2 DEF Env!Use, known
    <2>14. CASE ~Accessible(sym_table[found_entry], key_scope, ActiveFunctionScope(scp_handler))
      <3>1. Stop("syntax_error")
        BY <1>1, <1>6, <2>14 DEF found_entry, key_scope, scopes, all_entries
      <3>2. Env!Fails("syntax_error")
        BY <3>1, StopFails
      <3> QED
        BY <1>3, <2>11, <2>12, <2>14, <3>2 DEF Env!Use, known
    <2> QED
      BY <2>13, <2>14
  <1> QED
    BY <1>5, <1>6

-----------------------------------------------------------------------------
(* A block or a function begins: the parser's stack grows by x. *)
LEMMA OneMoreScope ==
  ASSUME Named, NEW table, NEW x \in Nat
  PROVE  ScopesIn(table, Append(open, x), Scope + 2)
           = Append(ScopesIn(table, open, Scope + 1),
                    [home |-> IF x = 0 THEN Home ELSE x, names |-> DeclaredIn(table, Scope + 1)])
  <1> DEFINE items == Append(open, x)
             h == IF x = 0 THEN Home ELSE x
             N == Scope + 1
  <1>1. /\ open \in Seq(Nat) /\ Len(open) = Scope /\ Scope \in Nat
        /\ HomeWithin(open, Scope, Home)
    BY OpenIsNat
  <1>2. /\ items \in Seq(Nat) /\ Len(items) = N /\ items[N] = x
        /\ \A j \in 1 .. Scope : items[j] = open[j]
    BY <1>1
  <1>3. N \in Nat /\ N + 1 = Scope + 2 /\ (N + 1) - 1 = N /\ N \in 0 .. N /\ N \in 1 .. N
        /\ \A j \in 1 .. N : j = N \/ j \in 1 .. Scope
    BY <1>1
  <1>4. HomeOf(SubSeq(items, 1, N)) = h
    <2>1. CASE x = 0
      <3>1. CASE Home = 0 /\ \A j \in 1 .. Scope : open[j] = 0
        <4>1. \A j \in 1 .. N : items[j] = 0
          BY <1>2, <1>3, <2>1, <3>1
        <4>2. HomeWithin(items, N, Home)
          BY <3>1, <4>1 DEF HomeWithin
        <4> HIDE DEF items, N
        <4> QED
          BY <1>2, <1>3, <2>1, <4>2, HomeIs
      <3>2. CASE Home # 0 /\ \E j \in 1 .. Scope : open[j] = Home /\ \A m \in j + 1 .. Scope : open[m] = 0
        <4>1. PICK j \in 1 .. Scope : open[j] = Home /\ \A m \in j + 1 .. Scope : open[m] = 0
          BY <3>2
        <4>2. \A m \in j + 1 .. N : \/ m = N
                                    \/ m \in j + 1 .. Scope /\ m \in 1 .. Scope
          BY <1>1
        <4>3. \A m \in j + 1 .. N : items[m] = 0
          BY <1>2, <2>1, <4>1, <4>2
        <4>4. j \in 1 .. N /\ items[j] = Home
          BY <1>1, <1>2, <4>1
        <4>5. HomeWithin(items, N, Home)
          BY <3>2, <4>3, <4>4 DEF HomeWithin
        <4> HIDE DEF items, N
        <4> QED
          BY <1>2, <1>3, <2>1, <4>5, HomeIs
      <3> QED
        BY <1>1, <3>1, <3>2 DEF HomeWithin
    <2>2. CASE x # 0
      <3>1. \A m \in N + 1 .. N : items[m] = 0
        BY <1>3
      <3>2. HomeWithin(items, N, x)
        BY <1>2, <1>3, <2>2, <3>1 DEF HomeWithin
      <3> HIDE DEF items, N
      <3> QED
        BY <1>2, <1>3, <2>2, <3>2, HomeIs
    <2> QED
      BY <2>1, <2>2
  <1>5. ASSUME NEW k \in 1 .. N
        PROVE  ScopeAt(table, items, k) = ScopeAt(table, open, k)
    <2>1. k - 1 \in 0 .. Len(open)
      BY <1>1
    <2>2. SubSeq(items, 1, k - 1) = SubSeq(open, 1, k - 1)
      BY <1>1, <2>1, SubAppend
    <2> HIDE DEF items
    <2> QED
      BY <2>2 DEF ScopeAt
  <1>6. ScopeAt(table, items, N + 1) = [home |-> h, names |-> DeclaredIn(table, N)]
    <2> HIDE DEF items, h, N
    <2> QED
      BY <1>3, <1>4 DEF ScopeAt
  <1> HIDE DEF items, h, N
  <1>7. ScopesIn(table, items, N) = ScopesIn(table, open, N)
    BY <1>3, <1>5, ScopesSame
  <1>8. ScopesIn(table, items, N + 1)
          = Append(ScopesIn(table, items, N), ScopeAt(table, items, N + 1))
    BY <1>3, ScopesAppend
  <1> QED
    BY <1>3, <1>6, <1>7, <1>8 DEF items, h, N

(* Nothing is visible of a scope that is not open yet. *)
LEMMA NothingAbove ==
  ASSUME Named, NEW n, NEW s \in Nat, s > Scope
  PROVE  Lookup(sym_table, n, s) = {}
  <1>1. ASSUME NEW i \in Lookup(sym_table, n, s)
        PROVE  FALSE
    <2>1. i \in DOMAIN sym_table /\ sym_table[i].visible /\ sym_table[i].scope = s
      BY DEF Lookup
    <2>2. s <= Scope
      BY <2>1 DEF Named, IInv, OneVisibleEntry
    <2> QED
      BY <2>2, OpenIsNat
  <1> QED
    BY <1>1

LEMMA BlockOpenImplements ==
  ASSUME Named, BlockOpen
  PROVE  Env!OpenBlock
  <1>1. /\ Parsing /\ sym_table' = sym_table /\ open' = Append(open, 0) /\ found' = 0
        /\ outcome' = outcome /\ scp_handler' = IncreaseScope(scp_handler)
    BY DEF BlockOpen
  <1>2. Scope' = Scope + 1 /\ Scope' + 1 = Scope + 2
    <2>1. scp_handler'.scope = scp_handler.scope + 1
      BY <1>1, HandlerFields DEF IncreaseScope, Named, IInv, TypeOK
    <2> QED
      BY <2>1, OpenIsNat DEF Scope
  <1>3. DeclaredIn(sym_table, Scope + 1) = << >>
    <2>1. Scope + 1 \in Nat /\ Scope + 1 > Scope
      BY OpenIsNat
    <2>2. \A n \in Names : Lookup(sym_table, n, Scope + 1) = {}
      BY <2>1, NothingAbove
    <2> QED
      BY <2>2, EnvNow, DeclaresNothing
  <1>4. OpenScopes' = Append(OpenScopes, Env!Scope(Env!Here, << >>))
    <2>1. OpenScopes' = ScopesIn(sym_table, Append(open, 0), Scope + 2)
      BY <1>1, <1>2, MappedScopes
    <2>2. @ = Append(ScopesIn(sym_table, open, Scope + 1), [home |-> Home, names |-> << >>])
      BY <1>3, OneMoreScope
    <2> QED
      BY <2>1, <2>2, EnvNow, MappedScopes DEF Env!Scope
  <1>5. FoundMeaning' = [is |-> "nothing"]
    BY <1>1, MappedScopes
  <1> QED
    BY <1>1, <1>4, <1>5 DEF Env!OpenBlock, Env!Becomes, Env!Nothing, Env!Parsing, Parsing

LEMMA LeavingCloses ==
  ASSUME Named, IInv', Parsing, open # << >>, open' = Front(open), Scope' = Scope - 1, found' = 0,
         outcome' = outcome, SameButHidden(sym_table')
  PROVE  Env!Close
  <1> DEFINE N == Len(sym_table)
  <1>1. N \in Nat /\ DOMAIN sym_table = 1 .. N /\ DOMAIN sym_table' = 1 .. N
    <2>1. DOMAIN sym_table' = 1 .. Len(sym_table')
      BY DEF IInv, TypeOK
    <2> QED
      BY <2>1, HandlerFields DEF SameButHidden, Named, IInv
  <1>2. /\ open \in Seq(Nat) /\ Len(open) = Scope /\ Scope \in Nat /\ Scope # 0
        /\ Scope' + 1 = Scope /\ Scope + 1 > 1
    BY OpenIsNat, EmptySeq
  <1>3. OnlyOnce(sym_table) /\ OnlyOnce(sym_table')
    <2>1. OneVisibleEntry'
      BY DEF IInv
    <2>2. OnlyOnce(sym_table')
      BY <2>1, OnlyEntry DEF OneVisibleEntry, OnlyOnce
    <2> QED
      BY <2>2, EnvNow
  <1>4. \A i \in 1 .. N : /\ sym_table'[i].scope = sym_table[i].scope
                          /\ sym_table'[i].name = sym_table[i].name
                          /\ sym_table'[i].visible <=> sym_table[i].visible /\ sym_table[i].scope # Scope
    BY DEF SameButHidden
  <1>5. \A i \in 1 .. N : BindingIn(sym_table', i) = BindingIn(sym_table, i)
    <2> TAKE i \in 1 .. N
    <2>1. /\ sym_table'[i].type = sym_table[i].type
          /\ ~IsFunc(sym_table[i]) => /\ sym_table'[i].ss = sym_table[i].ss
                                      /\ sym_table'[i].offset = sym_table[i].offset
                                      /\ sym_table'[i].home = sym_table[i].home
      BY DEF SameButHidden
    <2>2. CASE IsFunc(sym_table[i])
      BY <2>1, <2>2 DEF BindingIn, IsFunc
    <2>3. CASE ~IsFunc(sym_table[i])
      BY <2>1, <2>3 DEF BindingIn, IsFunc
    <2> QED
      BY <2>2, <2>3
  <1> HIDE DEF N
  <1>6. \A n, s : s # Scope => Lookup(sym_table', n, s) = Lookup(sym_table, n, s)
    BY <1>1, <1>4 DEF Lookup
  <1>7. \A n, s : Lookup(sym_table, n, s) \subseteq 1 .. N
    BY <1>1 DEF Lookup
  <1>8. ScopesIn(sym_table', open', Scope) = ScopesIn(sym_table, open, Scope)
    <2>1. ASSUME NEW k \in 1 .. Scope
          PROVE  ScopeAt(sym_table', open', k) = ScopeAt(sym_table, open, k)
      <3>1. k - 1 # Scope /\ k - 1 \in 0 .. Len(open) - 1
        BY <1>2
      <3>2. DeclaredIn(sym_table', k - 1) = DeclaredIn(sym_table, k - 1)
        BY <1>3, <1>5, <1>6, <1>7, <3>1, DeclaredSame
      <3>3. SubSeq(open', 1, k - 1) = SubSeq(open, 1, k - 1)
        BY <1>2, <3>1, SubFront
      <3> QED
        BY <3>2, <3>3 DEF ScopeAt
    <2> QED
      BY <1>2, <2>1, ScopesSame
  <1>9. OpenScopes' = Env!Front(OpenScopes)
    <2>1. OpenScopes' = ScopesIn(sym_table', open', Scope)
      BY <1>2, MappedScopes
    <2>2. OpenScopes' = Front(OpenScopes)
      BY <1>8, <2>1, EnvNow
    <2> QED
      BY <2>2 DEF Env!Front, Front
  <1>10. FoundMeaning' = [is |-> "nothing"]
    BY MappedScopes
  <1>11. Len(OpenScopes) > 1
    BY <1>2, EnvNow
  <1> QED
    BY <1>9, <1>10, <1>11 DEF Env!Close, Env!Becomes, Env!Nothing, Env!Parsing, Parsing

LEMMA CloseImplements ==
  ASSUME Named, BlockClose \/ FuncClose
  PROVE  Env!Close
  <1>1. IInv'
    BY NextKeeps DEF Named, Next
  <1>2. /\ Parsing /\ open # << >> /\ open' = Front(open) /\ found' = 0 /\ outcome' = outcome
    BY DEF BlockClose, FuncClose
  <1>3. SameButHidden(sym_table') /\ scp_handler'.scope = Scope - 1
    <2>1. CASE BlockClose
      <3>1. /\ sym_table' = Hide(sym_table, Scope)
            /\ scp_handler' = [scp_handler EXCEPT !.scope = Scope - 1]
        BY <2>1 DEF BlockClose, LeaveBlock, DecreaseScope, Scope
      <3>2. scp_handler'.scope = Scope - 1
        BY <3>1, HandlerFields DEF Named, IInv, TypeOK
      <3> QED
        BY <3>1, <3>2, HideFields DEF Named, IInv
    <2>2. CASE FuncClose
      BY <2>2, FuncCloseFields DEF Named
    <2> QED
      BY <2>1, <2>2
  <1>4. Scope' = Scope - 1
    BY <1>3 DEF Scope
  <1> QED
    BY <1>1, <1>2, <1>3, <1>4, LeavingCloses

LEMMA ReturnImplements ==
  ASSUME Named, ReturnStmt
  PROVE  Env!Return
  <1>1. CurrentSS(scp_handler) # "FUNCTION_LOCALS_SS" <=> Home = 0
    <2>1. Len(func_handler) # 0 => Home \in 1 .. Len(sym_table)
      BY Here, HandlerFields DEF Named, IInv
    <2> QED
      BY <2>1, Here DEF Named, IInv
  <1>2. CASE Home = 0
    <2>1. Env!Fails("syntax_error")
      BY <1>1, <1>2, StopFails DEF ReturnStmt
    <2> QED
      BY <1>2, <2>1, EnvNow DEF ReturnStmt, Env!Return, Env!Parsing, Parsing
  <1>3. CASE Home # 0
    <2>1. Env!Becomes(OpenScopes)
      BY <1>1, <1>3, ReferNothing DEF ReturnStmt
    <2> QED
      BY <1>3, <2>1, EnvNow DEF ReturnStmt, Env!Return, Env!Parsing, Parsing
  <1> QED
    BY <1>2, <1>3

LEMMA EndOfFileImplements ==
  ASSUME Named, EndOfFile
  PROVE  Env!Finish
  <1>1. Stop("compiled") /\ open = << >>
    BY EndOfFileStops DEF Named
  <1>2. Env!Fails("compiled")
    BY <1>1, StopFails
  <1>3. Len(OpenScopes) = 1
    BY <1>1, OpenIsNat, EnvNow
  <1> QED
    BY <1>2, <1>3 DEF EndOfFile, Parsing, Env!Finish, Env!Parsing

LEMMA InitImplements ==
  ASSUME Init
  PROVE  Env!Init
  <1> DEFINE L == Len(LibFuncs)
             f == DeclaredIn(sym_table, 0)
             g == [n \in ToSet(LibFuncs) |-> Env!LibFunc]
             D == {LibFuncs[i] : i \in 1 .. L}
  <1>1. Named
    BY NamedInit
  <1>2. Scope = 0 /\ Home = 0
    BY DEF Init, ScopeHandler, Scope, GLOBAL_SCOPE, Home
  <1>3. /\ DOMAIN sym_table = 1 .. L /\ DOMAIN LibFuncs = 1 .. L
        /\ \A i \in 1 .. L : sym_table[i] = LibEntry(LibFuncs[i]) /\ LibFuncs[i] \in Ids
    BY <1>1, LibFuncsFields, HandlerFields DEF Init, Named, IInv
  <1>4. \A i \in 1 .. L : /\ sym_table[i].name = LibFuncs[i]
                          /\ sym_table[i].scope = 0
                          /\ sym_table[i].visible
                          /\ BindingIn(sym_table, i) = Env!LibFunc
    BY <1>3 DEF LibEntry, FuncEntry, GLOBAL_SCOPE, BindingIn, Env!LibFunc
  <1>5. ToSet(LibFuncs) = D
    BY <1>3 DEF ToSet
  <1>6. \A i \in 1 .. L : i \in Lookup(sym_table, LibFuncs[i], 0)
    BY <1>3, <1>4 DEF Lookup
  <1>7. \A n, i : i \in Lookup(sym_table, n, 0) => i \in 1 .. L /\ LibFuncs[i] = n
    BY <1>3, <1>4 DEF Lookup
  <1> HIDE DEF L
  <1>8. f = g
    <2>1. IsDeclaration(f, sym_table, 0)
      BY <1>1, EnvNow, DeclaredFields
    <2> HIDE DEF f
    <2>2. DOMAIN f = {n \in Names : Lookup(sym_table, n, 0) # {}}
      BY <2>1 DEF IsDeclaration
    <2>3. DOMAIN f = D
      BY <1>3, <1>6, <1>7, <2>2 DEF Names
    <2>4. ASSUME NEW n \in D
          PROVE  f[n] = g[n]
      <3>1. PICK i \in 1 .. L : LibFuncs[i] = n
        OBVIOUS
      <3>2. i \in Lookup(sym_table, n, 0) /\ n \in Names
        BY <1>3, <1>6, <3>1 DEF Names
      <3>3. f[n] = Env!LibFunc
        BY <1>4, <2>1, <3>1, <3>2 DEF IsDeclaration
      <3> QED
        BY <1>5, <3>3
    <2>5. f = [n \in D |-> f[n]]
      BY <2>1, <2>3 DEF IsDeclaration
    <2>6. g = [n \in D |-> g[n]]
      BY <1>5
    <2> HIDE DEF g, D
    <2> QED
      BY <2>4, <2>5, <2>6, SameFunction
  <1>9. OpenScopes = <<Env!Scope(0, g)>>
    <2>1. OpenScopes = ScopesIn(sym_table, open, 0 + 1)
      BY <1>2, MappedScopes
    <2>2. @ = Append(ScopesIn(sym_table, open, 0), ScopeAt(sym_table, open, 0 + 1))
      BY ScopesAppend
    <2>3. ScopesIn(sym_table, open, 0) = << >>
      BY DEF ScopesIn
    <2>4. ScopeAt(sym_table, open, 0 + 1) = [home |-> 0, names |-> f]
      <3>1. HomeOf(SubSeq(open, 1, 0)) = 0
        BY <1>1, <1>2, OpenIsNat
      <3>2. (0 + 1) - 1 = 0
        OBVIOUS
      <3> HIDE DEF f
      <3> QED
        BY <3>1, <3>2 DEF ScopeAt, f
    <2> HIDE DEF f, g
    <2>5. Append(<< >>, [home |-> 0, names |-> g]) = <<[home |-> 0, names |-> g]>>
      OBVIOUS
    <2> QED
      BY <1>8, <2>1, <2>2, <2>3, <2>4, <2>5 DEF Env!Scope
  <1>10. FoundMeaning = [is |-> "nothing"]
    BY MappedScopes DEF Init
  <1> QED
    BY <1>9, <1>10 DEF Init, Env!Init, Env!Nothing

-----------------------------------------------------------------------------
(* The names that the parser makes up for functions are nobody else's. *)
LEMMA GenericIsNew ==
  ASSUME Named, NEW name, name = GenericId(Len(sym_table))
  PROVE  /\ name \notin Names /\ name \in GenericNames
         /\ NoName \notin Names
         /\ NoName \notin ToSet(LibFuncs)
         /\ Lookup(sym_table, name, Scope) = {}
         /\ ~ShadowsLibFunc(sym_table, name)
  <1>1. name \in GenericNames
    BY DEF Named, IInv, Structure, TableGrows, GenericNames
  <1>2. name \notin Ids /\ NoName \notin Ids
    BY <1>1, IdsAssumption
  <1>3. \A n \in HiddenNumbers : name # HiddenId(n) /\ NoName # HiddenId(n)
    BY DEF GenericId, HiddenId, NoName
  <1>4. name \notin Names /\ NoName \notin Names
    BY <1>2, <1>3 DEF Names
  <1>5. ToSet(LibFuncs) \subseteq Ids
    BY LibFuncsFields DEF ToSet
  <1>6. ASSUME NEW i \in Lookup(sym_table, name, Scope)
        PROVE  FALSE
    <2>1. i \in 1 .. Len(sym_table) /\ Len(sym_table) \in Nat /\ sym_table[i].name = name
      BY HandlerFields DEF Lookup, Named, IInv
    <2>2. GenericId(i - 1) = GenericId(Len(sym_table))
      BY <1>4, <2>1, HandlerFields DEF Named, GenericOwn, IInv
    <2>3. i - 1 = Len(sym_table)
      BY <2>2 DEF GenericId
    <2> QED
      BY <2>1, <2>3
  <1>7. ~ShadowsLibFunc(sym_table, name)
    BY <1>2, <1>5, Shadowing
  <1> QED
    BY <1>1, <1>2, <1>4, <1>5, <1>6, <1>7

(* The formals are what the scope of a function's body declares at first.  *)
FormalsFollow(table, n, s, ids) ==
  \A k \in 1 .. Len(ids) :
    table[n + k] = [scope |-> s, name |-> ids[k], visible |-> TRUE, type |-> "FORMAL_ARG",
                    ss |-> "FORMAL_ARGUMENTS_SS", offset |-> k - 1, home |-> n]

LEMMA FormalsDeclared ==
  ASSUME NEW table, OnlyOnce(table), NEW s, NEW n \in Nat, NEW ids \in Seq(Ids), IsInjective(ids),
         DOMAIN table = 1 .. n + Len(ids),
         \A i \in 1 .. n : table[i].scope # s \/ ~table[i].visible,
         FormalsFollow(table, n, s, ids)
  PROVE  [home |-> n, names |-> DeclaredIn(table, s)] = Env!Body(n, ids)
  <1> DEFINE m == Len(ids)
             D == {ids[k] : k \in 1 .. m}
             f == DeclaredIn(table, s)
             number(x) == CHOOSE k \in DOMAIN ids : ids[k] = x
             g == [x \in D |-> Env!Var(n, "formals", number(x) - 1)]
  <1>1. /\ m \in Nat /\ DOMAIN ids = 1 .. m /\ D \subseteq Ids
        /\ \A j, k \in 1 .. m : ids[j] = ids[k] => j = k
    BY DEF IsInjective
  <1>2. ASSUME NEW k \in 1 .. m
        PROVE  /\ n + k \in Lookup(table, ids[k], s)
               /\ BindingIn(table, n + k) = Env!Var(n, "formals", k - 1)
               /\ number(ids[k]) = k
    <2>1. n + k \in 1 .. n + m
      <3> HIDE DEF m
      <3> QED
        BY <1>1
    <2> DEFINE e == table[n + k]
    <2>6. /\ e.scope = s /\ e.name = ids[k] /\ e.visible /\ e.type = "FORMAL_ARG"
          /\ e.ss = "FORMAL_ARGUMENTS_SS" /\ e.offset = k - 1 /\ e.home = n
      <3>1. e = [scope |-> s, name |-> ids[k], visible |-> TRUE, type |-> "FORMAL_ARG",
                 ss |-> "FORMAL_ARGUMENTS_SS", offset |-> k - 1, home |-> n]
        BY DEF FormalsFollow
      <3> HIDE DEF e
      <3> QED
        BY <3>1
    <2>2. n + k \in Lookup(table, ids[k], s)
      BY <2>1, <2>6 DEF Lookup
    <2>3. BindingIn(table, n + k) = Env!Var(n, "formals", k - 1)
      BY <2>6 DEF BindingIn, Env!Var
    <2>4. k \in DOMAIN ids
      BY <1>1
    <2>5. number(ids[k]) \in DOMAIN ids /\ ids[number(ids[k])] = ids[k]
      BY <2>4
    <2> HIDE DEF number
    <2> QED
      BY <1>1, <2>2, <2>3, <2>5
  <1>3. ASSUME NEW x, NEW i \in Lookup(table, x, s)
        PROVE  x \in D
    <2>1. i \in 1 .. n + m /\ table[i].visible /\ table[i].scope = s /\ table[i].name = x
      BY DEF Lookup
    <2>2. i \notin 1 .. n
      BY <2>1
    <2>3. i - n \in 1 .. m /\ i = n + (i - n)
      <3> HIDE DEF m
      <3> QED
        BY <1>1, <2>1, <2>2
    <2>4. table[n + (i - n)].name = ids[i - n]
      BY <1>2, <2>3 DEF Lookup
    <2> QED
      BY <2>1, <2>3, <2>4
  <1>4. IsDeclaration(f, table, s)
    BY DeclaredFields
  <1> HIDE DEF f, number, m
  <1>5. DOMAIN f = D
    <2>1. \A x : x \in D <=> x \in Names /\ Lookup(table, x, s) # {}
      <3>1. \A x \in D : x \in Names /\ Lookup(table, x, s) # {}
        BY <1>1, <1>2 DEF Names
      <3> HIDE DEF D
      <3> QED
        BY <1>3, <3>1
    <2>2. DOMAIN f = {x \in Names : Lookup(table, x, s) # {}}
      BY <1>4 DEF IsDeclaration
    <2> HIDE DEF D
    <2> QED
      BY <2>1, <2>2
  <1>6. ASSUME NEW x \in D
        PROVE  f[x] = g[x]
    <2>1. PICK k \in 1 .. m : ids[k] = x
      OBVIOUS
    <2>2. n + k \in Lookup(table, x, s) /\ x \in Names
      BY <1>1, <1>2, <2>1 DEF Names
    <2>3. f[x] = BindingIn(table, n + k)
      BY <1>4, <2>2 DEF IsDeclaration
    <2>4. g[x] = Env!Var(n, "formals", number(x) - 1)
      OBVIOUS
    <2> HIDE DEF g
    <2> QED
      BY <1>2, <2>1, <2>3, <2>4
  <1>7. f = [x \in D |-> f[x]] /\ g = [x \in D |-> g[x]]
    <2>1. f = [x \in DOMAIN f |-> f[x]]
      BY <1>4 DEF IsDeclaration
    <2> QED
      BY <1>5, <2>1
  <1>8. Env!ToSet(ids) = D
    BY <1>1 DEF Env!ToSet, m
  <1>9. Env!Body(n, ids) = [home |-> n, names |-> g]
    BY <1>8 DEF Env!Body, Env!Scope, number
  <1> HIDE DEF g, D
  <1>10. f = g
    BY <1>6, <1>7, SameFunction
  <1> QED
    BY <1>9, <1>10 DEF f

(* The loop of idlist runs to its end for the functions that the language  *)
(* allows; n is the name that the source gives, or none.                   *)
LEMMA FuncOpenLegal ==
  ASSUME Named, NEW name, NEW n, NEW ids \in Seq(Ids),
         \/ name \in Ids /\ n = name
         \/ name = GenericId(Len(sym_table)) /\ n = NoName
  PROVE  (/\ Lookup(sym_table, name, Scope) = {}
          /\ ~ShadowsLibFunc(sym_table, name)
          /\ LegalFormals(ids))
         <=>
         (/\ ({n} \cup Env!ToSet(ids)) \cap ToSet(LibFuncs) = {}
          /\ ~Env!Declares(Len(OpenScopes), n)
          /\ Env!IsInjective(ids))
  <1>1. Env!ToSet(ids) = ToSet(ids) /\ (Env!IsInjective(ids) <=> IsInjective(ids))
    BY DEF Env!ToSet, ToSet, Env!IsInjective, IsInjective
  <1>2. LegalFormals(ids) <=> IsInjective(ids) /\ ToSet(ids) \cap ToSet(LibFuncs) = {}
    <2>1. \A id : Lookup(sym_table, id, Scope + 1) = {}
      <3>1. Scope + 1 \in Nat /\ Scope + 1 > Scope
        BY OpenIsNat
      <3> QED
        BY <3>1, NothingAbove
    <2>2. \A id : ShadowsLibFunc(sym_table, id) <=> id \in ToSet(LibFuncs)
      BY Shadowing
    <2> QED
      BY <2>1, <2>2 DEF LegalFormals
  <1>3. (Lookup(sym_table, name, Scope) = {} /\ ~ShadowsLibFunc(sym_table, name))
           <=> n \notin ToSet(LibFuncs) /\ ~Env!Declares(Len(OpenScopes), n)
    <2>1. Len(OpenScopes) = Scope + 1 /\ Scope \in 0 .. Scope
      BY OpenIsNat, EnvNow
    <2>2. CASE name \in Ids /\ n = name
      <3>1. name \in Names
        BY <2>2 DEF Names
      <3>2. Env!Declares(Scope + 1, name) <=> Lookup(sym_table, name, Scope) # {}
        <4>1. CASE Lookup(sym_table, name, Scope) = {}
          BY <2>1, <3>1, <4>1, NothingToRead
        <4>2. CASE Lookup(sym_table, name, Scope) # {}
          <5>1. PICK i \in Lookup(sym_table, name, Scope) : TRUE
            BY <4>2
          <5> QED
            BY <2>1, <3>1, <4>2, <5>1, MeaningOf
        <4> QED
          BY <4>1, <4>2
      <3> QED
        BY <2>1, <2>2, <3>2, Shadowing
    <2>3. CASE name = GenericId(Len(sym_table)) /\ n = NoName
      <3>1. /\ NoName \notin Names /\ NoName \notin ToSet(LibFuncs)
            /\ Lookup(sym_table, name, Scope) = {} /\ ~ShadowsLibFunc(sym_table, name)
        BY <2>3, GenericIsNew
      <3>2. ~Env!Declares(Scope + 1, NoName)
        <4>1. Scope + 1 \in 1 .. Scope + 1
          BY OpenIsNat
        <4> QED
          BY <3>1, <4>1, EnvNow
      <3> QED
        BY <2>1, <2>3, <3>1, <3>2
    <2> QED
      BY <2>2, <2>3
  <1> QED
    BY <1>1, <1>2, <1>3

(* Open functions have entries that were there before. *)
LEMMA HomesAreOld ==
  ASSUME Named, NEW k \in 1 .. Scope + 1
  PROVE  OpenScopes[k].home \in 0 .. Len(sym_table)
  <1>1. /\ open \in Seq(Nat) /\ Len(open) = Scope /\ Scope \in Nat
        /\ k - 1 \in 0 .. Len(open)
    BY OpenIsNat
  <1>2. OpenScopes[k].home = HomeOf(SubSeq(open, 1, k - 1))
    BY EnvNow DEF ScopeAt
  <1>3. HomeWithin(open, k - 1, OpenScopes[k].home)
    BY <1>1, <1>2, HomeExists
  <1>4. Len(sym_table) \in Nat /\ \A j \in 1 .. Scope : open[j] \in 0 .. Len(sym_table)
    <2>1. Len(sym_table) \in Nat /\ {0} \cup DOMAIN sym_table = 0 .. Len(sym_table)
      BY HandlerFields DEF Named, IInv
    <2>2. open \in Seq({0} \cup DOMAIN sym_table)
      BY HandlerFields DEF Named, IInv
    <2> QED
      BY <1>1, <2>1, <2>2
  <1>5. \A j \in 1 .. k - 1 : j \in 1 .. Scope
    BY <1>1
  <1> QED
    BY <1>3, <1>4, <1>5 DEF HomeWithin

LEMMA FuncOpenImplements ==
  ASSUME Named, NEW name, NEW n, NEW ids \in IdLists, FuncOpen(name, ids),
         \/ name \in Ids /\ n = name
         \/ name = GenericId(Len(sym_table)) /\ n = NoName
  PROVE  Env!OpenFunction(n, ids)
  <1> DEFINE N == Len(sym_table)
             h == N + 1
             m == Len(ids)
             legal == /\ ({n} \cup Env!ToSet(ids)) \cap ToSet(LibFuncs) = {}
                      /\ ~Env!Declares(Len(OpenScopes), n)
                      /\ Env!IsInjective(ids)
  <1>1. ids \in Seq(Ids) /\ name \in Names \cup GenericNames
    BY GenericIsNew DEF IdLists, Names
  <1>2. legal <=> /\ Lookup(sym_table, name, Scope) = {}
                  /\ ~ShadowsLibFunc(sym_table, name)
                  /\ LegalFormals(ids)
    BY <1>1, FuncOpenLegal
  <1>3. Env!Parsing
    BY DEF FuncOpen, Parsing, Env!Parsing
  <1>4. CASE ~legal
    <2>1. Stop("syntax_error")
      BY <1>2, <1>4 DEF FuncOpen
    <2>2. Env!Fails("syntax_error")
      BY <2>1, StopFails
    <2> QED
      BY <1>3, <1>4, <2>2 DEF Env!OpenFunction
  <1>5. CASE legal
    <2>1. /\ DOMAIN sym_table' = 1 .. h + m
          /\ \A i \in 1 .. N : sym_table'[i] = sym_table[i]
          /\ sym_table'[h] = FuncEntry(Scope, name, "USER_FUNC")
          /\ \A k \in 1 .. m : sym_table'[h + k] = FormalEntry(ids[k], k, h)
          /\ scp_handler'.scope = Scope + 1
          /\ open' = Append(open, h)
          /\ found' = 0
      BY <1>1, <1>2, <1>5, FuncOpenFields DEF Named
    <2>2. /\ N \in Nat /\ DOMAIN sym_table = 1 .. N /\ h \in Nat /\ h # 0 /\ m \in Nat
          /\ Scope \in Nat
      BY <1>1, HandlerFields DEF Named, IInv
    <2>3. Scope' = Scope + 1 /\ Scope' + 1 = Scope + 2
      BY <2>1, <2>2 DEF Scope
    <2>4. OnlyOnce(sym_table) /\ OnlyOnce(sym_table')
      <3>1. OneVisibleEntry'
        BY <1>1, FunctionKeeps DEF Named, IInv
      <3>2. OnlyOnce(sym_table')
        BY <3>1, OnlyEntry DEF OneVisibleEntry, OnlyOnce
      <3> QED
        BY <3>2, EnvNow
    <2>5. \A k \in 1 .. m :
            sym_table'[h + k] = [scope |-> Scope + 1, name |-> ids[k], visible |-> TRUE,
                                 type |-> "FORMAL_ARG", ss |-> "FORMAL_ARGUMENTS_SS",
                                 offset |-> k - 1, home |-> h]
      <3> TAKE k \in 1 .. m
      <3>1. k \in Nat \ {0} /\ h \in Nat /\ ids[k] \in Ids /\ TypeOK
        BY <1>1, <2>2 DEF Named, IInv
      <3> HIDE DEF h, m
      <3> QED
        BY <2>1, <3>1, FormalFields
    <2>6. /\ sym_table'[h].scope = Scope /\ sym_table'[h].name = name /\ sym_table'[h].visible
          /\ BindingIn(sym_table', h) = Env!Func(h)
      BY <2>1 DEF FuncEntry, BindingIn, Env!Func
    <2>7. /\ \A k \in 1 .. m : /\ sym_table'[h + k].scope = Scope + 1
                               /\ h + k \notin 1 .. N
          /\ \A i \in 1 .. h + m : i \in 1 .. N \/ i = h \/ \E k \in 1 .. m : i = h + k
          /\ 1 .. N \subseteq 1 .. h + m /\ h \in 1 .. h + m /\ h \notin 1 .. N
          /\ \A i \in 1 .. h : i \in 1 .. N \/ i = h
      <3>1. ASSUME NEW k \in 1 .. m
            PROVE  sym_table'[h + k].scope = Scope + 1
        <4>1. sym_table'[h + k] = [scope |-> Scope + 1, name |-> ids[k], visible |-> TRUE,
                                   type |-> "FORMAL_ARG", ss |-> "FORMAL_ARGUMENTS_SS",
                                   offset |-> k - 1, home |-> h]
          BY <2>5
        <4> DEFINE e == sym_table'[h + k]
        <4> HIDE DEF e, h
        <4> QED
          BY <4>1 DEF e
      <3>2. ASSUME NEW i \in 1 .. h + m, i \notin 1 .. N, i # h
            PROVE  i - h \in 1 .. m /\ i = h + (i - h)
        <4> HIDE DEF N, m
        <4> QED
          BY <2>2, <3>2
      <3>3. /\ \A k \in 1 .. m : h + k \notin 1 .. N
            /\ 1 .. N \subseteq 1 .. h + m /\ h \in 1 .. h + m /\ h \notin 1 .. N
            /\ \A i \in 1 .. h : i \in 1 .. N \/ i = h
        <4> HIDE DEF N, m
        <4> QED
          BY <2>2
      <3> HIDE DEF N, m, h
      <3> QED
        BY <3>1, <3>2, <3>3
    <2> HIDE DEF N, m, h, legal
    <2>8. \A i \in 1 .. N : BindingIn(sym_table', i) = BindingIn(sym_table, i)
      BY <2>1 DEF BindingIn
    <2>9. \A x, s : Lookup(sym_table, x, s) \subseteq 1 .. N
      BY <2>2 DEF Lookup
    <2>10. \A x, s : /\ s # Scope + 1
                     /\ s # Scope \/ x # name
                     => Lookup(sym_table', x, s) = Lookup(sym_table, x, s)
      <3> TAKE x, s
      <3> HAVE s # Scope + 1 /\ (s # Scope \/ x # name)
      <3>1. ASSUME NEW i \in Lookup(sym_table', x, s)
            PROVE  i \in Lookup(sym_table, x, s)
        <4>1. /\ i \in 1 .. h + m /\ sym_table'[i].name = x /\ sym_table'[i].scope = s
              /\ sym_table'[i].visible
          BY <2>1 DEF Lookup
        <4>2. i \in 1 .. N
          BY <2>6, <2>7, <4>1
        <4> QED
          BY <2>1, <2>2, <4>1, <4>2 DEF Lookup
      <3>2. ASSUME NEW i \in Lookup(sym_table, x, s)
            PROVE  i \in Lookup(sym_table', x, s)
        <4>1. /\ i \in 1 .. N /\ sym_table[i].name = x /\ sym_table[i].scope = s
              /\ sym_table[i].visible
          BY <2>2 DEF Lookup
        <4> QED
          BY <2>1, <2>7, <4>1 DEF Lookup
      <3> QED
        BY <3>1, <3>2
    <2>11. Lookup(sym_table', name, Scope) = {h}
      <3>1. h \in Lookup(sym_table', name, Scope)
        BY <2>1, <2>6, <2>7 DEF Lookup
      <3>2. ASSUME NEW i \in Lookup(sym_table', name, Scope)
            PROVE  i = h
        <4>1. /\ i \in DOMAIN sym_table' /\ sym_table'[i].visible
              /\ sym_table'[i].name = name /\ sym_table'[i].scope = Scope
          BY DEF Lookup
        <4>2. h \in DOMAIN sym_table'
          BY <2>1, <2>7
        <4> QED
          BY <2>4, <2>6, <4>1, <4>2 DEF OnlyOnce
      <3> QED
        BY <3>1, <3>2
    <2>12. ScopesIn(sym_table', open, Scope) = ScopesIn(sym_table, open, Scope)
      <3>1. ASSUME NEW k \in 1 .. Scope
            PROVE  ScopeAt(sym_table', open, k) = ScopeAt(sym_table, open, k)
        <4>1. k - 1 # Scope /\ k - 1 # Scope + 1
          BY <2>2
        <4>2. DeclaredIn(sym_table', k - 1) = DeclaredIn(sym_table, k - 1)
          BY <2>4, <2>8, <2>9, <2>10, <4>1, DeclaredSame
        <4> QED
          BY <4>2 DEF ScopeAt
      <3> QED
        BY <2>2, <3>1, ScopesSame
    <2>13. ScopesIn(sym_table', open, Scope + 1)
             = Append(Front(OpenScopes), [home |-> Home, names |-> DeclaredIn(sym_table', Scope)])
      <3>1. ScopeAt(sym_table', open, Scope + 1)
              = [home |-> Home, names |-> DeclaredIn(sym_table', Scope)]
        BY OpenIsNat DEF ScopeAt
      <3>2. ScopesIn(sym_table', open, Scope + 1)
              = Append(ScopesIn(sym_table', open, Scope), ScopeAt(sym_table', open, Scope + 1))
        BY <2>2, ScopesAppend
      <3> QED
        BY <2>12, <3>1, <3>2, EnvNow
    <2> DEFINE outer == IF n = NoName THEN OpenScopes ELSE Env!Bind(n, Env!Func(h))
    <2>14. ScopesIn(sym_table', open, Scope + 1) = outer
      <3>1. CASE name \in Ids /\ n = name
        <4>1. name \in Names /\ n # NoName
          BY <3>1, IdsAssumption DEF Names
        <4>2. \A x \in Names \ {name} : Lookup(sym_table', x, Scope) = Lookup(sym_table, x, Scope)
          BY <2>2, <2>10
        <4>3. \A x \in Names : \A j \in Lookup(sym_table, x, Scope) :
                BindingIn(sym_table', j) = BindingIn(sym_table, j)
          BY <2>8, <2>9
        <4>4. DeclaredIn(sym_table', Scope)
                = With(DeclaredIn(sym_table, Scope), name, BindingIn(sym_table', h))
          BY <2>4, <2>11, <4>1, <4>2, <4>3, DeclaredMore
        <4>5. Env!Inner.names = DeclaredIn(sym_table, Scope) /\ Env!Here = Home
          BY EnvNow
        <4>6. Env!Bind(n, Env!Func(h))
                = Append(Front(OpenScopes), [home |-> Home, names |-> DeclaredIn(sym_table', Scope)])
          BY <2>6, <3>1, <4>4, <4>5 DEF With, Env!Bind, Env!Scope, Env!Front, Front
        <4> QED
          BY <2>13, <4>1, <4>6
      <3>2. CASE name = GenericId(Len(sym_table)) /\ n = NoName
        <4>1. name \notin Names
          BY <3>2, GenericIsNew
        <4>2. \A x \in Names : Lookup(sym_table', x, Scope) = Lookup(sym_table, x, Scope)
          BY <2>2, <2>10, <4>1
        <4>3. \A x \in Names : \A j \in Lookup(sym_table, x, Scope) :
                BindingIn(sym_table', j) = BindingIn(sym_table, j)
          BY <2>8, <2>9
        <4>4. DeclaredIn(sym_table', Scope) = DeclaredIn(sym_table, Scope)
          BY <2>4, <4>2, <4>3, DeclaredSame
        <4>5. ScopesIn(sym_table, open, Scope + 1)
                = Append(ScopesIn(sym_table, open, Scope), ScopeAt(sym_table, open, Scope + 1))
          BY <2>2, ScopesAppend
        <4>6. ScopeAt(sym_table, open, Scope + 1)
                = [home |-> Home, names |-> DeclaredIn(sym_table, Scope)]
          BY OpenIsNat DEF ScopeAt
        <4>7. ScopesIn(sym_table', open, Scope + 1) = OpenScopes
          BY <2>13, <4>4, <4>5, <4>6, EnvNow, MappedScopes
        <4> QED
          BY <3>2, <4>7
      <3> QED
        BY <3>1, <3>2
    <2>15. [home |-> h, names |-> DeclaredIn(sym_table', Scope + 1)] = Env!Body(h, ids)
      <3>1. \A i \in 1 .. h : sym_table'[i].scope # Scope + 1 \/ ~sym_table'[i].visible
        <4>1. ASSUME NEW i \in 1 .. N
              PROVE  sym_table[i].scope # Scope + 1 \/ ~sym_table[i].visible
          <5>1. Lookup(sym_table, sym_table[i].name, Scope + 1) = {}
            BY <2>2, NothingAbove
          <5> QED
            BY <2>2, <5>1 DEF Lookup
        <4>2. Scope # Scope + 1
          BY <2>2
        <4> QED
          BY <2>1, <2>6, <2>7, <4>1, <4>2
      <3>2. IsInjective(ids)
        BY <1>5 DEF legal, Env!IsInjective, IsInjective
      <3>3. FormalsFollow(sym_table', h, Scope + 1, ids)
        BY <2>5 DEF FormalsFollow, m
      <3>4. DOMAIN sym_table' = 1 .. h + Len(ids)
        BY <2>1 DEF m
      <3> QED
        BY <1>1, <2>2, <2>4, <3>1, <3>2, <3>3, <3>4, FormalsDeclared
    <2>16. OpenScopes' = Append(outer, Env!Body(h, ids))
      <3>1. OpenScopes' = ScopesIn(sym_table', Append(open, h), Scope + 2)
        BY <2>1, <2>3, MappedScopes
      <3>2. @ = Append(ScopesIn(sym_table', open, Scope + 1),
                       [home |-> h, names |-> DeclaredIn(sym_table', Scope + 1)])
        BY <2>2, OneMoreScope
      <3> HIDE DEF outer
      <3> QED
        BY <2>14, <2>15, <3>1, <3>2
    <2>17. FoundMeaning' = [is |-> "nothing"] /\ outcome' = outcome
      BY <1>2, <1>5, <2>1, MappedScopes DEF FuncOpen
    <2>18. h \in 1 .. Len(LibFuncs) + MaxEntries
      <3>1. N + (1 + m) <= Len(LibFuncs) + MaxEntries
        BY DEF FuncOpen, Room, N, m
      <3> QED
        BY <2>2, <3>1, LibFuncsFields DEF h
    <2>19. \A k \in DOMAIN OpenScopes : OpenScopes[k].home # h
      BY <2>2, EnvNow, HomesAreOld DEF h, N
    <2>20. Env!Becomes(Append(outer, Env!Body(h, ids)))
      BY <2>16, <2>17 DEF Env!Becomes, Env!Nothing
    <2> QED
      BY <1>3, <1>5, <2>18, <2>19, <2>20 DEF Env!OpenFunction, legal
  <1> QED
    BY <1>4, <1>5

-----------------------------------------------------------------------------
(* What NamesMeanTheInnermost says of a step. *)
HandlersImplement ==
  /\ \A id \in Ids : /\ Identifier(id) => Env!Use(id)
                     /\ LocalIdentifier(id) => Env!UseLocal(id)
                     /\ GlobalIdentifier(id) => Env!UseGlobal(id)
  /\ \A n \in HiddenNumbers : MakeNew(n) => Env!UseLocal(HiddenId(n))
  /\ \A ids \in IdLists :
       /\ \A id \in Ids : FuncOpen(id, ids) => Env!OpenFunction(id, ids)
       /\ FuncOpen(GenericId(Len(sym_table)), ids) => Env!OpenFunction(NoName, ids)
  /\ BlockOpen => Env!OpenBlock
  /\ BlockClose \/ FuncClose => Env!Close
  /\ ReturnStmt => Env!Return
  /\ EndOfFile => Env!Finish

LEMMA EachImplements ==
  ASSUME Named
  PROVE  HandlersImplement
  <1>1. ASSUME NEW ids \in IdLists
        PROVE  /\ \A id \in Ids : FuncOpen(id, ids) => Env!OpenFunction(id, ids)
               /\ FuncOpen(GenericId(Len(sym_table)), ids) => Env!OpenFunction(NoName, ids)
    BY FuncOpenImplements
  <1> QED
    BY <1>1, IdentifierImplements, LocalIdentifierImplements, GlobalIdentifierImplements,
       MakeNewImplements, BlockOpenImplements, CloseImplements, ReturnImplements,
       EndOfFileImplements DEF HandlersImplement

(* The names of a program mean what the rules of the language say, for     *)
(* every set of identifiers and programs of every size: each handler       *)
(* implements the rule for the piece of source that it handles.            *)
THEOREM NamesImplementEnvironments == Spec => NamesMeanTheInnermost
  <1>1. Init => Named /\ Env!Init
    BY NamedInit, InitImplements
  <1>2. Named /\ [Next]_vars => Named'
    BY NamedNext
  <1>3. Named => HandlersImplement
    BY EachImplements
  <1>4. Spec => Env!Init /\ [][HandlersImplement]_vars
    BY <1>1, <1>2, <1>3, PTL DEF Spec
  <1> QED
    BY <1>4 DEF NamesMeanTheInnermost, HandlersImplement

LEMMA StepImplements ==
  ASSUME Named, [Next]_vars
  PROVE  [Env!Next]_(Env!evars)
  <1>1. HandlersImplement
    BY EachImplements
  <1>2. Ids \subseteq Names /\ \A n \in HiddenNumbers : HiddenId(n) \in Names
    BY DEF Names
  <1>3. CASE UNCHANGED vars
    <2>1. sym_table' = sym_table /\ open' = open /\ found' = found /\ outcome' = outcome
          /\ Scope' = Scope
      BY <1>3 DEF vars, Scope
    <2>2. OpenScopes' = OpenScopes /\ FoundMeaning' = FoundMeaning
      BY <2>1, MappedScopes
    <2> QED
      BY <2>1, <2>2 DEF Env!evars
  <1>4. CASE Next
    <2>1. ASSUME NEW id \in Ids, Identifier(id) \/ LocalIdentifier(id) \/ GlobalIdentifier(id)
          PROVE  Env!Next
      <3>1. Env!Use(id) \/ Env!UseLocal(id) \/ Env!UseGlobal(id)
        BY <1>1, <2>1 DEF HandlersImplement
      <3> QED
        BY <1>2, <3>1 DEF Env!Next
    <2>2. ASSUME NEW n \in HiddenNumbers, MakeNew(n)
          PROVE  Env!Next
      <3>1. Env!UseLocal(HiddenId(n))
        BY <1>1, <2>2 DEF HandlersImplement
      <3> QED
        BY <1>2, <3>1 DEF Env!Next
    <2>3. ASSUME NEW ids \in IdLists, NEW id \in Ids, FuncOpen(id, ids)
          PROVE  Env!Next
      <3>1. Env!OpenFunction(id, ids)
        BY <1>1, <2>3 DEF HandlersImplement
      <3> QED
        BY <1>2, <3>1 DEF Env!Next
    <2>4. ASSUME NEW ids \in IdLists, FuncOpen(GenericId(Len(sym_table)), ids)
          PROVE  Env!Next
      <3>1. Env!OpenFunction(NoName, ids)
        BY <1>1, <2>4 DEF HandlersImplement
      <3> QED
        BY <3>1 DEF Env!Next
    <2>5. ASSUME BlockOpen \/ BlockClose \/ FuncClose \/ ReturnStmt \/ EndOfFile
          PROVE  Env!Next
      BY <1>1, <2>5 DEF HandlersImplement, Env!Next
    <2> QED
      BY <1>4, <2>1, <2>2, <2>3, <2>4, <2>5 DEF Next
  <1> QED
    BY <1>3, <1>4

(* The parser implements lexical environments: whatever it does to the     *)
(* symbol table and the handlers of scopes and functions, what its names   *)
(* mean changes only as the rules of the language allow.                   *)
THEOREM ScopesImplementEnvironments == Spec => Env!Spec
  <1>1. Init => Named /\ Env!Init
    BY NamedInit, InitImplements
  <1>2. Named /\ [Next]_vars => Named'
    BY NamedNext
  <1>3. Named /\ [Next]_vars => [Env!Next]_(Env!evars)
    BY StepImplements
  <1> QED
    BY <1>1, <1>2, <1>3, PTL DEF Spec, Env!Spec
=============================================================================
