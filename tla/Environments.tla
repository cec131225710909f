---------------------------- MODULE Environments ----------------------------
(***************************************************************************)
(* What names mean in an alpha program, without a symbol table: open       *)
(* blocks and functions, each with the names declared in it.  A name means *)
(* the innermost declaration; a variable of an enclosing function may not  *)
(* be used, nor, inside a function, one of a block of the program.         *)
(***************************************************************************)
EXTENDS Naturals, FiniteSetsExt, SequencesExt

CONSTANTS
  Names,    \* all names of variables and functions
  None,     \* for a function without a name
  IdLists,  \* the lists of formal arguments that a program may write
  LibFuncs, \* the names of the library functions
  Homes,    \* identities of functions; 0, the program's, is not among them
  Slots     \* places for the variables of one function

VARIABLES
  scopes,  \* the open blocks and functions, innermost last
  meaning, \* what the name that was read last means
  status   \* "parsing", "compiled" or an error

evars == <<scopes, meaning, status>>

Nothing             == [is |-> "nothing"]
LibFunc             == [is |-> "libfunc"]
Func(home)          == [is |-> "func", home |-> home]
Var(home, in, slot) == [is |-> "var", home |-> home, in |-> in, slot |-> slot]

Scope(home, names) == [home |-> home, names |-> names]

Inner          == scopes[Len(scopes)]
Here           == Inner.home
Declares(i, n) == n \in DOMAIN scopes[i].names

(* The innermost scope declares n, in addition to what it declares or in   *)
(* its place.                                                              *)
Bind(n, b) ==
  LET names == [m \in DOMAIN Inner.names \cup {n} |-> IF m = n THEN b ELSE Inner.names[m]]
  IN  Append(Front(scopes), Scope(Here, names))

Parsing == status = "parsing"

Means(b)      == meaning' = b /\ UNCHANGED <<scopes, status>>
Becomes(s)    == scopes' = s /\ meaning' = Nothing /\ UNCHANGED status
Fails(error)  == status' = error /\ meaning' = Nothing /\ UNCHANGED scopes

(* The variables in use share no place. *)
Taken(home, in) ==
  LET its(names) == {n \in DOMAIN names : /\ names[n].is = "var"
                                          /\ names[n].home = home
                                          /\ names[n].in = in}
  IN  UNION {{scopes[i].names[n].slot : n \in its(scopes[i].names)} : i \in DOMAIN scopes}

Declare(n) ==
  \E slot \in Slots \ Taken(Here, "body") :
    /\ meaning' = Var(Here, "body", slot)
    /\ scopes' = Bind(n, meaning')
    /\ UNCHANGED status

Use(n) ==
  LET known == {i \in DOMAIN scopes : Declares(i, n)}
      in    == Max(known)
      b     == scopes[in].names[n]
  IN  /\ Parsing
      /\ IF known = {} THEN Declare(n)
         ELSE IF b.is # "var" \/ in = 1 \/ scopes[in].home = Here THEN Means(b)
         ELSE Fails("syntax_error")

UseLocal(n) ==
  /\ Parsing
  /\ IF Declares(Len(scopes), n) THEN Means(Inner.names[n])
     ELSE IF n \in LibFuncs THEN Fails("syntax_error")
     ELSE Declare(n)

UseGlobal(n) ==
  /\ Parsing
  /\ IF Declares(1, n) THEN Means(scopes[1].names[n]) ELSE Fails("syntax_error")

OpenBlock == Parsing /\ Becomes(Append(scopes, Scope(Here, << >>)))

(* The scope of a function's body: formals are numbered as they stand.     *)
Body(home, ids) ==
  LET number(n) == CHOOSE i \in DOMAIN ids : ids[i] = n
  IN  Scope(home, [n \in ToSet(ids) |-> Var(home, "formals", number(n) - 1)])

(* A function, or one without a name: formals differ from one another, and *)
(* no library function is shadowed.                                        *)
OpenFunction(n, ids) ==
  LET legal == /\ ({n} \cup ToSet(ids)) \cap LibFuncs = {}
               /\ ~Declares(Len(scopes), n)
               /\ IsInjective(ids)
      outer(home) == IF n = None THEN scopes ELSE Bind(n, Func(home))
  IN  /\ Parsing
      /\ IF legal
         THEN \E home \in Homes :
                /\ \A i \in DOMAIN scopes : scopes[i].home # home
                /\ Becomes(Append(outer(home), Body(home, ids)))
         ELSE Fails("syntax_error")

(* The end of a block, or of a function's body. *)
Close ==
  /\ Parsing
  /\ Len(scopes) > 1
  /\ Becomes(Front(scopes))

(* A return stands in a function. *)
Return ==
  /\ Parsing
  /\ IF Here = 0 THEN Fails("syntax_error") ELSE Becomes(scopes)

Finish == Parsing /\ Len(scopes) = 1 /\ Fails("compiled")

Init ==
  /\ scopes = <<Scope(0, [n \in LibFuncs |-> LibFunc])>>
  /\ meaning = Nothing
  /\ status = "parsing"

Next ==
  \/ \E n \in Names : Use(n) \/ UseLocal(n) \/ UseGlobal(n)
  \/ \E n \in Names \cup {None}, ids \in IdLists : OpenFunction(n, ids)
  \/ OpenBlock \/ Close \/ Return \/ Finish

Spec == Init /\ [][Next]_evars
=============================================================================
