-------------------------------- MODULE Heap --------------------------------
(***************************************************************************)
(* The tables of the virtual machine and the cells that refer to them:     *)
(* Memcell::assign and clear (Memcell.cpp), the reference-counted Table    *)
(* (Table.cpp), the table instructions (dispatcher/tables.cpp), assign     *)
(* (dispatcher/misc.cpp) and the library functions on tables               *)
(* (builtin_funcs/tables.cpp, print).  The stack is reduced to the slots   *)
(* whose cells the instructions name; Calls models which slots those are.  *)
(*                                                                         *)
(* A table's identity is its address: freed addresses are used again.  The *)
(* seven maps of a Table, one per key type, are one function from cells to *)
(* cells.  A read of freed memory is undefined; the model stops there.     *)
(***************************************************************************)
EXTENDS Memcells, SequencesExt, FiniteSetsExt

CONSTANTS
  Variables,  \* stack cells that instructions name as variables
  Addresses,  \* where tables can be allocated
  Constants,  \* what the constants pool can load into a register
  MaxMembers  \* bound of the model: members of all tables together

ASSUME HeapAssumption ==
  /\ IsFiniteSet(Variables) /\ IsFiniteSet(Addresses)
  /\ Addresses \subseteq Nat
  /\ Constants \subseteq {c \in Memcell : c.type \notin {"table", "undef"}}
  /\ "retval" \notin Variables
  /\ "actual" \notin Variables

(* retval is a register; `actual' is the stack cell that pusharg takes,    *)
(* free unless an argument is on it.                                       *)
Slots    == Variables \cup {"retval", "actual"}
LValues  == Variables \cup {"retval"}
Operands == {[slot |-> s] : s \in LValues} \cup {[constant |-> c] : c \in Constants}

VARIABLES
  cells,  \* slot -> Memcell
  tables, \* address -> Table, the allocated ones
  outcome \* "running", or how the machine stopped

vars == <<cells, tables, outcome>>

Outcomes == {"running", "runtime_error", "reads_freed", "endless_to_string"}

IsTable(cell) == cell.type = "table"
CellOf(o)     == IF "slot" \in DOMAIN o THEN cells[o.slot] ELSE o.constant
Live(ts)      == DOMAIN ts

-----------------------------------------------------------------------------
(* Reference counting.  Each operator takes the allocated tables and       *)
(* returns them as the method leaves them.                                 *)

NewTable == [ref_counter |-> 1, members |-> << >>]

With(ts, t, table) == [u \in Live(ts) \cup {t} |-> IF u = t THEN table ELSE ts[u]]

Acquire(ts, cell) ==
  IF IsTable(cell) /\ cell.value \in Live(ts)
  THEN [ts EXCEPT ![cell.value].ref_counter = @ + 1] ELSE ts

(* handle_copied_references: a reference more for each member.             *)
AcquireMembers(ts, table) ==
  LET of(t) == {k \in DOMAIN table.members : table.members[k] = TableRef(t)}
  IN  [t \in Live(ts) |-> [ts[t] EXCEPT !.ref_counter = @ + Cardinality(of(t))]]

Members(table) ==
  LET keys == SetToSeq(DOMAIN table.members)
  IN  [i \in DOMAIN keys |-> table.members[keys[i]]]

(* The cells that are members of some table. *)
MemberCells(ts) == UNION {{t} \X DOMAIN ts[t].members : t \in Live(ts)}

Clearing(ts, todo) == [tables |-> ts, todo |-> todo]

(* Mutant of ClearNext: the destructor forgets the table's own members.    *)
ClearNextShallow(h) ==
  LET rest == Tail(h.todo)
      cell == Head(h.todo)
      t    == cell.value
  IN  IF h.todo = << >> THEN h
      ELSE IF ~IsTable(cell) \/ t \notin Live(h.tables) THEN Clearing(h.tables, rest)
      ELSE IF h.tables[t].ref_counter > 1
           THEN Clearing([h.tables EXCEPT ![t].ref_counter = @ - 1], rest)
           ELSE Clearing(Restrict(h.tables, Live(h.tables) \ {t}), rest)

(* Memcell::clear on the first of the cells still to be cleared:           *)
(* decrease_ref_counter deletes a table whose counter reaches 0, and its   *)
(* destructor clears its members before anything else happens.             *)
ClearNext(h) ==
  LET rest == Tail(h.todo)
      cell == Head(h.todo)
      t    == cell.value
  IN  IF h.todo = << >> THEN h
      ELSE IF ~IsTable(cell) \/ t \notin Live(h.tables) THEN Clearing(h.tables, rest)
      ELSE IF h.tables[t].ref_counter > 1
           THEN Clearing([h.tables EXCEPT ![t].ref_counter = @ - 1], rest)
           ELSE Clearing(Restrict(h.tables, Live(h.tables) \ {t}),
                         Members(h.tables[t]) \o rest)

(* Memcell::clear on a cell that holds `old'.  No cell is cleared twice,   *)
(* so the cascade ends within as many steps as there are cells.            *)
Release(ts, old) ==
  LET cascade[n \in Nat] ==
        IF n = 0 THEN Clearing(ts, <<old>>) ELSE ClearNext(cascade[n - 1])
  IN  cascade[1 + Cardinality(MemberCells(ts))].tables

(* Memcell::assign of `new' to a cell that holds `old': clear, then copy;  *)
(* nothing happens when both are the same table.                           *)
AssignTables(ts, old, new) ==
  IF IsTable(old) /\ new = old THEN ts
  ELSE Acquire(Release(ts, old), new)

(* Table::get_elem and the member it finds.                                *)
HasElem(table, idx) == idx \in DOMAIN table.members

(* Mutant of SetElem: a removal unregisters the member without clearing it.*)
SetElemUncleared(ts, t, idx, val) ==
  LET old == IF HasElem(ts[t], idx) THEN ts[t].members[idx] ELSE Undef
  IN  CASE idx = Undef -> ts
        [] idx # Undef /\ val = Nil ->
             [ts EXCEPT ![t].members = Restrict(@, DOMAIN @ \ {idx})]
        [] OTHER -> [AssignTables(ts, old, val) EXCEPT
                      ![t].members = [k \in DOMAIN @ \cup {idx} |->
                                        IF k = idx THEN val ELSE @[k]]]

(* Table::set_elem: an undef index is ignored, nil removes the member, any *)
(* other content is assigned to it.  Keys are copied, never counted.       *)
SetElem(ts, t, idx, val) ==
  LET old == IF HasElem(ts[t], idx) THEN ts[t].members[idx] ELSE Undef
  IN  CASE idx = Undef -> ts
        [] idx # Undef /\ val = Nil ->
             [Release(ts, old) EXCEPT ![t].members = Restrict(@, DOMAIN @ \ {idx})]
        [] OTHER -> [AssignTables(ts, old, val) EXCEPT
                      ![t].members = [k \in DOMAIN @ \cup {idx} |->
                                        IF k = idx THEN val ELSE @[k]]]

WithinBound(ts) == Cardinality(MemberCells(ts)) <= MaxMembers

(* The order in which get_keys goes through the maps.                      *)
MapOrder == <<"number", "string", "table", "userfunc", "libfunc", "boolean", "nil">>
KeyBefore(j, k) ==
  LET rank(c) == SelectInSeq(MapOrder, LAMBDA type : type = c.type)
  IN  rank(j) < rank(k) \/ (rank(j) = rank(k) /\ j.value < k.value)

(* Table::get_keys: the keys become the members 0, 1, ... of a new table.  *)
GetKeys(table) ==
  LET keys     == DOMAIN table.members
      place(k) == Number(Cardinality({j \in keys : KeyBefore(j, k)}))
  IN  [ref_counter |-> 1,
       members |-> [n \in {place(k) : k \in keys} |-> CHOOSE k \in keys : place(k) = n]]

(* Whether get_keys would count a reference to a table that is gone.       *)
HasDeadKey(ts, t) ==
  \E k \in DOMAIN ts[t].members : IsTable(k) /\ k.value \notin Live(ts)

-----------------------------------------------------------------------------
(* Table::to_string.  A table prints its keys and members; of those that   *)
(* are the table itself it prints "__self__", except the member under nil. *)
PrintedBy(ts, t) ==
  LET members == ts[t].members
      selfOK(c) == IsTable(c) /\ c.value # t
  IN  {k.value : k \in {k \in DOMAIN members : selfOK(k)}}
      \cup {members[k].value : k \in {k \in DOMAIN members : selfOK(members[k])}}
      \cup {members[k].value : k \in {k \in DOMAIN members : k = Nil /\ IsTable(members[k])}}

(* The addresses that a chain of `next' leads to from a set of addresses,  *)
(* those included.                                                         *)
Reached(next, from) ==
  LET reached[n \in Nat] ==
        IF n = 0 THEN from
        ELSE LET before == reached[n - 1]
             IN  before \cup UNION {next[t] : t \in before}
  IN  reached[Cardinality(Addresses)]

(* What printing one of these cells may do: the set of fatal outcomes.     *)
PrintFaults(ts, printed) ==
  LET next    == [t \in Addresses |-> IF t \in Live(ts) THEN PrintedBy(ts, t) ELSE {}]
      visited == Reached(next, {c.value : c \in {c \in printed : IsTable(c)}})
  IN     (IF visited \subseteq Live(ts) THEN {} ELSE {"reads_freed"})
    \cup (IF \E t \in visited : t \in Reached(next, next[t])
          THEN {"endless_to_string"} ELSE {})

-----------------------------------------------------------------------------
(* Instructions. *)

Running == outcome = "running"
Stop(how) == outcome' = how /\ UNCHANGED <<cells, tables>>

(* execute_assign: Memcell::assign does nothing to a cell and itself.      *)
Assign(lv, rv) ==
  /\ Running
  /\ IF "slot" \in DOMAIN rv /\ rv.slot = lv THEN UNCHANGED <<cells, tables>>
     ELSE /\ tables' = AssignTables(tables, cells[lv], CellOf(rv))
          /\ cells'  = [cells EXCEPT ![lv] = CellOf(rv)]
  /\ UNCHANGED outcome

(* execute_newtable: the old content is released first, so its address may *)
(* be the new table's.                                                     *)
CreateTable(lv) ==
  LET released == Release(tables, cells[lv])
  IN  /\ Running
      /\ \E t \in Addresses \ Live(released) :
           /\ tables' = With(released, t, NewTable)
           /\ cells' = [cells EXCEPT ![lv] = TableRef(t)]
      /\ UNCHANGED outcome

(* execute_tablegetelem when the member exists.  Memcell::assign releases  *)
(* lv before it reads the member: if that frees the member's table, what   *)
(* it reads is freed memory.                                               *)
TableGetElem(lv, table, idx) ==
  LET t     == cells[table].value
      index == CellOf(idx)
  IN  /\ Running
      /\ IsTable(cells[table])
      /\ HasElem(tables[t], index)
      /\ LET content == tables[t].members[index]
         IN  IF /\ t \notin Live(Release(tables, cells[lv]))
                /\ content # cells[lv]
             THEN Stop("reads_freed")
             ELSE /\ tables' = AssignTables(tables, cells[lv], content)
                  /\ cells'  = [cells EXCEPT ![lv] = content]
                  /\ UNCHANGED outcome

(* execute_tablegetelem when it does not: lv becomes nil, then a warning   *)
(* prints the table and the index, lv's new value if they are the same.    *)
TableGetNil(lv, table, idx) ==
  LET index    == CellOf(idx)
      released == Release(tables, cells[lv])
      after    == [cells EXCEPT ![lv] = Nil]
      printed  == {after[table], IF "slot" \in DOMAIN idx THEN after[idx.slot] ELSE index}
      faults   == PrintFaults(released, printed)
  IN  /\ Running
      /\ IsTable(cells[table])
      /\ ~HasElem(tables[cells[table].value], index)
      /\ cells'  = after
      /\ tables' = released
      /\ IF faults = {} THEN UNCHANGED outcome ELSE outcome' \in faults

(* execute_tablesetelem; its table is never retval.                        *)
TableSetElem(table, idx, content) ==
  LET t == cells[table].value
  IN  /\ Running
      /\ IsTable(cells[table])
      /\ tables' = SetElem(tables, t, CellOf(idx), CellOf(content))
      /\ WithinBound(tables')
      /\ UNCHANGED <<cells, outcome>>

(* Either table instruction on something that is not a table.              *)
IllegalTable(table) ==
  /\ Running
  /\ ~IsTable(cells[table])
  /\ Stop("runtime_error")

(* execute_pusharg, with room for one argument. *)
PushArg(arg) ==
  /\ Running
  /\ cells["actual"] = Undef
  /\ tables' = Acquire(tables, CellOf(arg))
  /\ cells'  = [cells EXCEPT !["actual"] = CellOf(arg)]
  /\ UNCHANGED outcome

(* The end of the callee: restore_environment releases the argument and    *)
(* the cell is free again.  What a library function left in retval stays.  *)
Return(ts, result) ==
  /\ tables' = Release(ts, cells["actual"])
  /\ cells'  = [cells EXCEPT !["retval"] = result, !["actual"] = Undef]
  /\ UNCHANGED outcome

FuncExit == Running /\ Return(tables, cells["retval"])

(* The library functions that take one table.  They clear retval, then     *)
(* build the result from the argument, which is a cell of its own.         *)
Called == cells["actual"].value
OnTable == Running /\ IsTable(cells["actual"])
Cleared == Release(tables, cells["retval"])

ObjectMemberKeys ==
  /\ OnTable
  /\ IF HasDeadKey(Cleared, Called) THEN Stop("reads_freed")
     ELSE \E t \in Addresses \ Live(Cleared) :
            LET keys == GetKeys(tables[Called])
            IN  /\ Return(AcquireMembers(With(Cleared, t, keys), keys), TableRef(t))
                /\ WithinBound(tables')

ObjectTotalMembers ==
  /\ OnTable
  /\ Return(Cleared, Number(Cardinality(DOMAIN tables[Called].members)))

(* Mutant of ObjectCopy: the members of the copy are not counted.          *)
ObjectCopyUncounted ==
  /\ OnTable
  /\ \E t \in Addresses \ Live(Cleared) :
       Return(With(Cleared, t, [ref_counter |-> 1, members |-> tables[Called].members]),
              TableRef(t))

(* The copy constructor counts one more reference for every table that is  *)
(* a member, the copied table itself included.                             *)
ObjectCopy ==
  /\ OnTable
  /\ \E t \in Addresses \ Live(Cleared) :
       LET copy == [ref_counter |-> 1, members |-> tables[Called].members]
       IN  /\ Return(AcquireMembers(With(Cleared, t, copy), copy), TableRef(t))
           /\ WithinBound(tables')

(* The three reject any other argument before they touch retval.           *)
IllegalArgument ==
  /\ Running
  /\ cells["actual"] # Undef
  /\ ~IsTable(cells["actual"])
  /\ Stop("runtime_error")

(* libfunc_print. *)
PrintArg ==
  LET faults == PrintFaults(Cleared, {cells["actual"]})
  IN  /\ Running
      /\ cells["actual"] # Undef
      /\ IF faults = {} THEN Return(Cleared, Nil)
         ELSE outcome' \in faults /\ UNCHANGED <<cells, tables>>

Init ==
  /\ cells   = [s \in Slots |-> Undef]
  /\ tables  = << >>
  /\ outcome = "running"

Next ==
  \/ \E lv \in LValues, rv \in Operands : Assign(lv, rv)
  \/ \E lv \in LValues : CreateTable(lv)
  \/ \E lv, table \in LValues, idx \in Operands :
       TableGetElem(lv, table, idx) \/ TableGetNil(lv, table, idx)
  \/ \E table \in Variables, idx, content \in Operands : TableSetElem(table, idx, content)
  \/ \E table \in LValues : IllegalTable(table)
  \/ \E arg \in Operands : PushArg(arg)
  \/ FuncExit
  \/ ObjectMemberKeys \/ ObjectTotalMembers \/ ObjectCopy \/ IllegalArgument
  \/ PrintArg

Spec == Init /\ [][Next]_vars

-----------------------------------------------------------------------------
(* The references to a table: from slots and from members of live tables.  *)
SlotsOf(t)   == {s \in Slots : cells[s] = TableRef(t)}
MembersOf(t) == {m \in MemberCells(tables) : tables[m[1]].members[m[2]] = TableRef(t)}

(* A table's counter is the number of cells that refer to it: no copy or   *)
(* clear is missing or done twice on any path, the cascades of destructors *)
(* and shallow copies included.                                            *)
RefCountExact ==
  \A t \in Live(tables) :
    tables[t].ref_counter = Cardinality(SlotsOf(t)) + Cardinality(MembersOf(t))

(* No variable, register, argument or member refers to a table that was    *)
(* freed, or whose address now belongs to another table.                   *)
NoDanglingReference ==
  \A t \in Addresses : SlotsOf(t) \cup MembersOf(t) # {} => t \in Live(tables)

(* Memory is given back as soon as counting can tell: a table that no cell *)
(* of the program leads to is on, or is kept by, a cycle of tables.        *)
OnlyCyclesLeak ==
  LET refersTo == [t \in Live(tables) |-> {u \in Live(tables) :
                     \E k \in DOMAIN tables[t].members : tables[t].members[k] = TableRef(u)}]
      inCycle  == {t \in Live(tables) : t \in Reached(refersTo, refersTo[t])}
      inSlots  == {t \in Live(tables) : \E s \in Slots : cells[s] = TableRef(t)}
  IN  Live(tables) \subseteq Reached(refersTo, inSlots \cup inCycle)

(* A claim of Table.h:82-85: objectmemberkeys returns all the keys of a    *)
(* table, so all of them must still exist.                                 *)
MemberKeysExist ==
  \A s \in Slots : IsTable(cells[s]) => ~HasDeadKey(tables, cells[s].value)

(* A claim of Table.cpp:368: printing avoids endless recursive calls.      *)
PrintingEnds == outcome # "endless_to_string"
=============================================================================
