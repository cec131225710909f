-------------------------------- MODULE Flow --------------------------------
(***************************************************************************)
(* The flow of control that the statements of an alpha program describe,   *)
(* without any code: which event follows which.  Events are the program's  *)
(* visible steps: a simple statement, a condition, a return.  A statement  *)
(* is a fragment: the place where control enters it, and one edge for each *)
(* outcome of each of its events.  Where control leaves the fragment it    *)
(* takes a way: "next", "break", "continue", "exit" of the function, or    *)
(* the "end" of the program.                                               *)
(***************************************************************************)
EXTENDS Integers, Sequences

Event(n) == [to |-> "event", id |-> n]
Way(w)   == [to |-> w, id |-> 0]
Onward    == Way("next")

Edge(n, when, target) == [event |-> n, when |-> when, target |-> target]

Fragment(entry, edges) == [entry |-> entry, edges |-> edges]
Empty == Fragment(Onward, {})

(* The fragment with all that leaves it by the ways ws led to a target.    *)
Redirect(f, ws, target) ==
  LET led(t) == IF t.to \in ws THEN target ELSE t
  IN  Fragment(led(f.entry), {[e EXCEPT !.target = led(@)] : e \in f.edges})

Simple(n)  == Fragment(Event(n), {Edge(n, "next", Onward)})
Leave(w)   == Fragment(Way(w), {})
Return(n)  == Fragment(Event(n), {Edge(n, "next", Way("exit"))})

Then(f, g) ==
  LET first == Redirect(f, {"next"}, g.entry)
  IN  Fragment(first.entry, first.edges \cup g.edges)

Choice(n, yes, no) ==
  Fragment(Event(n), {Edge(n, "true", yes.entry), Edge(n, "false", no.entry)}
                       \cup yes.edges \cup no.edges)

(* again: where the loop goes on after its body and after a continue.      *)
Loop(n, body, again) ==
  LET inside == Redirect(Redirect(body, {"next", "continue"}, again), {"break"}, Onward)
  IN  Fragment(Event(n), {Edge(n, "true", inside.entry), Edge(n, "false", Onward)} \cup inside.edges)

(* Control passes by a definition; a call enters the body.                 *)
Function(n, body) ==
  LET inside == Redirect(body, {"next"}, Way("exit"))
  IN  Fragment(Onward, inside.edges \cup {Edge(n, "call", inside.entry)})

Program(f) ==
  LET all == Redirect(f, {"next"}, Way("end"))
  IN  all.edges \cup {Edge(0, "start", all.entry)}
=============================================================================
