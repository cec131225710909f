------------------------------- MODULE Lexer -------------------------------
(***************************************************************************)
(* The scanner (alpha_flex.l): flex applies, of the rules of the current   *)
(* start condition, the one with the longest match.  The parser calls      *)
(* yylex for token after token, until the end of the file or an error.     *)
(*                                                                         *)
(* A character is a string of one character, a control character is named  *)
(* as in ASCII ("LF").  Keywords are words like the identifiers.           *)
(***************************************************************************)
EXTENDS Integers, SequencesExt, FiniteSetsExt

CONSTANT Sources  \* bound of the model: [chars, length] of the source files

Letters == {"a", "b", "f", "n", "r", "t", "v", "x"}
Digits  == {"0", "1"}
Blanks  == {" ", "HT", "LF", "VT", "FF", "CR"}

Singles == {"=", "+", "-", "*", "/", "%", ">", "<", "{", "}", "[", "]", "(", ")",
            ";", ",", ":", "."}
Doubles == {<<"=", "=">>, <<"!", "=">>, <<"+", "+">>, <<"-", "-">>, <<">", "=">>,
            <<"<", "=">>, <<":", ":">>, <<".", ".">>}

(* The control characters and the letters of their escape sequences.       *)
ControlOf == [a |-> "BEL", b |-> "BS", f |-> "FF", n |-> "LF", r |-> "CR", t |-> "HT",
              v |-> "VT"]
Controls  == {ControlOf[letter] : letter \in DOMAIN ControlOf}
LetterOf(control) == CHOOSE letter \in DOMAIN ControlOf : ControlOf[letter] = control

Quote == "\""

(* The characters that stand for themselves after a backslash.             *)
Itself == {"'", Quote, "?", "\\"}

Characters ==
  Letters \cup Digits \cup Blanks \cup Controls \cup Singles \cup Itself \cup {"!", "_"}

ASSUME LexerAssumption == \A s \in Sources : s.chars \subseteq Characters /\ s.length \in Nat

VARIABLES
  input,           \* the source file
  pos,             \* the position of the next character
  start,           \* YY_START
  states,          \* flex's stack of start conditions
  stack_comment,   \* the lines that the open comments were opened on
  current_str,     \* the string read so far, its characters unescaped
  str_open_lineno, \* the line that it was opened on
  yylineno,        \* the current line
  tokens,          \* history: the tokens returned so far
  outcome          \* "scanning", "eof", or the error: what and its line

vars == <<input, pos, start, states, stack_comment, current_str, str_open_lineno, yylineno,
          tokens, outcome>>

CommentStarts == {"X_BLOCK_COMMENT", "X_NESTED_COMMENT"}

Result(what, line) == [what |-> what, line |-> line]
Scanning == outcome.what = "scanning"

-----------------------------------------------------------------------------
(* What matches at a position: lengths of matches, 0 for none.             *)

IsAt(chars, p) == p + Len(chars) - 1 <= Len(input) /\ SubSeq(input, p, p + Len(chars) - 1) = chars

RunOf(set, p) ==
  LET ends == {q \in p .. Len(input) : input[q] \notin set}
  IN  (IF ends = {} THEN Len(input) + 1 ELSE Min(ends)) - p

WordAt(p) == IF input[p] \in Letters THEN RunOf(Letters \cup Digits \cup {"_"}, p) ELSE 0

RealAt(p) ==
  LET whole == RunOf(Digits, p)
      part  == IF IsAt(<<".">>, p + whole) THEN RunOf(Digits, p + whole + 1) ELSE 0
  IN  IF part = 0 THEN 0 ELSE whole + 1 + part

OperatorAt(p) ==
  IF \E double \in Doubles : IsAt(double, p) THEN 2
  ELSE IF input[p] \in Singles THEN 1 ELSE 0

(* The tokens that match, but for strings, by kind.                        *)
Matches(p) ==
  [WORD |-> WordAt(p), CONST_INT |-> RunOf(Digits, p), CONST_REAL |-> RealAt(p),
   OPERATOR |-> OperatorAt(p)]

CommentMark(p) == IsAt(<<"/", "*">>, p) \/ IsAt(<<"/", "/">>, p)

(* The next n characters are consumed. *)
Consume(n) ==
  /\ pos' = pos + n
  /\ yylineno' = yylineno + Cardinality({i \in pos .. pos + n - 1 : input[i] = "LF"})

InCondition(conditions) == Scanning /\ start \in conditions /\ pos <= Len(input)

Begin(condition) == start' = condition /\ UNCHANGED states

Throw(what, line) ==
  /\ outcome' = Result(what, line)
  /\ UNCHANGED <<pos, start, states, stack_comment, current_str, str_open_lineno, yylineno, tokens>>

-----------------------------------------------------------------------------
(* INITIAL                                                                 *)

(* The rule with the longest match returns its token.                      *)
Token ==
  LET matches == Matches(pos)
  IN  /\ InCondition({"INITIAL"})
      /\ ~CommentMark(pos)
      /\ \E kind \in DOMAIN matches :
           /\ matches[kind] > 0
           /\ \A other \in DOMAIN matches : matches[other] <= matches[kind]
           /\ tokens' = Append(tokens, [kind |-> kind, from |-> pos, to |-> pos + matches[kind] - 1])
           /\ Consume(matches[kind])
      /\ UNCHANGED <<input, start, states, stack_comment, current_str, str_open_lineno, outcome>>

WhiteSpace ==
  /\ InCondition({"INITIAL"})
  /\ input[pos] \in Blanks
  /\ Consume(RunOf(Blanks, pos))
  /\ UNCHANGED <<input, start, states, stack_comment, current_str, str_open_lineno, tokens, outcome>>

(* "UNDEFINED input": no other rule matches. *)
UnknownCharacter ==
  /\ InCondition({"INITIAL"})
  /\ input[pos] \notin Blanks \cup {Quote}
  /\ \A length \in Range(Matches(pos)) : length = 0
  /\ Throw("undefined", yylineno)
  /\ UNCHANGED input

-----------------------------------------------------------------------------
(* Strings.  current_str is a local variable of yylex, which does not      *)
(* return between the two quotes of a string.                              *)

(* utilities::unescape_ch *)
UnescapeCh(c) == IF c \in Controls THEN <<"\\", LetterOf(c)>> ELSE <<c>>

Replacement(c) == IF c \in DOMAIN ControlOf THEN ControlOf[c] ELSE c

(* Mutant of EscapeNext: a character that was replaced is looked at again. *)
EscapeNextAgain(s, c) ==
  IF ~s.valid THEN s
  ELSE IF ~s.esc THEN [s EXCEPT !.esc = c = "\\", !.out = Append(@, c)]
  ELSE IF c \in DOMAIN ControlOf \cup Itself
  THEN [s EXCEPT !.out = Append(Front(@), Replacement(c)), !.esc = c = "\\"]
  ELSE [s EXCEPT !.valid = FALSE]

(* One character more: two become one. *)
EscapeNext(s, c) ==
  IF ~s.valid THEN s
  ELSE IF ~s.esc THEN [s EXCEPT !.esc = c = "\\", !.out = Append(@, c)]
  ELSE IF c \in DOMAIN ControlOf \cup Itself
  THEN [s EXCEPT !.out = Append(Front(@), Replacement(c)), !.esc = FALSE]
  ELSE [s EXCEPT !.valid = FALSE]

Unread == [out |-> << >>, esc |-> FALSE, valid |-> TRUE]

(* utilities::escape_str *)
EscapeStr(str) ==
  LET escaped[n \in 0 .. Len(str)] ==
        IF n = 0 THEN Unread ELSE EscapeNext(escaped[n - 1], str[n])
  IN  escaped[Len(str)]

StringOpen ==
  /\ InCondition({"INITIAL"})
  /\ input[pos] = Quote
  /\ Begin("X_STR")
  /\ current_str' = << >>
  /\ str_open_lineno' = yylineno
  /\ Consume(1)
  /\ UNCHANGED <<input, stack_comment, tokens, outcome>>

Backslash ==
  /\ InCondition({"X_STR"})
  /\ input[pos] = "\\"
  /\ Begin("X_STR_ESC")
  /\ current_str' = Append(current_str, "\\")
  /\ Consume(1)
  /\ UNCHANGED <<input, stack_comment, str_open_lineno, tokens, outcome>>

EscapedCharacter ==
  /\ InCondition({"X_STR_ESC"})
  /\ Begin("X_STR")
  /\ current_str' = current_str \o UnescapeCh(input[pos])
  /\ Consume(1)
  /\ UNCHANGED <<input, stack_comment, str_open_lineno, tokens, outcome>>

StringCharacter ==
  /\ InCondition({"X_STR"})
  /\ input[pos] \notin {"\\", Quote}
  /\ current_str' = current_str \o UnescapeCh(input[pos])
  /\ Consume(1)
  /\ UNCHANGED <<input, start, states, stack_comment, str_open_lineno, tokens, outcome>>

(* The quote that closes the string: it is a token, unless an escape       *)
(* sequence in it is invalid.                                              *)
StringClose ==
  LET escaped == EscapeStr(current_str)
  IN  /\ InCondition({"X_STR"})
      /\ input[pos] = Quote
      /\ IF escaped.valid
         THEN /\ tokens' = Append(tokens, [kind |-> "CONST_STR", to |-> pos, strVal |-> escaped.out])
              /\ Begin("INITIAL")
              /\ current_str' = << >>
              /\ str_open_lineno' = -1
              /\ Consume(1)
              /\ UNCHANGED <<stack_comment, outcome>>
         ELSE Throw("invalid_escaped_sequence", -1)
      /\ UNCHANGED input

-----------------------------------------------------------------------------
(* Comments.                                                               *)

(* "/*" in the program or in a comment.                                    *)
CommentOpen ==
  /\ InCondition({"INITIAL"} \cup CommentStarts)
  /\ IsAt(<<"/", "*">>, pos)
  /\ states' = Append(states, start)
  /\ start' = IF start = "INITIAL" THEN "X_BLOCK_COMMENT" ELSE "X_NESTED_COMMENT"
  /\ stack_comment' = Append(stack_comment, yylineno)
  /\ Consume(2)
  /\ UNCHANGED <<input, current_str, str_open_lineno, tokens, outcome>>

(* Mutant of CommentClose: the end of a comment ends those around it.      *)
CommentCloseAll ==
  /\ InCondition(CommentStarts)
  /\ IsAt(<<"*", "/">>, pos)
  /\ start' = "INITIAL"
  /\ states' = << >>
  /\ stack_comment' = << >>
  /\ Consume(2)
  /\ UNCHANGED <<input, current_str, str_open_lineno, tokens, outcome>>

(* Mutant of CommentClose: the line of the comment is not forgotten.       *)
CommentCloseRemembering ==
  /\ InCondition(CommentStarts)
  /\ IsAt(<<"*", "/">>, pos)
  /\ start' = Last(states)
  /\ states' = Front(states)
  /\ Consume(2)
  /\ UNCHANGED <<input, stack_comment, current_str, str_open_lineno, tokens, outcome>>

CommentClose ==
  /\ InCondition(CommentStarts)
  /\ IsAt(<<"*", "/">>, pos)
  /\ start' = Last(states)
  /\ states' = Front(states)
  /\ stack_comment' = Front(stack_comment)
  /\ Consume(2)
  /\ UNCHANGED <<input, current_str, str_open_lineno, tokens, outcome>>

CommentCharacter ==
  /\ InCondition(CommentStarts)
  /\ ~IsAt(<<"/", "*">>, pos) /\ ~IsAt(<<"*", "/">>, pos)
  /\ Consume(1)
  /\ UNCHANGED <<input, start, states, stack_comment, current_str, str_open_lineno, tokens, outcome>>

LineComment ==
  /\ InCondition({"INITIAL"})
  /\ IsAt(<<"/", "/">>, pos)
  /\ Begin("X_LINE_COMMENT")
  /\ Consume(2)
  /\ UNCHANGED <<input, stack_comment, current_str, str_open_lineno, tokens, outcome>>

(* Mutant of LineCommentRest: the end of the line is part of the comment.  *)
LineCommentRestAll ==
  /\ InCondition({"X_LINE_COMMENT"})
  /\ input[pos] # "LF"
  /\ Consume(RunOf(Characters, pos))
  /\ UNCHANGED <<input, start, states, stack_comment, current_str, str_open_lineno, tokens, outcome>>

LineCommentRest ==
  /\ InCondition({"X_LINE_COMMENT"})
  /\ input[pos] # "LF"
  /\ Consume(RunOf(Characters \ {"LF"}, pos))
  /\ UNCHANGED <<input, start, states, stack_comment, current_str, str_open_lineno, tokens, outcome>>

LineCommentEnd ==
  /\ InCondition({"X_LINE_COMMENT"})
  /\ input[pos] = "LF"
  /\ Begin("INITIAL")
  /\ Consume(1)
  /\ UNCHANGED <<input, stack_comment, current_str, str_open_lineno, tokens, outcome>>

-----------------------------------------------------------------------------
(* Mutant of EndOfFile: the rule belongs to INITIAL and the conditions of  *)
(* comments and strings.                                                   *)
EndOfFileUnlessLineComment ==
  /\ Scanning
  /\ pos > Len(input)
  /\ start # "X_LINE_COMMENT"
  /\ CASE start \in CommentStarts -> Throw("open_comment", Last(stack_comment))
       [] start = "X_STR"         -> Throw("open_string", str_open_lineno)
       [] OTHER                   -> Throw("eof", yylineno)
  /\ UNCHANGED input

(* <<EOF>>, in every start condition; it is no error after a backslash.    *)
EndOfFile ==
  /\ Scanning
  /\ pos > Len(input)
  /\ CASE start \in CommentStarts -> Throw("open_comment", Last(stack_comment))
       [] start = "X_STR"         -> Throw("open_string", str_open_lineno)
       [] OTHER                   -> Throw("eof", yylineno)
  /\ UNCHANGED input

Init ==
  /\ \E s \in Sources : input \in BoundedSeq(s.chars, s.length)
  /\ pos = 1
  /\ start = "INITIAL"
  /\ states = << >>
  /\ stack_comment = << >>
  /\ current_str = << >>
  /\ str_open_lineno = -1
  /\ yylineno = 1
  /\ tokens = << >>
  /\ outcome = Result("scanning", 0)

Next ==
  \/ Token \/ WhiteSpace \/ UnknownCharacter
  \/ StringOpen \/ Backslash \/ EscapedCharacter \/ StringCharacter \/ StringClose
  \/ CommentOpen \/ CommentClose \/ CommentCharacter
  \/ LineComment \/ LineCommentRest \/ LineCommentEnd
  \/ EndOfFile

(* The parser asks for a token as long as it gets one. *)
Spec == Init /\ [][Next]_vars /\ WF_vars(Next)

-----------------------------------------------------------------------------
TypeOK ==
  /\ pos \in 1 .. Len(input) + 1
  /\ start \in {"INITIAL", "X_STR", "X_STR_ESC", "X_LINE_COMMENT"} \cup CommentStarts
  /\ Len(states) = Len(stack_comment)
  /\ yylineno \in 1 .. Len(input) + 1
  /\ \A token \in ToSet(tokens) :
       token.kind \in {"WORD", "CONST_INT", "CONST_REAL", "OPERATOR", "CONST_STR"}
  /\ outcome.what \in {"scanning", "eof", "undefined", "invalid_escaped_sequence",
                       "open_comment", "open_string"}

(* The language's own account of a source, a character at a time: which    *)
(* part of it comes next, after a "/" or "*" that may be half of a mark    *)
(* (held), the lines where what is open was opened, and the current line.  *)
Account(in, held, opened, line) == [in |-> in, held |-> held, opened |-> opened, line |-> line]

Read(r, c) ==
  LET next == IF c = "LF" THEN r.line + 1 ELSE r.line
      half == IF c \in {"/", "*"} THEN c ELSE "none"
      mark == <<r.held, c>>
      code == Account("code", half, << >>, next)
      outer == Front(r.opened)
  IN  CASE r.in = "code" /\ mark = <<"/", "*">> -> Account("comment", "none", <<r.line>>, next)
        [] r.in = "code" /\ mark = <<"/", "/">> -> Account("line", "none", << >>, next)
        [] r.in = "code" /\ mark \notin {<<"/", "*">>, <<"/", "/">>} ->
             IF c = Quote THEN Account("string", "none", <<r.line>>, next) ELSE code
        [] r.in = "line"   -> IF c = "LF" THEN code ELSE r
        [] r.in = "string" ->
             CASE c = Quote -> code
               [] c = "\\" -> [r EXCEPT !.in = "escape"]
               [] OTHER    -> [r EXCEPT !.line = next]
        [] r.in = "escape" -> [r EXCEPT !.in = "string", !.line = next]
        [] r.in = "comment" ->
             CASE mark = <<"/", "*">> -> Account("comment", "none", Append(r.opened, r.line), next)
               [] mark = <<"*", "/">> -> Account(IF outer = << >> THEN "code" ELSE "comment", "none", outer, next)
               [] OTHER               -> [r EXCEPT !.held = half, !.line = next]

AccountsOf(text) ==
  LET account[n \in Nat] ==
        IF n = 0 THEN Account("code", "none", << >>, 1) ELSE Read(account[n - 1], text[n])
  IN  account

AccountOf(n) == AccountsOf(input)[n]

(* The condition of the scanner, with the lines it keeps for its messages, *)
(* is what the characters before it say: comments nest, their marks mean   *)
(* nothing in strings and the other way round, and an error names the line *)
(* where the innermost comment or the string was opened.                   *)
ConditionsFollowSource ==
  LET r == AccountOf(pos - 1)
  IN  /\ yylineno = r.line
      /\ CASE start = "INITIAL"          -> r.in = "code" /\ states = << >>
           [] start = "X_LINE_COMMENT"   -> r.in = "line" /\ states = << >>
           [] start = "X_BLOCK_COMMENT"  -> r.in = "comment" /\ Len(r.opened) = 1
           [] start = "X_NESTED_COMMENT" -> r.in = "comment" /\ Len(r.opened) > 1
           [] start = "X_STR"            -> r.in = "string"
           [] start = "X_STR_ESC"        -> r.in = "escape"
      /\ r.in = "comment" => stack_comment = r.opened
      /\ r.in \in {"string", "escape"} => <<str_open_lineno>> = r.opened
      /\ outcome.what \in {"open_comment", "open_string"} => outcome.line = Last(r.opened)

(* The characters of the string that is closed by the quote at an index.   *)
TextBefore(quote) ==
  LET opening == Max({i \in 1 .. quote - 1 : input[i] = Quote /\ AccountOf(i - 1).in = "code"})
  IN  SubSeq(input, opening + 1, quote - 1)

(* A character is escaped if an odd number of backslashes precede it.      *)
Escaped(text, i) ==
  Max({k \in 0 .. i - 1 : \A j \in i - k .. i - 1 : text[j] = "\\"}) % 2 = 1

EscapedIn(text) == {text[i] : i \in {j \in DOMAIN text : Escaped(text, j)}}

Said(text, i) ==
  IF Escaped(text, i) THEN <<Replacement(text[i])>>
  ELSE IF text[i] = "\\" THEN << >> ELSE <<text[i]>>

Meaning(text) ==
  LET said[n \in 0 .. Len(text)] == IF n = 0 THEN << >> ELSE said[n - 1] \o Said(text, n)
  IN  said[Len(text)]

(* A string constant is what the program says, each escape sequence the    *)
(* character it stands for, once; what is refused has an invalid one.  An  *)
(* escaped control character is left out: it is neither refused nor kept,  *)
(* since it is unescaped before it is validated (alpha_flex.l 107).        *)
StringsMean ==
  /\ \A token \in ToSet(tokens) :
       LET text == TextBefore(token.to)
       IN  (token.kind = "CONST_STR" /\ EscapedIn(text) \cap Controls = {})
             => /\ EscapedIn(text) \subseteq DOMAIN ControlOf \cup Itself
                /\ token.strVal = Meaning(text)
  /\ outcome.what = "invalid_escaped_sequence"
       => ~(EscapedIn(TextBefore(pos)) \subseteq DOMAIN ControlOf \cup Itself)

(* Parts of the code: what is no blank and no quote, the first half of a   *)
(* mark that opens a comment, and the tokens, but for strings, that a      *)
(* character belongs to.                                                   *)
Plain(i) == AccountOf(i - 1).in = "code" /\ AccountOf(i).in = "code" /\ input[i] \notin Blanks
OpensComment(i) == i < Len(input) /\ AccountOf(i + 1).in \in {"comment", "line"}
TokensAt(i) == {k \in DOMAIN tokens : tokens[k].kind # "CONST_STR"
                                        /\ i \in tokens[k].from .. tokens[k].to}

(* When the end of the file is reached, every character of the program     *)
(* outside of strings and comments that is no blank belongs to one token.  *)
(* A string that the file ends in after a backslash is lost without a word.*)
NothingLost ==
  outcome.what = "eof" =>
    \A i \in DOMAIN input : Plain(i) /\ ~OpensComment(i) => Cardinality(TokensAt(i)) = 1

(* Every source is decided: each rule consumes something, in every start   *)
(* condition, and each condition has a rule for the end of the file.       *)
EverySourceDecided == <>(outcome.what # "scanning")
=============================================================================
