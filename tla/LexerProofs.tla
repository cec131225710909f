---------------------------- MODULE LexerProofs ----------------------------
(***************************************************************************)
(* The scanner follows its source, for sources of every length: its start  *)
(* condition is the part of the source it is in, when it reaches the end   *)
(* of the file nothing but blanks and comments was left out, and strings   *)
(* mean what they say.                                                     *)
(***************************************************************************)
EXTENDS Lexer, NaturalSets, FiniteSetTheorems, SequenceTheorems

Nothing == Account("code", "none", << >>, 1)

-----------------------------------------------------------------------------
(* The account of a source.                                                *)

(* The accounts of the first n characters. *)
Accounts(f, text, n) ==
  /\ f[0] = Nothing
  /\ \A k \in 1 .. n : f[k] = Read(f[k - 1], text[k])

(* Two accounts of the same characters are equal.                          *)
LEMMA OneAccount ==
  ASSUME NEW text, NEW n \in Nat, NEW f, NEW g, Accounts(f, text, n), Accounts(g, text, n)
  PROVE  \A k \in 0 .. n : f[k] = g[k]
<1> DEFINE Equal == {k \in Nat : k <= n => f[k] = g[k]}
<1>1. 0 \in Equal
  BY DEF Accounts
<1>2. ASSUME NEW k \in Nat, k \in Equal
      PROVE  k + 1 \in Equal
  <2>1. SUFFICES ASSUME k + 1 <= n PROVE f[k + 1] = g[k + 1]
    OBVIOUS
  <2>2. k + 1 \in 1 .. n /\ (k + 1) - 1 = k
    BY <2>1
  <2>3. f[k + 1] = Read(f[k], text[k + 1]) /\ g[k + 1] = Read(g[k], text[k + 1])
    BY <2>2 DEF Accounts
  <2>4. f[k] = g[k]
    BY <1>2, <2>1
  <2> QED
    BY <2>3, <2>4
<1>3. Nat \subseteq Equal
  <2> HIDE DEF Equal
  <2> QED
    BY <1>1, <1>2, SetInduction
<1> QED
  BY <1>3

(* The accounts of the first characters can be made for every number.      *)
LEMMA SomeAccount ==
  ASSUME NEW text
  PROVE  \A n \in Nat : \E f : Accounts(f, text, n)
<1> DEFINE Made == {n \in Nat : \E f : Accounts(f, text, n)}
<1>1. 0 \in Made
  <2> DEFINE first == [k \in {0} |-> Nothing]
  <2>1. Accounts(first, text, 0)
    BY DEF Accounts
  <2> QED
    BY <2>1
<1>2. ASSUME NEW n \in Nat, n \in Made
      PROVE  n + 1 \in Made
  <2>1. PICK f : Accounts(f, text, n)
    BY <1>2
  <2> DEFINE g == [k \in 0 .. n + 1 |-> IF k = n + 1 THEN Read(f[n], text[n + 1]) ELSE f[k]]
  <2>2. g[0] = Nothing
    BY <2>1 DEF Accounts
  <2>3. ASSUME NEW k \in 1 .. n + 1
        PROVE  g[k] = Read(g[k - 1], text[k])
    <3>1. k - 1 \in 0 .. n + 1 /\ k - 1 # n + 1 /\ k \in 0 .. n + 1
      BY <2>3
    <3>2. g[k - 1] = f[k - 1]
      BY <3>1
    <3>3. CASE k = n + 1
      BY <3>1, <3>2, <3>3
    <3>4. CASE k # n + 1
      <4>1. k \in 1 .. n
        BY <3>4
      <4> QED
        BY <2>1, <3>1, <3>2, <3>4, <4>1 DEF Accounts
    <3> QED
      BY <3>3, <3>4
  <2>4. Accounts(g, text, n + 1)
    <3> HIDE DEF g
    <3> QED
      BY <2>2, <2>3 DEF Accounts
  <2> QED
    BY <2>4
<1>3. Nat \subseteq Made
  <2> HIDE DEF Made
  <2> QED
    BY <1>1, <1>2, SetInduction
<1> QED
  BY <1>3

(* The account is read a character at a time.                              *)
LEMMA AccountRead ==
  ASSUME NEW text
  PROVE  /\ AccountsOf(text)[0] = Nothing
         /\ \A n \in Nat : AccountsOf(text)[n + 1] = Read(AccountsOf(text)[n], text[n + 1])
<1> DEFINE Choice(n) == CHOOSE f : Accounts(f, text, n)
           all       == [n \in Nat |-> Choice(n)[n]]
           Recursion(a) == [n \in Nat |-> IF n = 0 THEN Nothing ELSE Read(a[n - 1], text[n])]
<1>1. \A n \in Nat : Accounts(Choice(n), text, n)
  BY SomeAccount
<1>2. ASSUME NEW n \in Nat
      PROVE  all[n] = IF n = 0 THEN Nothing ELSE Read(all[n - 1], text[n])
  <2>1. Accounts(Choice(n), text, n) /\ all[n] = Choice(n)[n]
    BY <1>1
  <2>2. CASE n = 0
    <3> HIDE DEF Choice, all
    <3> QED
      BY <2>1, <2>2 DEF Accounts
  <2>3. CASE n # 0
    <3>1. n - 1 \in Nat
      BY <2>3
    <3>2. Accounts(Choice(n - 1), text, n - 1) /\ all[n - 1] = Choice(n - 1)[n - 1]
      BY <1>1, <3>1
    <3> HIDE DEF Choice, all
    <3>3. Accounts(Choice(n), text, n - 1)
      BY <2>1, <3>1 DEF Accounts
    <3>4. Choice(n)[n - 1] = Choice(n - 1)[n - 1]
      BY <3>1, <3>2, <3>3, OneAccount
    <3>5. Choice(n)[n] = Read(Choice(n)[n - 1], text[n])
      BY <2>1, <2>3 DEF Accounts
    <3> QED
      BY <2>1, <2>3, <3>2, <3>4, <3>5
  <2> QED
    BY <2>2, <2>3
<1>3. all = Recursion(all)
  <2>1. all = [n \in Nat |-> all[n]]
    OBVIOUS
  <2> HIDE DEF all
  <2>2. [n \in Nat |-> all[n]]
          = [n \in Nat |-> IF n = 0 THEN Nothing ELSE Read(all[n - 1], text[n])]
    BY <1>2
  <2> QED
    BY <2>1, <2>2
<1>4. AccountsOf(text) = CHOOSE a : a = Recursion(a)
  BY DEF AccountsOf, Nothing
<1>5. AccountsOf(text) = Recursion(AccountsOf(text))
  <2> HIDE DEF all, Recursion
  <2> QED
    BY <1>3, <1>4
<1> DEFINE account == AccountsOf(text)
<1>6. account = [n \in Nat |-> IF n = 0 THEN Nothing ELSE Read(account[n - 1], text[n])]
  BY <1>5
<1> HIDE DEF account
<1>7. account[0] = Nothing
  BY <1>6
<1>8. ASSUME NEW n \in Nat
      PROVE  account[n + 1] = Read(account[n], text[n + 1])
  <2>1. n + 1 \in Nat /\ n + 1 # 0 /\ (n + 1) - 1 = n
    OBVIOUS
  <2> QED
    BY <1>6, <2>1
<1> QED
  BY <1>7, <1>8 DEF account

(* What one character does to the account, part by part of the source.     *)
CodeMarks    == {<<"/", "*">>, <<"/", "/">>}
CommentMarks == {<<"/", "*">>, <<"*", "/">>}

Half(c)        == IF c \in {"/", "*"} THEN c ELSE "none"
After(line, c) == IF c = "LF" THEN line + 1 ELSE line

LEMMA ReadCode ==
  ASSUME NEW held, NEW line, NEW c, <<held, c>> \notin CodeMarks
  PROVE  Read(Account("code", held, << >>, line), c)
           = IF c = Quote THEN Account("string", "none", <<line>>, After(line, c))
             ELSE Account("code", Half(c), << >>, After(line, c))
BY DEF Read, Account, CodeMarks, Half, After

LEMMA ReadCodeMark ==
  ASSUME NEW held, NEW line
  PROVE  /\ Read(Account("code", "/", << >>, line), "*") = Account("comment", "none", <<line>>, line)
         /\ Read(Account("code", "/", << >>, line), "/") = Account("line", "none", << >>, line)
BY DEF Read, Account

LEMMA ReadLine ==
  ASSUME NEW line, NEW c
  PROVE  Read(Account("line", "none", << >>, line), c)
           = IF c = "LF" THEN Account("code", "none", << >>, line + 1)
             ELSE Account("line", "none", << >>, line)
BY DEF Read, Account

LEMMA ReadString ==
  ASSUME NEW opened, NEW line, NEW c
  PROVE  Read(Account("string", "none", opened, line), c)
           = IF c = Quote THEN Account("code", "none", << >>, After(line, c))
             ELSE IF c = "\\" THEN Account("escape", "none", opened, line)
             ELSE Account("string", "none", opened, After(line, c))
<1>1. Quote # "\\" /\ Quote # "LF" /\ Quote # "/" /\ Quote # "*" /\ "\\" # "LF"
  BY Zenon DEF Quote
<1> QED
  BY <1>1 DEF Read, Account, After

LEMMA ReadEscape ==
  ASSUME NEW opened, NEW line, NEW c
  PROVE  Read(Account("escape", "none", opened, line), c) = Account("string", "none", opened, After(line, c))
BY DEF Read, Account, After

LEMMA ReadComment ==
  ASSUME NEW held, NEW opened, NEW line, NEW c, <<held, c>> \notin CommentMarks
  PROVE  Read(Account("comment", held, opened, line), c)
           = Account("comment", Half(c), opened, After(line, c))
BY DEF Read, Account, CommentMarks, Half, After

LEMMA ReadCommentMark ==
  ASSUME NEW opened, NEW line
  PROVE  /\ Read(Account("comment", "/", opened, line), "*")
              = Account("comment", "none", Append(opened, line), line)
         /\ Read(Account("comment", "*", opened, line), "/")
              = Account(IF Front(opened) = << >> THEN "code" ELSE "comment", "none", Front(opened), line)
BY DEF Read, Account

-----------------------------------------------------------------------------
(* What matches at a position.                                             *)

(* A mark of two characters is at a position if both are. *)
LEMMA MarkAt ==
  ASSUME input \in Seq(Characters), NEW a, NEW b, NEW p \in Nat \ {0}
  PROVE  IsAt(<<a, b>>, p) <=> p + 1 <= Len(input) /\ input[p] = a /\ input[p + 1] = b
<1>1. Len(<<a, b>>) = 2 /\ <<a, b>>[1] = a /\ <<a, b>>[2] = b
  OBVIOUS
<1>2. p + Len(<<a, b>>) - 1 = p + 1
  BY <1>1
<1>3. SUFFICES ASSUME p + 1 <= Len(input)
               PROVE  SubSeq(input, p, p + 1) = <<a, b>> <=> input[p] = a /\ input[p + 1] = b
  BY <1>2 DEF IsAt
<1> DEFINE two == SubSeq(input, p, p + 1)
<1>4. \A i \in p .. p + 1 : input[i] \in Characters
  BY <1>3
<1>5. two \in Seq(Characters) /\ Len(two) = 2 /\ two[1] = input[p] /\ two[2] = input[p + 1]
  BY <1>4, SubSeqProperties
<1>6. ASSUME input[p] = a, input[p + 1] = b
      PROVE  two = <<a, b>>
  <2>1. a \in Characters /\ b \in Characters
    BY <1>3, <1>4, <1>6
  <2>2. <<a, b>> \in Seq(Characters)
    BY <2>1
  <2>3. \A i \in 1 .. 2 : two[i] = <<a, b>>[i]
    BY <1>1, <1>5, <1>6
  <2> HIDE DEF two
  <2> QED
    BY <1>1, <1>5, <2>2, <2>3, SeqEqual
<1> HIDE DEF two
<1>7. SUFFICES two = <<a, b>> <=> input[p] = a /\ input[p + 1] = b
  BY DEF two
<1> QED
  BY <1>1, <1>5, <1>6

(* A run is of characters of its set.                                      *)
LEMMA RunIs ==
  ASSUME input \in Seq(Characters), NEW p \in 1 .. Len(input) + 1, NEW set
  PROVE  /\ RunOf(set, p) \in Nat
         /\ p + RunOf(set, p) <= Len(input) + 1
         /\ \A i \in p .. p + RunOf(set, p) - 1 : input[i] \in set
<1> DEFINE ends == {q \in p .. Len(input) : input[q] \notin set}
           end  == IF ends = {} THEN Len(input) + 1 ELSE Min(ends)
<1>1. RunOf(set, p) = end - p
  BY DEF RunOf
<1>2. Len(input) \in Nat /\ p \in Nat
  OBVIOUS
<1>3. end \in p .. Len(input) + 1 /\ \A i \in p .. end - 1 : i \notin ends
  <2>1. CASE ends = {}
    BY <1>2, <2>1
  <2>2. CASE ends # {}
    <3>1. ends \subseteq p .. Len(input) /\ ends \subseteq Nat
      BY <1>2
    <3> HIDE DEF ends
    <3>2. Min(ends) \in ends /\ \A n \in ends : Min(ends) <= n
      BY <2>2, <3>1, MinOfNat
    <3>3. Min(ends) \in p .. Len(input)
      BY <3>1, <3>2
    <3>4. \A i \in p .. Min(ends) - 1 : i \notin ends
      BY <1>2, <3>2, <3>3
    <3>5. end = Min(ends)
      BY <2>2
    <3> HIDE DEF end
    <3> QED
      BY <1>2, <3>3, <3>4, <3>5
  <2> QED
    BY <2>1, <2>2
<1>4. \A i \in p .. end - 1 : input[i] \in set
  <2> HIDE DEF end
  <2> QED
    BY <1>2, <1>3
<1> HIDE DEF end
<1> QED
  BY <1>1, <1>2, <1>3, <1>4

(* The line feeds of n characters, which Consume counts. *)
Lines(p, n) == Cardinality({i \in p .. p + n - 1 : input[i] = "LF"})

LEMMA LinesRead ==
  ASSUME NEW p \in Nat, NEW n \in Nat
  PROVE  /\ Lines(p, 0) = 0
         /\ Lines(p, n) \in Nat
         /\ Lines(p, n) <= n
         /\ Lines(p, n + 1) = After(Lines(p, n), input[p + n])
<1> DEFINE feeds(k) == {i \in p .. p + k - 1 : input[i] = "LF"}
<1>1. Lines(p, 0) = 0
  <2>1. feeds(0) = {}
    OBVIOUS
  <2> QED
    BY <2>1, FS_EmptySet DEF Lines
<1>2. IsFiniteSet(feeds(n)) /\ Cardinality(feeds(n)) \in 0 .. n
  <2>1. IsFiniteSet(p .. p + n - 1) /\ Cardinality(p .. p + n - 1) = n
    <3>1. p \in Int /\ p + n - 1 \in Int
      OBVIOUS
    <3>2. (IF p > p + n - 1 THEN 0 ELSE p + n - 1 - p + 1) = n
      OBVIOUS
    <3> QED
      BY <3>1, <3>2, FS_Interval
  <2>2. feeds(n) \in SUBSET (p .. p + n - 1)
    OBVIOUS
  <2> HIDE DEF feeds
  <2>3. IsFiniteSet(feeds(n)) /\ Cardinality(feeds(n)) <= Cardinality(p .. p + n - 1)
    BY <2>1, <2>2, FS_Subset, Zenon
  <2>4. Cardinality(feeds(n)) \in Nat
    BY <2>3, FS_CardinalityType
  <2> QED
    BY <2>1, <2>3, <2>4
<1>3. Lines(p, n + 1) = After(Lines(p, n), input[p + n])
  <2>1. CASE input[p + n] = "LF"
    <3>1. feeds(n + 1) = feeds(n) \cup {p + n} /\ p + n \notin feeds(n)
      BY <2>1
    <3>2. Cardinality(feeds(n + 1)) = Cardinality(feeds(n)) + 1
      <4> HIDE DEF feeds
      <4> QED
        BY <1>2, <3>1, FS_AddElement
    <3> QED
      BY <2>1, <3>2 DEF Lines, After
  <2>2. CASE input[p + n] # "LF"
    <3>1. feeds(n + 1) = feeds(n)
      BY <2>2
    <3> QED
      BY <2>2, <3>1 DEF Lines, After
  <2> QED
    BY <2>1, <2>2
<1> QED
  BY <1>1, <1>2, <1>3 DEF Lines

(* A character more of the source is one more of the account.              *)
LEMMA NextAccount ==
  ASSUME NEW p \in Nat \ {0}
  PROVE  AccountOf(p) = Read(AccountOf(p - 1), input[p])
<1>1. p - 1 \in Nat /\ (p - 1) + 1 = p
  OBVIOUS
<1> QED
  BY <1>1, AccountRead DEF AccountOf

(* Characters of the code without a quote or a mark leave it the code.     *)
LEMMA CodeRun ==
  ASSUME NEW p \in Nat \ {0}, NEW n \in Nat, NEW held, NEW line \in Nat,
         AccountOf(p - 1) = Account("code", held, << >>, line),
         n > 0 => <<held, input[p]>> \notin CodeMarks,
         \A i \in p .. p + n - 1 : input[i] # Quote,
         \A i \in p + 1 .. p + n - 1 : <<input[i - 1], input[i]>> \notin CodeMarks
  PROVE  \A k \in 0 .. n :
           AccountOf(p + k - 1)
             = Account("code", IF k = 0 THEN held ELSE Half(input[p + k - 1]), << >>, line + Lines(p, k))
<1> DEFINE half(k) == IF k = 0 THEN held ELSE Half(input[p + k - 1])
           Code(k) == AccountOf(p + k - 1) = Account("code", half(k), << >>, line + Lines(p, k))
           Read1   == {k \in Nat : k <= n => Code(k)}
<1>1. 0 \in Read1
  <2>1. Lines(p, 0) = 0 /\ p + 0 - 1 = p - 1 /\ line + 0 = line
    BY LinesRead
  <2> QED
    BY <2>1
<1>2. ASSUME NEW k \in Nat, k \in Read1
      PROVE  k + 1 \in Read1
  <2>1. SUFFICES ASSUME k + 1 <= n PROVE Code(k + 1)
    OBVIOUS
  <2>2. p + k \in Nat \ {0} /\ (p + k) - 1 = p + k - 1 /\ p + (k + 1) - 1 = p + k /\ k + 1 # 0
    OBVIOUS
  <2>3. Code(k)
    BY <1>2, <2>1
  <2>4. AccountOf(p + k) = Read(AccountOf(p + k - 1), input[p + k])
    BY <2>2, NextAccount
  <2>5. input[p + k] # Quote
    BY <2>1, <2>2
  <2>6. <<half(k), input[p + k]>> \notin CodeMarks
    <3>1. CASE k = 0
      BY <2>1, <3>1
    <3>2. CASE k # 0
      <4>1. p + k \in p + 1 .. p + n - 1
        BY <2>1, <3>2
      <4>2. <<input[p + k - 1], input[p + k]>> \notin CodeMarks
        BY <2>2, <4>1
      <4> QED
        BY <3>2, <4>2 DEF CodeMarks, Half
    <3> QED
      BY <3>1, <3>2
  <2>7. Lines(p, k + 1) = After(Lines(p, k), input[p + k]) /\ Lines(p, k) \in Nat
    BY <1>2, LinesRead
  <2>8. After(line + Lines(p, k), input[p + k]) = line + Lines(p, k + 1)
    BY <2>7 DEF After
  <2>9. half(k + 1) = Half(input[p + k])
    BY <2>2
  <2> DEFINE h == half(k)
             l == line + Lines(p, k)
             c == input[p + k]
  <2>10. AccountOf(p + k - 1) = Account("code", h, << >>, l)
    BY <2>3
  <2> HIDE DEF h, l, c, half
  <2>11. Read(Account("code", h, << >>, l), c) = Account("code", Half(c), << >>, After(l, c))
    BY <2>5, <2>6, ReadCode DEF h, c
  <2>12. AccountOf(p + k) = Account("code", half(k + 1), << >>, line + Lines(p, k + 1))
    BY <2>4, <2>8, <2>9, <2>10, <2>11 DEF l, c
  <2> QED
    BY <2>2, <2>12
<1>3. Nat \subseteq Read1
  <2> HIDE DEF Read1
  <2> QED
    BY <1>1, <1>2, SetInduction
<1> QED
  BY <1>3

(* A comment to the end of the line goes on without a line feed.           *)
LEMMA LineRun ==
  ASSUME NEW p \in Nat \ {0}, NEW n \in Nat, NEW line \in Nat,
         AccountOf(p - 1) = Account("line", "none", << >>, line),
         \A i \in p .. p + n - 1 : input[i] # "LF"
  PROVE  /\ \A k \in 0 .. n : AccountOf(p + k - 1) = Account("line", "none", << >>, line)
         /\ Lines(p, n) = 0
<1> DEFINE Same == {k \in Nat : k <= n => AccountOf(p + k - 1) = Account("line", "none", << >>, line)}
<1>1. 0 \in Same
  BY p + 0 - 1 = p - 1
<1>2. ASSUME NEW k \in Nat, k \in Same
      PROVE  k + 1 \in Same
  <2>1. SUFFICES ASSUME k + 1 <= n
                 PROVE  AccountOf(p + (k + 1) - 1) = Account("line", "none", << >>, line)
    OBVIOUS
  <2>2. p + k \in Nat \ {0} /\ (p + k) - 1 = p + k - 1 /\ p + (k + 1) - 1 = p + k
    OBVIOUS
  <2>3. AccountOf(p + k) = Read(AccountOf(p + k - 1), input[p + k])
    BY <2>2, NextAccount
  <2>4. input[p + k] # "LF"
    BY <2>1, <2>2
  <2> QED
    BY <1>2, <2>1, <2>2, <2>3, <2>4, ReadLine
<1>3. Nat \subseteq Same
  <2> HIDE DEF Same
  <2> QED
    BY <1>1, <1>2, SetInduction
<1>4. Lines(p, n) = 0
  <2>1. {i \in p .. p + n - 1 : input[i] = "LF"} = {}
    OBVIOUS
  <2> QED
    BY <2>1, FS_EmptySet DEF Lines
<1>5. \A k \in 0 .. n : AccountOf(p + k - 1) = Account("line", "none", << >>, line)
  <2>1. ASSUME NEW k \in 0 .. n
        PROVE  k \in Nat /\ k <= n
    OBVIOUS
  <2> QED
    BY <1>3, <2>1, Zenon
<1> QED
  BY <1>4, <1>5

(* What separates tokens: no character of a token is one of these, and a   *)
(* slash is a token of its own.                                            *)
Apart == {"LF", Quote}

LEMMA CharactersApart ==
  /\ (Letters \cup Digits \cup {"_"}) \cap (Apart \cup {"/"}) = {}
  /\ Digits \cap (Apart \cup {"/"}) = {}
  /\ "." \notin Apart \cup {"/"}
  /\ Singles \cap Apart = {}
  /\ Blanks \cap {Quote, "/"} = {}
<1>1. \A c \in Letters \cup Digits \cup {"_"} : c \notin Apart \cup {"/"}
  BY Zenon DEF Letters, Digits, Apart, Quote
<1>2. \A c \in Singles : c \notin Apart
  BY Zenon DEF Singles, Apart, Quote
<1>3. \A c \in Blanks : c \notin {Quote, "/"}
  BY Zenon DEF Blanks, Quote
<1>4. "." \notin Apart \cup {"/"}
  BY Zenon DEF Apart, Quote
<1> QED
  BY <1>1, <1>2, <1>3, <1>4, Zenon

DoubleParts == {"=", "!", "+", "-", ">", "<", ":", "."}

LEMMA DoublesApart ==
  /\ \A double \in Doubles : \E a, b \in DoubleParts : double = <<a, b>>
  /\ DoubleParts \cap (Apart \cup {"/"}) = {}
<1>1. \A double \in Doubles : \E a, b \in DoubleParts : double = <<a, b>>
  BY Zenon DEF Doubles, DoubleParts
<1>2. \A c \in DoubleParts : c \notin Apart \cup {"/"}
  BY Zenon DEF DoubleParts, Apart, Quote
<1> QED
  BY <1>1, <1>2, Zenon

(* One character at a position.                                            *)
LEMMA CharacterAt ==
  ASSUME input \in Seq(Characters), NEW a, NEW p \in Nat \ {0}, IsAt(<<a>>, p)
  PROVE  p <= Len(input) /\ input[p] = a
<1>1. Len(<<a>>) = 1 /\ <<a>>[1] = a /\ p + 1 - 1 = p
  OBVIOUS
<1>2. p <= Len(input) /\ SubSeq(input, p, p) = <<a>>
  BY <1>1 DEF IsAt
<1>3. \A i \in p .. p : input[i] \in Characters
  BY <1>2
<1>4. SubSeq(input, p, p)[1] = input[p]
  BY <1>3, SubSeqProperties
<1> QED
  BY <1>1, <1>2, <1>4

(* The characters of a match: a token ends within the source, and holds no *)
(* line feed, no quote, and no slash unless it is one.                     *)
IsMatch(p, n) ==
  /\ n \in Nat
  /\ p + n <= Len(input) + 1
  /\ \A i \in p .. p + n - 1 : input[i] \notin Apart
  /\ n = 1 \/ \A i \in p .. p + n - 1 : input[i] # "/"

LEMMA RunMatches ==
  ASSUME input \in Seq(Characters), NEW p \in 1 .. Len(input) + 1, NEW set,
         set \cap (Apart \cup {"/"}) = {}
  PROVE  IsMatch(p, RunOf(set, p))
<1> DEFINE n == RunOf(set, p)
<1>1. n \in Nat /\ p + n <= Len(input) + 1 /\ \A i \in p .. p + n - 1 : input[i] \in set
  BY RunIs
<1> HIDE DEF n
<1>2. \A i \in p .. p + n - 1 : input[i] \notin Apart /\ input[i] # "/"
  BY <1>1, Zenon
<1> QED
  BY <1>1, <1>2 DEF IsMatch, n

LEMMA RealMatches ==
  ASSUME input \in Seq(Characters), NEW p \in 1 .. Len(input)
  PROVE  IsMatch(p, RealAt(p))
<1> DEFINE whole == RunOf(Digits, p)
           dot   == p + whole
           part  == RunOf(Digits, dot + 1)
<1>0. Len(input) \in Nat /\ p \in 1 .. Len(input) + 1
  OBVIOUS
<1>1. RealAt(p) = 0 \/ (IsAt(<<".">>, dot) /\ RealAt(p) = whole + 1 + part)
  BY DEF RealAt
<1>2. whole \in Nat /\ dot <= Len(input) + 1 /\ \A i \in p .. dot - 1 : input[i] \in Digits
  BY <1>0, RunIs
<1>3. CASE RealAt(p) = 0
  BY <1>0, <1>3 DEF IsMatch
<1>4. CASE IsAt(<<".">>, dot) /\ RealAt(p) = whole + 1 + part
  <2> HIDE DEF whole
  <2>1. dot \in Nat \ {0}
    BY <1>2
  <2>2. dot <= Len(input) /\ input[dot] = "."
    BY <1>4, <2>1, CharacterAt
  <2>3. dot + 1 \in 1 .. Len(input) + 1
    BY <2>1, <2>2
  <2>4. /\ part \in Nat
        /\ dot + 1 + part <= Len(input) + 1
        /\ \A i \in dot + 1 .. dot + 1 + part - 1 : input[i] \in Digits
    BY <2>3, RunIs
  <2> HIDE DEF part
  <2>5. \A i \in p .. dot + part : input[i] \in Digits \/ input[i] = "."
    <3>1. ASSUME NEW i \in p .. dot + part
          PROVE  i \in p .. dot - 1 \/ i = dot \/ i \in dot + 1 .. dot + 1 + part - 1
      BY <2>1, <2>4
    <3> HIDE DEF dot
    <3> QED
      BY <1>2, <2>2, <2>4, <3>1
  <2>6. \A i \in p .. dot + part : input[i] \notin Apart /\ input[i] # "/"
    BY <2>5, CharactersApart, Zenon
  <2>7. RealAt(p) \in Nat /\ p + RealAt(p) - 1 = dot + part /\ p + RealAt(p) <= Len(input) + 1
    BY <1>2, <1>4, <2>4
  <2> HIDE DEF dot
  <2> QED
    BY <2>6, <2>7 DEF IsMatch
<1> QED
  BY <1>1, <1>3, <1>4

LEMMA OperatorMatches ==
  ASSUME input \in Seq(Characters), NEW p \in 1 .. Len(input)
  PROVE  IsMatch(p, OperatorAt(p))
<1>0. Len(input) \in Nat /\ p \in Nat \ {0} /\ p <= Len(input)
  OBVIOUS
<1>1. CASE \E double \in Doubles : IsAt(double, p)
  <2>1. OperatorAt(p) = 2
    BY <1>1 DEF OperatorAt
  <2>2. PICK double \in Doubles : IsAt(double, p)
    BY <1>1
  <2>3. PICK a \in DoubleParts, b \in DoubleParts : double = <<a, b>>
    BY DoublesApart
  <2>4. p + 1 <= Len(input) /\ input[p] = a /\ input[p + 1] = b
    BY <1>0, <2>2, <2>3, MarkAt
  <2>5. \A i \in p .. p + 1 : i = p \/ i = p + 1
    BY <1>0
  <2>6. \A i \in p .. p + 1 : input[i] \in DoubleParts
    BY <2>4, <2>5
  <2>7. \A i \in p .. p + 1 : input[i] \notin Apart /\ input[i] # "/"
    BY <2>6, DoublesApart, Zenon
  <2>8. p + 2 - 1 = p + 1 /\ p + 2 <= Len(input) + 1
    BY <1>0, <2>4
  <2> QED
    BY <2>1, <2>7, <2>8 DEF IsMatch
<1>2. CASE ~(\E double \in Doubles : IsAt(double, p)) /\ input[p] \in Singles
  <2>1. OperatorAt(p) = 1
    BY <1>2, Zenon DEF OperatorAt
  <2>2. \A i \in p .. p + 1 - 1 : i = p
    BY <1>0
  <2>3. \A i \in p .. p + 1 - 1 : input[i] \notin Apart
    BY <1>2, <2>2, CharactersApart, Zenon
  <2> QED
    BY <1>0, <2>1, <2>3 DEF IsMatch
<1>3. CASE ~(\E double \in Doubles : IsAt(double, p)) /\ input[p] \notin Singles
  <2>1. OperatorAt(p) = 0
    BY <1>3, Zenon DEF OperatorAt
  <2> QED
    BY <1>0, <2>1 DEF IsMatch
<1> QED
  BY <1>1, <1>2, <1>3

LEMMA TokensMatch ==
  ASSUME input \in Seq(Characters), NEW p \in 1 .. Len(input), NEW kind \in DOMAIN Matches(p)
  PROVE  IsMatch(p, Matches(p)[kind])
<1>0. p \in 1 .. Len(input) + 1 /\ Len(input) \in Nat
  OBVIOUS
<1>1. IsMatch(p, WordAt(p))
  <2>1. IsMatch(p, 0)
    BY <1>0 DEF IsMatch
  <2>2. IsMatch(p, RunOf(Letters \cup Digits \cup {"_"}, p))
    BY <1>0, CharactersApart, RunMatches
  <2> QED
    BY <2>1, <2>2, Zenon DEF WordAt
<1>2. IsMatch(p, RunOf(Digits, p))
  BY <1>0, CharactersApart, RunMatches
<1>3. IsMatch(p, RealAt(p)) /\ IsMatch(p, OperatorAt(p))
  BY RealMatches, OperatorMatches
<1>4. kind \in {"WORD", "CONST_INT", "CONST_REAL", "OPERATOR"}
  BY DEF Matches
<1>5. /\ Matches(p)["WORD"] = WordAt(p)
      /\ Matches(p)["CONST_INT"] = RunOf(Digits, p)
      /\ Matches(p)["CONST_REAL"] = RealAt(p)
      /\ Matches(p)["OPERATOR"] = OperatorAt(p)
  BY DEF Matches
<1> QED
  BY <1>1, <1>2, <1>3, <1>4, <1>5

-----------------------------------------------------------------------------
(* The inductive invariant.                                                *)

Conditions == {"INITIAL", "X_STR", "X_STR_ESC", "X_LINE_COMMENT"} \cup CommentStarts
Kinds      == {"WORD", "CONST_INT", "CONST_REAL", "OPERATOR", "CONST_STR"}
Outcomes   == {"scanning", "eof", "undefined", "invalid_escaped_sequence",
               "open_comment", "open_string"}

Types ==
  /\ input \in Seq(Characters)
  /\ pos \in Nat \ {0} /\ pos <= Len(input) + 1
  /\ start \in Conditions
  /\ states \in Seq(Conditions)
  /\ stack_comment \in Seq(Nat)
  /\ Len(states) = Len(stack_comment)
  /\ str_open_lineno \in Int
  /\ yylineno \in Nat \ {0} /\ yylineno <= pos
  /\ outcome.what \in Outcomes

TokenTypes ==
  /\ tokens \in Seq(Range(tokens))
  /\ \A k \in 1 .. Len(tokens) :
       /\ tokens[k].kind \in Kinds
       /\ tokens[k].kind # "CONST_STR" => tokens[k].from \in Int /\ tokens[k].to \in Int

(* The start condition is as deep as the stack, and returns to what it     *)
(* came from: the program below a comment below comments.                  *)
ConditionAt(depth) ==
  IF depth = 0 THEN "INITIAL" ELSE IF depth = 1 THEN "X_BLOCK_COMMENT" ELSE "X_NESTED_COMMENT"

Nesting ==
  /\ start \in {"INITIAL"} \cup CommentStarts => start = ConditionAt(Len(states))
  /\ start \notin CommentStarts => states = << >>
  /\ \A i \in 1 .. Len(states) : states[i] = ConditionAt(i - 1)

(* The account of what was consumed is that of the start condition, with   *)
(* no mark half read: the scanner takes a mark as a whole.                 *)
Halves == {"none", "/", "*"}
At(in, held, opened) == AccountOf(pos - 1) = Account(in, held, opened, yylineno)
Unfinished(held, marks) == pos <= Len(input) => <<held, input[pos]>> \notin marks

InSource ==
  /\ start = "INITIAL" =>
       \E held \in Halves : At("code", held, << >>) /\ Unfinished(held, CodeMarks)
  /\ start \in CommentStarts =>
       \E held \in Halves : At("comment", held, stack_comment) /\ Unfinished(held, CommentMarks)
  /\ start = "X_LINE_COMMENT" => At("line", "none", << >>)
  /\ start = "X_STR"          => At("string", "none", <<str_open_lineno>>)
  /\ start = "X_STR_ESC"      => At("escape", "none", <<str_open_lineno>>)

Ended ==
  /\ outcome.what = "eof" => pos = Len(input) + 1
  /\ outcome.what = "open_comment" => start \in CommentStarts /\ outcome.line = Last(stack_comment)
  /\ outcome.what = "open_string" => start = "X_STR" /\ outcome.line = str_open_lineno

(* Every character of the code that was consumed has its one token.        *)
AllTaken ==
  /\ \A k \in 1 .. Len(tokens) : tokens[k].kind # "CONST_STR" => tokens[k].to < pos
  /\ \A i \in 1 .. pos - 1 :
       Plain(i) /\ ~OpensComment(i) => \E k \in 1 .. Len(tokens) : TokensAt(i) = {k}

IInv == Types /\ TokenTypes /\ Nesting /\ InSource /\ Ended /\ AllTaken

(* Consuming characters.                                                   *)
LEMMA Consumed ==
  ASSUME Types, input' = input, NEW n \in Nat, pos + n <= Len(input) + 1, Consume(n)
  PROVE  /\ pos' = pos + n /\ pos' \in Nat \ {0} /\ pos' <= Len(input') + 1
         /\ yylineno' = yylineno + Lines(pos, n)
         /\ yylineno' \in Nat \ {0} /\ yylineno' <= pos'
<1>1. pos \in Nat \ {0} /\ yylineno \in Nat \ {0} /\ yylineno <= pos
  BY DEF Types
<1>2. pos' = pos + n /\ yylineno' = yylineno + Lines(pos, n)
  BY DEF Consume, Lines
<1>3. Lines(pos, n) \in Nat /\ Lines(pos, n) <= n
  BY <1>1, LinesRead
<1> QED
  BY <1>1, <1>2, <1>3

LEMMA ConsumedOne ==
  ASSUME Types, input' = input, pos <= Len(input), Consume(1)
  PROVE  /\ pos' = pos + 1 /\ pos' \in Nat \ {0} /\ pos' <= Len(input') + 1
         /\ yylineno' = After(yylineno, input[pos])
         /\ yylineno' \in Nat \ {0} /\ yylineno' <= pos'
         /\ AccountOf(pos) = Read(AccountOf(pos - 1), input[pos])
         /\ AccountOf(pos - 1)' = AccountOf(pos)
<1>1. pos \in Nat \ {0} /\ Len(input) \in Nat /\ yylineno \in Nat
  BY DEF Types
<1>2. /\ pos' = pos + 1 /\ pos' \in Nat \ {0} /\ pos' <= Len(input') + 1
      /\ yylineno' = yylineno + Lines(pos, 1)
      /\ yylineno' \in Nat \ {0} /\ yylineno' <= pos'
  BY <1>1, Consumed
<1>3. Lines(pos, 1) = After(0, input[pos])
  <2>1. Lines(pos, 0) = 0 /\ Lines(pos, 0 + 1) = After(Lines(pos, 0), input[pos + 0])
    BY <1>1, LinesRead
  <2>2. pos + 0 = pos
    BY <1>1
  <2> QED
    BY <2>1, <2>2
<1>4. yylineno' = After(yylineno, input[pos])
  BY <1>1, <1>2, <1>3 DEF After
<1>5. AccountOf(pos) = Read(AccountOf(pos - 1), input[pos])
  BY <1>1, NextAccount
<1>6. AccountOf(pos - 1)' = AccountOf(pos)
  <2>1. pos' - 1 = pos
    BY <1>1, <1>2
  <2> QED
    BY <2>1 DEF AccountOf
<1> QED
  BY <1>2, <1>4, <1>5, <1>6

(* The two characters of a mark.                                           *)
LEMMA ConsumedMark ==
  ASSUME Types, input' = input, NEW a, NEW b, IsAt(<<a, b>>, pos), a # "LF", b # "LF", Consume(2)
  PROVE  /\ pos + 1 <= Len(input) /\ input[pos] = a /\ input[pos + 1] = b
         /\ pos' = pos + 2 /\ pos' \in Nat \ {0} /\ pos' <= Len(input') + 1
         /\ yylineno' = yylineno /\ yylineno' <= pos'
         /\ AccountOf(pos) = Read(AccountOf(pos - 1), a)
         /\ AccountOf(pos + 1) = Read(AccountOf(pos), b)
         /\ AccountOf(pos - 1)' = AccountOf(pos + 1)
<1>1. pos \in Nat \ {0} /\ Len(input) \in Nat /\ yylineno \in Nat
  BY DEF Types
<1>2. pos + 1 <= Len(input) /\ input[pos] = a /\ input[pos + 1] = b
  BY <1>1, MarkAt DEF Types
<1>3. /\ pos' = pos + 2 /\ pos' \in Nat \ {0} /\ pos' <= Len(input') + 1
      /\ yylineno' = yylineno + Lines(pos, 2) /\ yylineno' <= pos'
  BY <1>1, <1>2, Consumed
<1>4. Lines(pos, 2) = 0
  <2>1. \A i \in pos .. pos + 2 - 1 : i = pos \/ i = pos + 1
    BY <1>1
  <2>2. {i \in pos .. pos + 2 - 1 : input[i] = "LF"} = {}
    BY <1>2, <2>1
  <2> QED
    BY <2>2, FS_EmptySet DEF Lines
<1>5. AccountOf(pos) = Read(AccountOf(pos - 1), a)
  BY <1>1, <1>2, NextAccount
<1>6. AccountOf(pos + 1) = Read(AccountOf(pos), b)
  <2>1. pos + 1 \in Nat \ {0} /\ (pos + 1) - 1 = pos
    BY <1>1
  <2> QED
    BY <1>2, <2>1, NextAccount
<1>7. AccountOf(pos - 1)' = AccountOf(pos + 1)
  <2>1. pos' - 1 = pos + 1
    BY <1>1, <1>3
  <2> QED
    BY <2>1 DEF AccountOf
<1> QED
  BY <1>1, <1>2, <1>3, <1>4, <1>5, <1>6, <1>7

(* Tokens: one more, or none.                                              *)
LEMMA OneMoreToken ==
  ASSUME TokenTypes, NEW token, tokens' = Append(tokens, token), token.kind \in Kinds,
         token.kind # "CONST_STR" => token.from \in Int /\ token.to \in Int
  PROVE  /\ TokenTypes'
         /\ Len(tokens) \in Nat /\ Len(tokens') = Len(tokens) + 1
         /\ DOMAIN tokens = 1 .. Len(tokens) /\ DOMAIN tokens' = 1 .. Len(tokens) + 1
         /\ \A k \in 1 .. Len(tokens) : tokens'[k] = tokens[k]
         /\ tokens'[Len(tokens) + 1] = token
<1> DEFINE S == Range(tokens) \cup {token}
<1>1. tokens \in Seq(S) /\ token \in S
  BY DEF TokenTypes
<1>2. /\ tokens' \in Seq(S) /\ Len(tokens') = Len(tokens) + 1
      /\ \A k \in 1 .. Len(tokens) : tokens'[k] = tokens[k]
      /\ tokens'[Len(tokens) + 1] = token
  <2> HIDE DEF S
  <2> QED
    BY <1>1, AppendProperties
<1>3. Len(tokens) \in Nat /\ DOMAIN tokens = 1 .. Len(tokens) /\ DOMAIN tokens' = 1 .. Len(tokens) + 1
  <2> HIDE DEF S
  <2> QED
    BY <1>1, <1>2
<1>4. tokens' \in Seq(Range(tokens'))
  <2> HIDE DEF S
  <2> QED
    BY <1>2, SeqOfRange
<1>5. \A k \in 1 .. Len(tokens') :
        /\ tokens'[k].kind \in Kinds
        /\ tokens'[k].kind # "CONST_STR" => tokens'[k].from \in Int /\ tokens'[k].to \in Int
  <2>1. \A k \in 1 .. Len(tokens') : k \in 1 .. Len(tokens) \/ k = Len(tokens) + 1
    BY <1>2, <1>3
  <2> HIDE DEF S
  <2> QED
    BY <1>2, <2>1 DEF TokenTypes
<1> QED
  BY <1>2, <1>3, <1>4, <1>5 DEF TokenTypes

(* What is consumed without a token is no code, or opens a comment.        *)
LEMMA NothingTaken ==
  ASSUME Types, TokenTypes, AllTaken, input' = input, NEW n \in Nat, pos' = pos + n,
         tokens' = tokens, \A i \in pos .. pos + n - 1 : Plain(i) => OpensComment(i)
  PROVE  TokenTypes' /\ AllTaken'
<1>1. pos \in Nat \ {0}
  BY DEF Types
<1>2. \A i : (Plain(i)' <=> Plain(i)) /\ (OpensComment(i)' <=> OpensComment(i))
               /\ TokensAt(i)' = TokensAt(i)
  BY DEF Plain, OpensComment, TokensAt, AccountOf
<1>3. TokenTypes'
  BY DEF TokenTypes
<1>4. \A k \in 1 .. Len(tokens') : tokens'[k].kind # "CONST_STR" => tokens'[k].to < pos'
  BY <1>1 DEF AllTaken, TokenTypes
<1>5. ASSUME NEW i \in 1 .. pos' - 1, Plain(i)', ~OpensComment(i)'
      PROVE  \E k \in 1 .. Len(tokens') : TokensAt(i)' = {k}
  <2>1. Plain(i) /\ ~OpensComment(i)
    BY <1>2, <1>5
  <2>2. i \notin pos .. pos + n - 1
    BY <2>1
  <2>3. i \in 1 .. pos - 1
    BY <1>1, <2>2
  <2>4. \E k \in 1 .. Len(tokens) : TokensAt(i) = {k}
    BY <2>1, <2>3 DEF AllTaken
  <2> QED
    BY <1>2, <2>4
<1> QED
  BY <1>3, <1>4, <1>5 DEF AllTaken

(* A string takes no character of the code.                                *)
LEMMA StringTaken ==
  ASSUME Types, TokenTypes, AllTaken, input' = input, pos' = pos + 1,
         NEW token, token.kind = "CONST_STR", tokens' = Append(tokens, token), ~Plain(pos)
  PROVE  TokenTypes' /\ AllTaken'
<1>1. pos \in Nat \ {0}
  BY DEF Types
<1>2. \A i : (Plain(i)' <=> Plain(i)) /\ (OpensComment(i)' <=> OpensComment(i))
  BY DEF Plain, OpensComment, AccountOf
<1>3. /\ TokenTypes'
      /\ Len(tokens) \in Nat /\ Len(tokens') = Len(tokens) + 1
      /\ DOMAIN tokens = 1 .. Len(tokens) /\ DOMAIN tokens' = 1 .. Len(tokens) + 1
      /\ \A k \in 1 .. Len(tokens) : tokens'[k] = tokens[k]
      /\ tokens'[Len(tokens) + 1] = token
  <2>1. token.kind \in Kinds /\ (token.kind # "CONST_STR" => token.from \in Int /\ token.to \in Int)
    BY DEF Kinds
  <2> QED
    BY <2>1, OneMoreToken
<1>4. \A k \in 1 .. Len(tokens) + 1 : k \in 1 .. Len(tokens) \/ k = Len(tokens) + 1
  BY <1>3
<1>5. \A i : TokensAt(i)' = TokensAt(i)
  <2>1. ASSUME NEW i PROVE \A k : k \in TokensAt(i)' <=> k \in TokensAt(i)
    BY <1>3, <1>4 DEF TokensAt
  <2> QED
    BY <2>1 DEF TokensAt
<1>6. \A k \in 1 .. Len(tokens') : tokens'[k].kind # "CONST_STR" => tokens'[k].to < pos'
  <2>1. ASSUME NEW k \in 1 .. Len(tokens), tokens[k].kind # "CONST_STR"
        PROVE  tokens[k].to < pos'
    BY <1>1, <2>1 DEF AllTaken, TokenTypes
  <2> QED
    BY <1>3, <1>4, <2>1
<1>7. ASSUME NEW i \in 1 .. pos' - 1, Plain(i)', ~OpensComment(i)'
      PROVE  \E k \in 1 .. Len(tokens') : TokensAt(i)' = {k}
  <2>1. Plain(i) /\ ~OpensComment(i)
    BY <1>2, <1>7
  <2>2. i # pos
    BY <2>1
  <2>3. i \in 1 .. pos - 1
    BY <1>1, <2>2
  <2>4. PICK k \in 1 .. Len(tokens) : TokensAt(i) = {k}
    BY <2>1, <2>3 DEF AllTaken
  <2>5. k \in 1 .. Len(tokens')
    BY <1>3
  <2> QED
    BY <1>5, <2>4, <2>5
<1> QED
  BY <1>3, <1>6, <1>7 DEF AllTaken

(* A token takes what it consumes, and no other token does.                *)
LEMMA TokenTaken ==
  ASSUME Types, TokenTypes, AllTaken, input' = input, NEW n \in Nat \ {0}, pos' = pos + n,
         NEW kind \in Kinds \ {"CONST_STR"},
         tokens' = Append(tokens, [kind |-> kind, from |-> pos, to |-> pos + n - 1])
  PROVE  TokenTypes' /\ AllTaken'
<1> DEFINE token == [kind |-> kind, from |-> pos, to |-> pos + n - 1]
           new   == Len(tokens) + 1
<1>1. pos \in Nat \ {0}
  BY DEF Types
<1>2. \A i : (Plain(i)' <=> Plain(i)) /\ (OpensComment(i)' <=> OpensComment(i))
  BY DEF Plain, OpensComment, AccountOf
<1>3. token.kind = kind /\ token.from = pos /\ token.to = pos + n - 1
  OBVIOUS
<1> HIDE DEF token
<1>4. /\ TokenTypes'
      /\ Len(tokens) \in Nat /\ Len(tokens') = new
      /\ DOMAIN tokens = 1 .. Len(tokens) /\ DOMAIN tokens' = 1 .. new
      /\ \A k \in 1 .. Len(tokens) : tokens'[k] = tokens[k]
      /\ tokens'[new] = token
  <2>1. token.kind \in Kinds /\ token.from \in Int /\ token.to \in Int
    BY <1>1, <1>3
  <2>2. tokens' = Append(tokens, token)
    BY DEF token
  <2> QED
    BY <2>1, <2>2, OneMoreToken
<1>5. \A k \in 1 .. new : k \in 1 .. Len(tokens) \/ k = new
  BY <1>4
<1>6. new \in 1 .. new /\ new \notin 1 .. Len(tokens)
  BY <1>4
<1> HIDE DEF new
<1>7. \A k \in 1 .. Len(tokens') : tokens'[k].kind # "CONST_STR" => tokens'[k].to < pos'
  <2>1. ASSUME NEW k \in 1 .. Len(tokens), tokens[k].kind # "CONST_STR"
        PROVE  tokens[k].to < pos'
    BY <1>1, <2>1 DEF AllTaken, TokenTypes
  <2>2. token.to < pos'
    BY <1>1, <1>3
  <2> QED
    BY <1>4, <1>5, <2>1, <2>2
<1>8. ASSUME NEW i \in pos .. pos + n - 1
      PROVE  TokensAt(i)' = {new}
  <2>1. ASSUME NEW k \in 1 .. Len(tokens), tokens[k].kind # "CONST_STR"
        PROVE  i \notin tokens[k].from .. tokens[k].to
    BY <1>1, <2>1 DEF AllTaken, TokenTypes
  <2>2. i \in token.from .. token.to /\ token.kind # "CONST_STR"
    BY <1>3
  <2>3. \A k : k \in TokensAt(i)' <=> k = new
    BY <1>4, <1>5, <1>6, <2>1, <2>2 DEF TokensAt
  <2> QED
    BY <2>3
<1>9. ASSUME NEW i \in 1 .. pos - 1
      PROVE  TokensAt(i)' = TokensAt(i)
  <2>1. i \notin token.from .. token.to
    BY <1>1, <1>3
  <2>2. \A k : k \in TokensAt(i)' <=> k \in TokensAt(i)
    BY <1>4, <1>5, <1>6, <2>1 DEF TokensAt
  <2> QED
    BY <2>2 DEF TokensAt
<1>10. ASSUME NEW i \in 1 .. pos' - 1, Plain(i)', ~OpensComment(i)'
       PROVE  \E k \in 1 .. Len(tokens') : TokensAt(i)' = {k}
  <2>1. CASE i \in pos .. pos + n - 1
    BY <1>4, <1>6, <1>8, <2>1
  <2>2. CASE i \notin pos .. pos + n - 1
    <3>1. i \in 1 .. pos - 1
      BY <1>1, <2>2
    <3>2. PICK k \in 1 .. Len(tokens) : TokensAt(i) = {k}
      BY <1>2, <1>10, <3>1 DEF AllTaken
    <3>3. k \in 1 .. Len(tokens')
      BY <1>4 DEF new
    <3> QED
      BY <1>9, <3>1, <3>2, <3>3
  <2> QED
    BY <2>1, <2>2
<1> QED
  BY <1>4, <1>7, <1>10 DEF AllTaken

-----------------------------------------------------------------------------
(* The actions: first those of the code.                                   *)

(* What an action in a start condition starts from. *)
LEMMA InConditionMeans ==
  ASSUME IInv, NEW conditions, InCondition(conditions)
  PROVE  /\ start \in conditions /\ outcome.what = "scanning"
         /\ pos \in 1 .. Len(input) /\ pos \in Nat \ {0} /\ Len(input) \in Nat
BY DEF IInv, InCondition, Scanning, Types

(* A scanner that goes on has no result yet.                               *)
LEMMA GoesOn ==
  ASSUME outcome.what = "scanning", outcome' = outcome
  PROVE  Ended'
BY DEF Ended

(* In the code, the code goes on.                                          *)
LEMMA CodeGoesOn ==
  ASSUME start' = "INITIAL", NEW held \in Halves,
         AccountOf(pos - 1)' = Account("code", held, << >>, yylineno'),
         pos' <= Len(input') => <<held, input'[pos']>> \notin CodeMarks
  PROVE  InSource'
BY DEF InSource, At, Unfinished, CommentStarts

LEMMA InCode ==
  ASSUME IInv, start = "INITIAL", pos <= Len(input)
  PROVE  /\ states = << >> /\ stack_comment = << >>
         /\ \E held \in Halves : /\ AccountOf(pos - 1) = Account("code", held, << >>, yylineno)
                                 /\ <<held, input[pos]>> \notin CodeMarks
<1>1. states = << >>
  BY DEF IInv, Nesting, CommentStarts
<1>2. stack_comment = << >>
  <2>1. Len(stack_comment) = 0 /\ stack_comment \in Seq(Nat)
    BY <1>1 DEF IInv, Types
  <2> QED
    BY <2>1
<1> QED
  BY <1>1, <1>2 DEF IInv, InSource, At, Unfinished

(* A run of characters of the code, whose last one does not begin a mark.  *)
LEMMA RunOfCode ==
  ASSUME IInv, start = "INITIAL", pos <= Len(input), input' = input, start' = start,
         NEW n \in Nat, pos + n <= Len(input) + 1, Consume(n),
         \A i \in pos .. pos + n - 1 : input[i] # Quote,
         n = 1 \/ \A i \in pos .. pos + n - 1 : input[i] # "/",
         ~CommentMark(pos)
  PROVE  InSource'
<1>1. pos \in Nat \ {0} /\ Len(input) \in Nat /\ yylineno \in Nat /\ Types /\ input \in Seq(Characters)
  BY DEF IInv, Types
<1>2. PICK held \in Halves : /\ AccountOf(pos - 1) = Account("code", held, << >>, yylineno)
                             /\ <<held, input[pos]>> \notin CodeMarks
  BY InCode
<1>3. pos' = pos + n /\ yylineno' = yylineno + Lines(pos, n)
  BY <1>1, Consumed
<1>4. \A i \in pos + 1 .. pos + n - 1 : <<input[i - 1], input[i]>> \notin CodeMarks
  <2>1. ASSUME NEW i \in pos + 1 .. pos + n - 1
        PROVE  i - 1 \in pos .. pos + n - 1 /\ n # 1
    BY <1>1
  <2>2. ASSUME NEW i \in pos + 1 .. pos + n - 1
        PROVE  input[i - 1] # "/"
    BY <2>1
  <2> QED
    BY <2>2 DEF CodeMarks
<1> DEFINE last == IF n = 0 THEN held ELSE Half(input[pos + n - 1])
<1>5. AccountOf(pos + n - 1) = Account("code", last, << >>, yylineno + Lines(pos, n))
  <2>1. \A k \in 0 .. n :
          AccountOf(pos + k - 1)
            = Account("code", IF k = 0 THEN held ELSE Half(input[pos + k - 1]), << >>, yylineno + Lines(pos, k))
    BY <1>1, <1>2, <1>4, CodeRun
  <2>2. n \in 0 .. n
    OBVIOUS
  <2> QED
    BY <2>1, <2>2
<1>6. AccountOf(pos - 1)' = AccountOf(pos + n - 1)
  <2>1. pos' - 1 = pos + n - 1
    BY <1>1, <1>3
  <2> QED
    BY <2>1 DEF AccountOf
<1>7. last \in Halves
  BY DEF Half, Halves
<1>8. pos + n <= Len(input) => <<last, input[pos + n]>> \notin CodeMarks
  <2>1. SUFFICES ASSUME pos + n <= Len(input) PROVE <<last, input[pos + n]>> \notin CodeMarks
    OBVIOUS
  <2>2. CASE n = 0
    BY <1>1, <1>2, <2>2
  <2>3. CASE n = 1
    <3>1. pos + n - 1 = pos /\ pos + n = pos + 1 /\ pos + 1 <= Len(input) /\ n # 0
      BY <1>1, <2>1, <2>3
    <3>2. ~(input[pos] = "/" /\ input[pos + 1] \in {"*", "/"})
      BY <1>1, <3>1, MarkAt DEF CommentMark
    <3>3. last = Half(input[pos])
      BY <3>1
    <3> HIDE DEF last
    <3> QED
      BY <3>1, <3>2, <3>3 DEF CodeMarks, Half
  <2>4. CASE n \notin {0, 1}
    <3>1. pos + n - 1 \in pos .. pos + n - 1
      BY <1>1, <2>4
    <3>2. input[pos + n - 1] # "/"
      BY <2>4, <3>1
    <3> QED
      BY <2>4, <3>2 DEF CodeMarks, Half
  <2> QED
    BY <2>2, <2>3, <2>4
<1> HIDE DEF last
<1> QED
  BY <1>3, <1>5, <1>6, <1>7, <1>8, CodeGoesOn

LEMMA TokenKeeps ==
  ASSUME IInv, Token
  PROVE  IInv'
<1>1. InCondition({"INITIAL"}) /\ ~CommentMark(pos)
  BY Zenon DEF Token
<1>2. /\ start = "INITIAL" /\ outcome.what = "scanning" /\ pos \in 1 .. Len(input)
      /\ pos \in Nat \ {0} /\ Len(input) \in Nat
  BY <1>1, InConditionMeans
<1>3. PICK kind \in DOMAIN Matches(pos) :
        LET n == Matches(pos)[kind]
        IN  /\ n > 0
            /\ tokens' = Append(tokens, [kind |-> kind, from |-> pos, to |-> pos + n - 1])
            /\ Consume(n)
  BY Zenon DEF Token
<1> DEFINE n == Matches(pos)[kind]
<1>4. IsMatch(pos, n)
  BY <1>2, TokensMatch DEF IInv, Types
<1>5. kind \in Kinds \ {"CONST_STR"}
  BY DEF Matches, Kinds
<1>6. /\ n > 0 /\ Consume(n)
      /\ tokens' = Append(tokens, [kind |-> kind, from |-> pos, to |-> pos + n - 1])
  BY <1>3, Zenon
<1> HIDE DEF n
<1>7. n \in Nat \ {0} /\ pos + n <= Len(input) + 1
  BY <1>4, <1>6 DEF IsMatch
<1>8. UNCHANGED <<input, start, states, stack_comment, current_str, str_open_lineno, outcome>>
  BY Zenon DEF Token
<1>9. /\ pos' = pos + n /\ pos' \in Nat \ {0} /\ pos' <= Len(input') + 1
      /\ yylineno' \in Nat \ {0} /\ yylineno' <= pos'
  BY <1>6, <1>7, <1>8, Consumed DEF IInv
<1>10. Types'
  BY <1>8, <1>9 DEF IInv, Types
<1>11. TokenTypes' /\ AllTaken'
  BY <1>5, <1>6, <1>7, <1>8, <1>9, TokenTaken DEF IInv
<1>12. Nesting'
  BY <1>8 DEF IInv, Nesting
<1>13. InSource'
  <2>1. \A i \in pos .. pos + n - 1 : input[i] # Quote
    BY <1>4 DEF IsMatch, Apart
  <2>2. n = 1 \/ \A i \in pos .. pos + n - 1 : input[i] # "/"
    BY <1>4 DEF IsMatch
  <2> QED
    BY <1>1, <1>2, <1>6, <1>7, <1>8, <2>1, <2>2, RunOfCode
<1>14. Ended'
  BY <1>2, <1>8, GoesOn
<1> QED
  BY <1>10, <1>11, <1>12, <1>13, <1>14 DEF IInv

LEMMA WhiteSpaceKeeps ==
  ASSUME IInv, WhiteSpace
  PROVE  IInv'
<1> DEFINE n == RunOf(Blanks, pos)
<1>1. /\ InCondition({"INITIAL"}) /\ input[pos] \in Blanks /\ Consume(n)
      /\ UNCHANGED <<input, start, states, stack_comment, current_str, str_open_lineno, tokens, outcome>>
  BY Zenon DEF WhiteSpace
<1>2. /\ start = "INITIAL" /\ outcome.what = "scanning" /\ pos \in 1 .. Len(input)
      /\ pos \in Nat \ {0} /\ Len(input) \in Nat
  BY <1>1, InConditionMeans
<1>3. /\ n \in Nat /\ pos + n <= Len(input) + 1
      /\ \A i \in pos .. pos + n - 1 : input[i] \in Blanks
  <2>1. pos \in 1 .. Len(input) + 1 /\ input \in Seq(Characters)
    BY <1>2 DEF IInv, Types
  <2> QED
    BY <2>1, RunIs
<1> HIDE DEF n
<1>4. /\ pos' = pos + n /\ pos' \in Nat \ {0} /\ pos' <= Len(input') + 1
      /\ yylineno' \in Nat \ {0} /\ yylineno' <= pos'
  BY <1>1, <1>3, Consumed DEF IInv
<1>5. Types'
  BY <1>1, <1>4 DEF IInv, Types
<1>6. TokenTypes' /\ AllTaken'
  <2>1. \A i \in pos .. pos + n - 1 : Plain(i) => OpensComment(i)
    BY <1>3 DEF Plain
  <2> QED
    BY <1>1, <1>3, <1>4, <2>1, NothingTaken DEF IInv
<1>7. Nesting'
  BY <1>1 DEF IInv, Nesting
<1>8. InSource'
  <2>1. \A i \in pos .. pos + n - 1 : input[i] # Quote /\ input[i] # "/"
    BY <1>3, CharactersApart, Zenon
  <2>2. ~CommentMark(pos)
    <3>1. input[pos] # "/"
      BY <1>1, CharactersApart, Zenon
    <3> QED
      BY <1>2, <3>1, MarkAt DEF CommentMark, IInv, Types
  <2>3. pos <= Len(input)
    BY <1>2
  <2> QED
    BY <1>1, <1>2, <1>3, <2>1, <2>2, <2>3, RunOfCode
<1>9. Ended'
  BY <1>1, <1>2, GoesOn
<1> QED
  BY <1>5, <1>6, <1>7, <1>8, <1>9 DEF IInv

(* Errors and the end of the file stop the scanner where it is.            *)
LEMMA ThrowKeeps ==
  ASSUME IInv, NEW what \in Outcomes, NEW line, Throw(what, line), input' = input,
         what = "eof" => pos = Len(input) + 1,
         what = "open_comment" => start \in CommentStarts /\ line = Last(stack_comment),
         what = "open_string" => start = "X_STR" /\ line = str_open_lineno
  PROVE  IInv'
<1>1. /\ UNCHANGED <<input, pos, start, states, stack_comment, current_str, str_open_lineno,
                     yylineno, tokens>>
      /\ outcome'.what = what /\ outcome'.line = line
  BY DEF Throw, Result
<1>2. Types'
  BY <1>1 DEF IInv, Types
<1>3. TokenTypes' /\ Nesting'
  BY <1>1 DEF IInv, TokenTypes, Nesting
<1>4. AllTaken'
  BY <1>1 DEF IInv, AllTaken, Plain, OpensComment, TokensAt, AccountOf
<1>5. InSource'
  BY <1>1 DEF IInv, InSource, At, Unfinished, AccountOf
<1>6. Ended'
  BY <1>1 DEF Ended
<1> QED
  BY <1>2, <1>3, <1>4, <1>5, <1>6 DEF IInv

LEMMA UnknownCharacterKeeps ==
  ASSUME IInv, UnknownCharacter
  PROVE  IInv'
<1>1. Throw("undefined", yylineno) /\ input' = input
  BY Zenon DEF UnknownCharacter
<1>2. "undefined" \in Outcomes
  BY DEF Outcomes
<1> QED
  BY <1>1, <1>2, ThrowKeeps

LEMMA EndOfFileKeeps ==
  ASSUME IInv, EndOfFile
  PROVE  IInv'
<1>1. input' = input /\ pos = Len(input) + 1
  <2>1. pos \in Nat /\ Len(input) \in Nat /\ pos <= Len(input) + 1
    BY DEF IInv, Types
  <2> QED
    BY <2>1 DEF EndOfFile
<1>2. CASE start \in CommentStarts
  <2>1. start # "X_STR"
    BY <1>2 DEF CommentStarts
  <2>2. Throw("open_comment", Last(stack_comment))
    BY <1>2, <2>1 DEF EndOfFile
  <2>3. "open_comment" \in Outcomes
    BY DEF Outcomes
  <2> QED
    BY <1>1, <1>2, <2>2, <2>3, ThrowKeeps
<1>3. CASE start = "X_STR"
  <2>1. start \notin CommentStarts
    BY <1>3 DEF CommentStarts
  <2>2. Throw("open_string", str_open_lineno)
    BY <1>3, <2>1 DEF EndOfFile
  <2>3. "open_string" \in Outcomes
    BY DEF Outcomes
  <2> QED
    BY <1>1, <1>3, <2>2, <2>3, ThrowKeeps
<1>4. CASE start \notin CommentStarts /\ start # "X_STR"
  <2>1. Throw("eof", yylineno)
    BY <1>4 DEF EndOfFile
  <2>2. "eof" \in Outcomes
    BY DEF Outcomes
  <2> QED
    BY <1>1, <2>1, <2>2, ThrowKeeps
<1> QED
  BY <1>2, <1>3, <1>4

-----------------------------------------------------------------------------
(* Strings.                                                                *)

(* A start condition that is no comment, with an empty stack.              *)
LEMMA OutOfComments ==
  ASSUME IInv, start \notin CommentStarts, start' \notin CommentStarts, states' = states
  PROVE  Nesting' /\ states = << >>
<1>1. states = << >>
  BY DEF IInv, Nesting
<1>2. Len(states') = 0
  BY <1>1
<1>3. start' = "INITIAL" => start' = ConditionAt(Len(states'))
  BY <1>2 DEF ConditionAt
<1> QED
  BY <1>1, <1>2, <1>3 DEF Nesting, CommentStarts

LEMMA StringOpenKeeps ==
  ASSUME IInv, StringOpen
  PROVE  IInv'
<1>1. /\ InCondition({"INITIAL"}) /\ input[pos] = Quote /\ start' = "X_STR" /\ states' = states
      /\ str_open_lineno' = yylineno /\ Consume(1)
      /\ UNCHANGED <<input, stack_comment, tokens, outcome>>
  BY Zenon DEF StringOpen, Begin
<1>2. /\ start = "INITIAL" /\ outcome.what = "scanning" /\ pos <= Len(input)
      /\ pos \in Nat \ {0} /\ Len(input) \in Nat
  BY <1>1, InConditionMeans
<1>3. /\ pos' = pos + 1 /\ pos' \in Nat \ {0} /\ pos' <= Len(input') + 1
      /\ yylineno' = After(yylineno, input[pos])
      /\ yylineno' \in Nat \ {0} /\ yylineno' <= pos'
      /\ AccountOf(pos) = Read(AccountOf(pos - 1), input[pos])
      /\ AccountOf(pos - 1)' = AccountOf(pos)
  BY <1>1, <1>2, ConsumedOne DEF IInv
<1>4. AccountOf(pos) = Account("string", "none", <<str_open_lineno'>>, yylineno')
  BY <1>1, <1>2, <1>3, InCode, ReadCode
<1>5. Types'
  BY <1>1, <1>3 DEF IInv, Types, Conditions
<1>6. Nesting'
  BY <1>1, <1>2, OutOfComments DEF CommentStarts
<1>7. TokenTypes' /\ AllTaken'
  <2>1. \A i \in pos .. pos + 1 - 1 : i = pos
    BY <1>2
  <2>2. ~Plain(pos)
    BY <1>4 DEF Plain, Account
  <2> QED
    BY <1>1, <1>3, <2>1, <2>2, NothingTaken DEF IInv
<1>8. InSource'
  BY <1>1, <1>3, <1>4 DEF InSource, At, CommentStarts
<1>9. Ended'
  BY <1>1, <1>2, GoesOn
<1> QED
  BY <1>5, <1>6, <1>7, <1>8, <1>9 DEF IInv

(* The characters of a string, one at a time.                              *)
InString(condition) == condition \in {"X_STR", "X_STR_ESC"}
Part(condition)     == IF condition = "X_STR" THEN "string" ELSE "escape"

LEMMA StringGoesOn ==
  ASSUME IInv, InString(start), InString(start'), states' = states, pos <= Len(input),
         outcome.what = "scanning", Consume(1),
         UNCHANGED <<input, stack_comment, str_open_lineno, tokens, outcome>>,
         Read(Account(Part(start), "none", <<str_open_lineno>>, yylineno), input[pos])
           = Account(Part(start'), "none", <<str_open_lineno>>, After(yylineno, input[pos]))
  PROVE  IInv'
<1>1. pos \in Nat \ {0}
  BY DEF IInv, Types
<1>2. AccountOf(pos - 1) = Account(Part(start), "none", <<str_open_lineno>>, yylineno)
  BY DEF IInv, InSource, At, InString, Part
<1>3. /\ pos' = pos + 1 /\ pos' \in Nat \ {0} /\ pos' <= Len(input') + 1
      /\ yylineno' = After(yylineno, input[pos])
      /\ yylineno' \in Nat \ {0} /\ yylineno' <= pos'
      /\ AccountOf(pos) = Read(AccountOf(pos - 1), input[pos])
      /\ AccountOf(pos - 1)' = AccountOf(pos)
  BY ConsumedOne DEF IInv
<1>4. AccountOf(pos - 1)' = Account(Part(start'), "none", <<str_open_lineno>>, yylineno')
  BY <1>2, <1>3
<1>5. Types'
  BY <1>3 DEF IInv, Types, Conditions, InString
<1>6. Nesting'
  BY OutOfComments DEF CommentStarts, InString
<1>7. TokenTypes' /\ AllTaken'
  <2>1. \A i \in pos .. pos + 1 - 1 : i = pos
    BY <1>1
  <2>2. ~Plain(pos)
    BY <1>2 DEF Plain, Account, Part
  <2> QED
    BY <1>3, <2>1, <2>2, NothingTaken DEF IInv
<1>8. InSource'
  BY <1>4 DEF InSource, At, CommentStarts, InString, Part
<1>9. Ended'
  BY GoesOn
<1> QED
  BY <1>5, <1>6, <1>7, <1>8, <1>9 DEF IInv

LEMMA StringPartsKeep ==
  ASSUME IInv, Backslash \/ EscapedCharacter \/ StringCharacter
  PROVE  IInv'
<1>1. "\\" # Quote /\ After(yylineno, "\\") = yylineno
  <2>1. "\\" # Quote
    BY Zenon DEF Quote
  <2> QED
    BY <2>1 DEF After
<1>2. CASE Backslash
  <2>1. /\ InCondition({"X_STR"}) /\ input[pos] = "\\" /\ start' = "X_STR_ESC" /\ states' = states
        /\ Consume(1) /\ UNCHANGED <<input, stack_comment, str_open_lineno, tokens, outcome>>
    BY <1>2, Zenon DEF Backslash, Begin
  <2>2. start = "X_STR" /\ outcome.what = "scanning" /\ pos <= Len(input)
    BY <2>1, InConditionMeans
  <2>3. Read(Account("string", "none", <<str_open_lineno>>, yylineno), "\\")
          = Account("escape", "none", <<str_open_lineno>>, yylineno)
    BY <1>1, ReadString
  <2> QED
    BY <1>1, <2>1, <2>2, <2>3, StringGoesOn DEF InString, Part
<1>3. CASE EscapedCharacter
  <2>1. /\ InCondition({"X_STR_ESC"}) /\ start' = "X_STR" /\ states' = states
        /\ Consume(1) /\ UNCHANGED <<input, stack_comment, str_open_lineno, tokens, outcome>>
    BY <1>3, Zenon DEF EscapedCharacter, Begin
  <2>2. start = "X_STR_ESC" /\ outcome.what = "scanning" /\ pos <= Len(input)
    BY <2>1, InConditionMeans
  <2>3. Read(Account("escape", "none", <<str_open_lineno>>, yylineno), input[pos])
          = Account("string", "none", <<str_open_lineno>>, After(yylineno, input[pos]))
    BY ReadEscape
  <2> QED
    BY <2>1, <2>2, <2>3, StringGoesOn DEF InString, Part
<1>4. CASE StringCharacter
  <2>1. /\ InCondition({"X_STR"}) /\ input[pos] \notin {"\\", Quote} /\ Consume(1)
        /\ UNCHANGED <<input, start, states, stack_comment, str_open_lineno, tokens, outcome>>
    BY <1>4, Zenon DEF StringCharacter
  <2>2. start = "X_STR" /\ outcome.what = "scanning" /\ pos <= Len(input)
    BY <2>1, InConditionMeans
  <2>3. Read(Account("string", "none", <<str_open_lineno>>, yylineno), input[pos])
          = Account("string", "none", <<str_open_lineno>>, After(yylineno, input[pos]))
    BY <2>1, ReadString
  <2> QED
    BY <2>1, <2>2, <2>3, StringGoesOn DEF InString, Part
<1> QED
  BY <1>2, <1>3, <1>4

LEMMA StringCloseKeeps ==
  ASSUME IInv, StringClose
  PROVE  IInv'
<1> DEFINE escaped == EscapeStr(current_str)
<1>1. InCondition({"X_STR"}) /\ input[pos] = Quote /\ input' = input
  BY Zenon DEF StringClose
<1>2. /\ start = "X_STR" /\ outcome.what = "scanning" /\ pos <= Len(input)
      /\ pos \in Nat \ {0} /\ Len(input) \in Nat
  BY <1>1, InConditionMeans
<1>3. CASE ~escaped.valid
  <2>1. Throw("invalid_escaped_sequence", -1)
    BY <1>3, Zenon DEF StringClose
  <2>2. "invalid_escaped_sequence" \in Outcomes
    BY DEF Outcomes
  <2> QED
    BY <1>1, <2>1, <2>2, ThrowKeeps
<1>4. CASE escaped.valid
  <2> DEFINE token == [kind |-> "CONST_STR", to |-> pos, strVal |-> escaped.out]
  <2>1. /\ tokens' = Append(tokens, token)
        /\ start' = "INITIAL" /\ states' = states /\ str_open_lineno' = -1 /\ Consume(1)
        /\ UNCHANGED <<stack_comment, outcome>>
    BY <1>4, Zenon DEF StringClose, Begin
  <2>2. token.kind = "CONST_STR"
    OBVIOUS
  <2> HIDE DEF token, escaped
  <2>3. /\ pos' = pos + 1 /\ pos' \in Nat \ {0} /\ pos' <= Len(input') + 1
        /\ yylineno' = After(yylineno, input[pos])
        /\ yylineno' \in Nat \ {0} /\ yylineno' <= pos'
        /\ AccountOf(pos) = Read(AccountOf(pos - 1), input[pos])
        /\ AccountOf(pos - 1)' = AccountOf(pos)
    BY <1>1, <1>2, <2>1, ConsumedOne DEF IInv
  <2>4. AccountOf(pos - 1) = Account("string", "none", <<str_open_lineno>>, yylineno)
    BY <1>2 DEF IInv, InSource, At
  <2>5. AccountOf(pos) = Account("code", "none", << >>, yylineno')
    BY <1>1, <2>3, <2>4, ReadString
  <2>6. Types'
    BY <1>1, <2>1, <2>3 DEF IInv, Types, Conditions
  <2>7. Nesting'
    BY <1>2, <2>1, OutOfComments DEF CommentStarts
  <2>8. TokenTypes' /\ AllTaken'
    <3>1. ~Plain(pos)
      BY <2>4 DEF Plain, Account
    <3> QED
      BY <1>1, <2>1, <2>2, <2>3, <3>1, StringTaken DEF IInv
  <2>9. InSource'
    BY <2>1, <2>3, <2>5, CodeGoesOn DEF Halves, CodeMarks
  <2>10. Ended'
    BY <1>2, <2>1, GoesOn
  <2> QED
    BY <2>6, <2>7, <2>8, <2>9, <2>10 DEF IInv
<1> QED
  BY <1>3, <1>4

-----------------------------------------------------------------------------
(* Comments.                                                               *)

(* The sequence without its last element. *)
LEMMA FrontOf ==
  ASSUME NEW S, NEW s \in Seq(S), Len(s) > 0
  PROVE  /\ Front(s) \in Seq(S) /\ Len(Front(s)) = Len(s) - 1
         /\ \A i \in 1 .. Len(s) - 1 : Front(s)[i] = s[i]
<1>1. Len(s) \in Nat /\ \A i \in 1 .. Len(s) - 1 : s[i] \in S
  OBVIOUS
<1>2. 1 \in Int /\ Len(s) - 1 \in Int
  BY <1>1
<1>3. /\ SubSeq(s, 1, Len(s) - 1) \in Seq(S)
      /\ Len(SubSeq(s, 1, Len(s) - 1)) = IF 1 <= Len(s) - 1 THEN Len(s) - 1 - 1 + 1 ELSE 0
      /\ \A i \in 1 .. Len(s) - 1 - 1 + 1 : SubSeq(s, 1, Len(s) - 1)[i] = s[1 + i - 1]
  BY <1>1, <1>2, SubSeqProperties
<1>4. Len(s) - 1 - 1 + 1 = Len(s) - 1 /\ \A i \in 1 .. Len(s) - 1 : 1 + i - 1 = i
  BY <1>1
<1>5. (IF 1 <= Len(s) - 1 THEN Len(s) - 1 - 1 + 1 ELSE 0) = Len(s) - 1
  <2>1. PICK n \in Nat : n = Len(s)
    BY <1>1
  <2>2. n > 0
    BY <2>1
  <2>3. (IF 1 <= n - 1 THEN n - 1 - 1 + 1 ELSE 0) = n - 1
    BY <2>2, Z3
  <2> QED
    BY <2>1, <2>3
<1> QED
  BY <1>3, <1>4, <1>5 DEF Front

LEMMA InComment ==
  ASSUME IInv, start \in CommentStarts, pos <= Len(input)
  PROVE  /\ Len(states) > 0 /\ Len(stack_comment) > 0
         /\ \E held \in Halves :
              /\ AccountOf(pos - 1) = Account("comment", held, stack_comment, yylineno)
              /\ <<held, input[pos]>> \notin CommentMarks
<1>1. Len(states) \in Nat /\ Len(states) = Len(stack_comment)
  BY DEF IInv, Types
<1>2. start = ConditionAt(Len(states))
  BY DEF IInv, Nesting
<1>3. Len(states) # 0
  BY <1>2 DEF ConditionAt, CommentStarts
<1>4. PICK held \in Halves : At("comment", held, stack_comment) /\ Unfinished(held, CommentMarks)
  BY DEF IInv, InSource
<1>5. /\ AccountOf(pos - 1) = Account("comment", held, stack_comment, yylineno)
      /\ <<held, input[pos]>> \notin CommentMarks
  BY <1>4 DEF At, Unfinished
<1>6. Len(states) > 0 /\ Len(stack_comment) > 0
  BY <1>1, <1>3
<1> QED
  BY <1>5, <1>6

(* In a comment, the comment goes on.                                      *)
LEMMA CommentGoesOn ==
  ASSUME start' \in CommentStarts, NEW held \in Halves,
         AccountOf(pos - 1)' = Account("comment", held, stack_comment', yylineno'),
         pos' <= Len(input') => <<held, input'[pos']>> \notin CommentMarks
  PROVE  InSource'
<1>1. start' \notin {"INITIAL", "X_LINE_COMMENT", "X_STR", "X_STR_ESC"}
  BY DEF CommentStarts
<1> QED
  BY <1>1 DEF InSource, At, Unfinished

(* The characters of a mark that opens or closes a comment are no code.    *)
LEMMA MarkTaken ==
  ASSUME Types, TokenTypes, AllTaken, input' = input, tokens' = tokens,
         pos + 1 <= Len(input), pos' = pos + 2,
         AccountOf(pos + 1).in \in {"comment", "line"} \/ AccountOf(pos).in = "comment"
  PROVE  TokenTypes' /\ AllTaken'
<1>1. pos \in Nat \ {0} /\ Len(input) \in Nat
  BY DEF Types
<1>2. \A i \in pos .. pos + 2 - 1 : i = pos \/ i = pos + 1
  BY <1>1
<1>3. Plain(pos) => OpensComment(pos)
  BY <1>1 DEF Plain, OpensComment
<1>4. ~Plain(pos + 1)
  <2>1. (pos + 1) - 1 = pos
    BY <1>1
  <2> QED
    BY <2>1 DEF Plain
<1>5. \A i \in pos .. pos + 2 - 1 : Plain(i) => OpensComment(i)
  BY <1>2, <1>3, <1>4
<1> QED
  BY <1>5, NothingTaken

LEMMA CommentOpenKeeps ==
  ASSUME IInv, CommentOpen
  PROVE  IInv'
<1>1. /\ InCondition({"INITIAL"} \cup CommentStarts) /\ IsAt(<<"/", "*">>, pos)
      /\ states' = Append(states, start)
      /\ start' = IF start = "INITIAL" THEN "X_BLOCK_COMMENT" ELSE "X_NESTED_COMMENT"
      /\ stack_comment' = Append(stack_comment, yylineno)
      /\ Consume(2)
      /\ UNCHANGED <<input, current_str, str_open_lineno, tokens, outcome>>
  BY Zenon DEF CommentOpen
<1>2. /\ start \in {"INITIAL"} \cup CommentStarts /\ outcome.what = "scanning" /\ pos <= Len(input)
      /\ pos \in Nat \ {0} /\ Len(input) \in Nat
  BY <1>1, InConditionMeans
<1>3. /\ pos + 1 <= Len(input) /\ input[pos] = "/" /\ input[pos + 1] = "*"
      /\ pos' = pos + 2 /\ pos' \in Nat \ {0} /\ pos' <= Len(input') + 1
      /\ yylineno' = yylineno /\ yylineno' <= pos'
      /\ AccountOf(pos) = Read(AccountOf(pos - 1), "/")
      /\ AccountOf(pos + 1) = Read(AccountOf(pos), "*")
      /\ AccountOf(pos - 1)' = AccountOf(pos + 1)
  <2>1. "/" # "LF" /\ "*" # "LF"
    OBVIOUS
  <2> QED
    BY <1>1, <2>1, ConsumedMark DEF IInv
<1>4. AccountOf(pos + 1) = Account("comment", "none", stack_comment', yylineno)
  <2>1. Half("/") = "/" /\ After(yylineno, "/") = yylineno /\ "/" # Quote
    <3>1. "/" # Quote
      BY Zenon DEF Quote
    <3> QED
      BY <3>1 DEF Half, After
  <2>2. CASE start = "INITIAL"
    <3>1. PICK held \in Halves : /\ AccountOf(pos - 1) = Account("code", held, << >>, yylineno)
                                 /\ <<held, "/">> \notin CodeMarks
      BY <1>2, <1>3, <2>2, InCode
    <3>2. AccountOf(pos) = Account("code", "/", << >>, yylineno)
      <4>1. Read(Account("code", held, << >>, yylineno), "/")
              = Account("code", Half("/"), << >>, After(yylineno, "/"))
        BY <2>1, <3>1, ReadCode
      <4> QED
        BY <1>3, <2>1, <3>1, <4>1
    <3>3. AccountOf(pos + 1) = Account("comment", "none", <<yylineno>>, yylineno)
      BY <1>3, <3>2, ReadCodeMark
    <3>4. stack_comment' = <<yylineno>>
      BY <1>1, <1>2, <2>2, InCode
    <3> QED
      BY <3>3, <3>4
  <2>3. CASE start \in CommentStarts
    <3>1. PICK held \in Halves :
            /\ AccountOf(pos - 1) = Account("comment", held, stack_comment, yylineno)
            /\ <<held, "/">> \notin CommentMarks
      BY <1>2, <1>3, <2>3, InComment
    <3>2. AccountOf(pos) = Account("comment", "/", stack_comment, yylineno)
      BY <1>3, <2>1, <3>1, ReadComment
    <3> QED
      BY <1>1, <1>3, <3>2, ReadCommentMark
  <2> QED
    BY <1>2, <2>2, <2>3
<1>5. start' \in CommentStarts
  BY <1>1 DEF CommentStarts
<1>6. /\ states \in Seq(Conditions) /\ stack_comment \in Seq(Nat) /\ start \in Conditions
      /\ yylineno \in Nat /\ Len(states) \in Nat /\ Len(states) = Len(stack_comment)
  BY DEF IInv, Types
<1>7. /\ states' \in Seq(Conditions) /\ Len(states') = Len(states) + 1
      /\ stack_comment' \in Seq(Nat) /\ Len(stack_comment') = Len(states) + 1
      /\ \A i \in 1 .. Len(states) : states'[i] = states[i]
      /\ states'[Len(states) + 1] = start
  BY <1>1, <1>6
<1>8. Types'
  <2>1. start' \in Conditions
    BY <1>5 DEF Conditions
  <2> QED
    BY <1>1, <1>3, <1>7, <2>1 DEF IInv, Types
<1>9. Nesting'
  <2>1. start = ConditionAt(Len(states))
    BY <1>2 DEF IInv, Nesting
  <2>2. start' = ConditionAt(Len(states) + 1)
    BY <1>1, <1>6, <2>1 DEF ConditionAt
  <2>3. ASSUME NEW i \in 1 .. Len(states')
        PROVE  states'[i] = ConditionAt(i - 1)
    <3>1. i \in 1 .. Len(states) \/ (i = Len(states) + 1 /\ i - 1 = Len(states))
      BY <1>6, <1>7
    <3> QED
      BY <1>7, <2>1, <3>1 DEF IInv, Nesting
  <2> QED
    BY <1>5, <1>7, <2>2, <2>3 DEF Nesting
<1>10. TokenTypes' /\ AllTaken'
  <2>1. AccountOf(pos + 1).in = "comment"
    BY <1>4 DEF Account
  <2> QED
    BY <1>1, <1>3, <2>1, MarkTaken DEF IInv
<1>11. InSource'
  BY <1>3, <1>4, <1>5, CommentGoesOn DEF Halves, CommentMarks
<1>12. Ended'
  BY <1>1, <1>2, GoesOn
<1> QED
  BY <1>8, <1>9, <1>10, <1>11, <1>12 DEF IInv

LEMMA CommentCloseKeeps ==
  ASSUME IInv, CommentClose
  PROVE  IInv'
<1>1. /\ InCondition(CommentStarts) /\ IsAt(<<"*", "/">>, pos)
      /\ start' = Last(states) /\ states' = Front(states) /\ stack_comment' = Front(stack_comment)
      /\ Consume(2)
      /\ UNCHANGED <<input, current_str, str_open_lineno, tokens, outcome>>
  BY Zenon DEF CommentClose
<1>2. /\ start \in CommentStarts /\ outcome.what = "scanning" /\ pos <= Len(input)
      /\ pos \in Nat \ {0} /\ Len(input) \in Nat
  BY <1>1, InConditionMeans
<1>3. /\ pos + 1 <= Len(input) /\ input[pos] = "*" /\ input[pos + 1] = "/"
      /\ pos' = pos + 2 /\ pos' \in Nat \ {0} /\ pos' <= Len(input') + 1
      /\ yylineno' = yylineno /\ yylineno' <= pos'
      /\ AccountOf(pos) = Read(AccountOf(pos - 1), "*")
      /\ AccountOf(pos + 1) = Read(AccountOf(pos), "/")
      /\ AccountOf(pos - 1)' = AccountOf(pos + 1)
  <2>1. "/" # "LF" /\ "*" # "LF"
    OBVIOUS
  <2> QED
    BY <1>1, <2>1, ConsumedMark DEF IInv
<1>4. PICK held \in Halves :
        /\ AccountOf(pos - 1) = Account("comment", held, stack_comment, yylineno)
        /\ <<held, "*">> \notin CommentMarks
  BY <1>2, <1>3, InComment
<1>5. AccountOf(pos) = Account("comment", "*", stack_comment, yylineno)
  <2>1. Half("*") = "*" /\ After(yylineno, "*") = yylineno
    BY DEF Half, After
  <2> QED
    BY <1>3, <1>4, <2>1, ReadComment
<1>6. AccountOf(pos + 1)
        = Account(IF stack_comment' = << >> THEN "code" ELSE "comment", "none", stack_comment', yylineno)
  BY <1>1, <1>3, <1>5, ReadCommentMark
<1>7. /\ states \in Seq(Conditions) /\ stack_comment \in Seq(Nat)
      /\ Len(states) \in Nat \ {0} /\ Len(states) = Len(stack_comment)
  BY <1>2, InComment DEF IInv, Types
<1>8. /\ states' \in Seq(Conditions) /\ Len(states') = Len(states) - 1
      /\ \A i \in 1 .. Len(states) - 1 : states'[i] = states[i]
  <2>1. Len(states) > 0
    BY <1>7
  <2>2. /\ Front(states) \in Seq(Conditions) /\ Len(Front(states)) = Len(states) - 1
        /\ \A i \in 1 .. Len(states) - 1 : Front(states)[i] = states[i]
    BY <1>7, <2>1, FrontOf
  <2> QED
    BY <1>1, <2>2
<1>9. stack_comment' \in Seq(Nat) /\ Len(stack_comment') = Len(states) - 1
  BY <1>1, <1>7, FrontOf
<1>10. start' = ConditionAt(Len(states) - 1)
  BY <1>1, <1>7 DEF IInv, Nesting, Last
<1>11. start' = "INITIAL" <=> Len(states) = 1
  BY <1>7, <1>10 DEF ConditionAt
<1>12. start' \in {"INITIAL"} \cup CommentStarts
  BY <1>10 DEF ConditionAt, CommentStarts
<1>13. Types'
  <2>1. start' \in Conditions
    BY <1>12 DEF Conditions
  <2> QED
    BY <1>1, <1>3, <1>8, <1>9, <2>1 DEF IInv, Types
<1>14. Nesting'
  <2>1. \A i \in 1 .. Len(states') : states'[i] = ConditionAt(i - 1)
    BY <1>7, <1>8 DEF IInv, Nesting
  <2>2. start' \notin CommentStarts => states' = << >>
    BY <1>8, <1>11, <1>12
  <2> QED
    BY <1>8, <1>10, <2>1, <2>2 DEF Nesting
<1>15. TokenTypes' /\ AllTaken'
  <2>1. AccountOf(pos).in = "comment"
    BY <1>5 DEF Account
  <2> QED
    BY <1>1, <1>3, <2>1, MarkTaken DEF IInv
<1>16. InSource'
  <2>1. CASE Len(states) = 1
    <3>1. stack_comment' = << >>
      BY <1>9, <2>1
    <3>2. AccountOf(pos + 1) = Account("code", "none", << >>, yylineno)
      BY <1>6, <3>1
    <3> QED
      BY <1>3, <1>11, <2>1, <3>2, CodeGoesOn DEF Halves, CodeMarks
  <2>2. CASE Len(states) # 1
    <3>1. stack_comment' # << >>
      BY <1>7, <1>9, <2>2
    <3>2. AccountOf(pos + 1) = Account("comment", "none", stack_comment', yylineno)
      BY <1>6, <3>1
    <3>3. start' \in CommentStarts
      BY <1>11, <1>12, <2>2
    <3> QED
      BY <1>3, <3>2, <3>3, CommentGoesOn DEF Halves, CommentMarks
  <2> QED
    BY <2>1, <2>2
<1>17. Ended'
  BY <1>1, <1>2, GoesOn
<1> QED
  BY <1>13, <1>14, <1>15, <1>16, <1>17 DEF IInv

LEMMA CommentCharacterKeeps ==
  ASSUME IInv, CommentCharacter
  PROVE  IInv'
<1>1. /\ InCondition(CommentStarts) /\ ~IsAt(<<"/", "*">>, pos) /\ ~IsAt(<<"*", "/">>, pos)
      /\ Consume(1)
      /\ UNCHANGED <<input, start, states, stack_comment, current_str, str_open_lineno, tokens, outcome>>
  BY Zenon DEF CommentCharacter
<1>2. /\ start \in CommentStarts /\ outcome.what = "scanning" /\ pos <= Len(input)
      /\ pos \in Nat \ {0} /\ Len(input) \in Nat
  BY <1>1, InConditionMeans
<1>3. /\ pos' = pos + 1 /\ pos' \in Nat \ {0} /\ pos' <= Len(input') + 1
      /\ yylineno' = After(yylineno, input[pos])
      /\ yylineno' \in Nat \ {0} /\ yylineno' <= pos'
      /\ AccountOf(pos) = Read(AccountOf(pos - 1), input[pos])
      /\ AccountOf(pos - 1)' = AccountOf(pos)
  BY <1>1, <1>2, ConsumedOne DEF IInv
<1>4. PICK held \in Halves :
        /\ AccountOf(pos - 1) = Account("comment", held, stack_comment, yylineno)
        /\ <<held, input[pos]>> \notin CommentMarks
  BY <1>2, InComment
<1>5. AccountOf(pos) = Account("comment", Half(input[pos]), stack_comment, yylineno')
  BY <1>3, <1>4, ReadComment
<1>6. Half(input[pos]) \in Halves
  BY DEF Half, Halves
<1>7. pos + 1 <= Len(input) => <<Half(input[pos]), input[pos + 1]>> \notin CommentMarks
  <2>1. pos + 1 <= Len(input) => <<input[pos], input[pos + 1]>> \notin CommentMarks
    BY <1>1, <1>2, MarkAt DEF CommentMarks, IInv, Types
  <2> QED
    BY <2>1 DEF Half, CommentMarks
<1>8. Types'
  BY <1>1, <1>3 DEF IInv, Types
<1>9. Nesting'
  BY <1>1 DEF IInv, Nesting
<1>10. TokenTypes' /\ AllTaken'
  <2>1. \A i \in pos .. pos + 1 - 1 : i = pos
    BY <1>2
  <2>2. ~Plain(pos)
    BY <1>4 DEF Plain, Account
  <2> QED
    BY <1>1, <1>3, <2>1, <2>2, NothingTaken DEF IInv
<1>11. InSource'
  BY <1>1, <1>2, <1>3, <1>5, <1>6, <1>7, CommentGoesOn
<1>12. Ended'
  BY <1>1, <1>2, GoesOn
<1> QED
  BY <1>8, <1>9, <1>10, <1>11, <1>12 DEF IInv

(* A comment to the end of the line.                                       *)
LEMMA LineGoesOn ==
  ASSUME start' = "X_LINE_COMMENT", AccountOf(pos - 1)' = Account("line", "none", << >>, yylineno')
  PROVE  InSource'
BY DEF InSource, At, CommentStarts

LEMMA LineCommentKeeps ==
  ASSUME IInv, LineComment
  PROVE  IInv'
<1>1. /\ InCondition({"INITIAL"}) /\ IsAt(<<"/", "/">>, pos)
      /\ start' = "X_LINE_COMMENT" /\ states' = states /\ Consume(2)
      /\ UNCHANGED <<input, stack_comment, current_str, str_open_lineno, tokens, outcome>>
  BY Zenon DEF LineComment, Begin
<1>2. /\ start = "INITIAL" /\ outcome.what = "scanning" /\ pos <= Len(input)
      /\ pos \in Nat \ {0} /\ Len(input) \in Nat
  BY <1>1, InConditionMeans
<1>3. /\ pos + 1 <= Len(input) /\ input[pos] = "/" /\ input[pos + 1] = "/"
      /\ pos' = pos + 2 /\ pos' \in Nat \ {0} /\ pos' <= Len(input') + 1
      /\ yylineno' = yylineno /\ yylineno' <= pos'
      /\ AccountOf(pos) = Read(AccountOf(pos - 1), "/")
      /\ AccountOf(pos + 1) = Read(AccountOf(pos), "/")
      /\ AccountOf(pos - 1)' = AccountOf(pos + 1)
  <2>1. "/" # "LF"
    OBVIOUS
  <2> QED
    BY <1>1, <2>1, ConsumedMark DEF IInv
<1>4. PICK held \in Halves : /\ AccountOf(pos - 1) = Account("code", held, << >>, yylineno)
                             /\ <<held, "/">> \notin CodeMarks
  BY <1>2, <1>3, InCode
<1>5. AccountOf(pos) = Account("code", "/", << >>, yylineno)
  <2>1. Half("/") = "/" /\ After(yylineno, "/") = yylineno
    BY DEF Half, After
  <2>2. "/" # Quote
    BY Zenon DEF Quote
  <2>3. Read(Account("code", held, << >>, yylineno), "/")
          = Account("code", Half("/"), << >>, After(yylineno, "/"))
    BY <1>4, <2>2, ReadCode
  <2> QED
    BY <1>3, <1>4, <2>1, <2>3
<1>6. AccountOf(pos + 1) = Account("line", "none", << >>, yylineno)
  BY <1>3, <1>5, ReadCodeMark
<1>7. Types'
  BY <1>1, <1>3 DEF IInv, Types, Conditions
<1>8. Nesting'
  BY <1>1, <1>2, OutOfComments DEF CommentStarts
<1>9. TokenTypes' /\ AllTaken'
  <2>1. AccountOf(pos + 1).in = "line"
    BY <1>6 DEF Account
  <2> QED
    BY <1>1, <1>3, <2>1, MarkTaken DEF IInv
<1>10. InSource'
  BY <1>1, <1>3, <1>6, LineGoesOn
<1>11. Ended'
  BY <1>1, <1>2, GoesOn
<1> QED
  BY <1>7, <1>8, <1>9, <1>10, <1>11 DEF IInv

LEMMA LineCommentRestKeeps ==
  ASSUME IInv, LineCommentRest
  PROVE  IInv'
<1> DEFINE n == RunOf(Characters \ {"LF"}, pos)
<1>1. /\ InCondition({"X_LINE_COMMENT"}) /\ Consume(n)
      /\ UNCHANGED <<input, start, states, stack_comment, current_str, str_open_lineno, tokens, outcome>>
  BY Zenon DEF LineCommentRest
<1>2. /\ start = "X_LINE_COMMENT" /\ outcome.what = "scanning" /\ pos \in 1 .. Len(input)
      /\ pos \in Nat \ {0} /\ Len(input) \in Nat /\ yylineno \in Nat
  BY <1>1, InConditionMeans DEF IInv, Types
<1>3. /\ n \in Nat /\ pos + n <= Len(input) + 1
      /\ \A i \in pos .. pos + n - 1 : input[i] \in Characters \ {"LF"}
  <2>1. pos \in 1 .. Len(input) + 1 /\ input \in Seq(Characters)
    BY <1>2 DEF IInv, Types
  <2> QED
    BY <2>1, RunIs
<1> HIDE DEF n
<1>4. /\ pos' = pos + n /\ pos' \in Nat \ {0} /\ pos' <= Len(input') + 1
      /\ yylineno' = yylineno + Lines(pos, n)
      /\ yylineno' \in Nat \ {0} /\ yylineno' <= pos'
  BY <1>1, <1>3, Consumed DEF IInv
<1>5. AccountOf(pos - 1) = Account("line", "none", << >>, yylineno)
  BY <1>2 DEF IInv, InSource, At
<1>6. /\ \A k \in 0 .. n : AccountOf(pos + k - 1) = Account("line", "none", << >>, yylineno)
      /\ Lines(pos, n) = 0
  <2>1. \A i \in pos .. pos + n - 1 : input[i] # "LF"
    BY <1>3
  <2> QED
    BY <1>2, <1>3, <1>5, <2>1, LineRun
<1>7. AccountOf(pos - 1)' = Account("line", "none", << >>, yylineno')
  <2>1. pos' - 1 = pos + n - 1 /\ n \in 0 .. n /\ yylineno' = yylineno
    BY <1>2, <1>3, <1>4, <1>6
  <2>2. AccountOf(pos + n - 1) = Account("line", "none", << >>, yylineno)
    BY <1>6, <2>1
  <2>3. AccountOf(pos - 1)' = AccountOf(pos + n - 1)
    BY <1>1, <2>1 DEF AccountOf
  <2> QED
    BY <2>1, <2>2, <2>3
<1>8. Types'
  BY <1>1, <1>4 DEF IInv, Types
<1>9. Nesting'
  BY <1>1 DEF IInv, Nesting
<1>10. TokenTypes' /\ AllTaken'
  <2>1. ASSUME NEW i \in pos .. pos + n - 1
        PROVE  ~Plain(i)
    <3>1. i - pos \in 0 .. n /\ pos + (i - pos) - 1 = i - 1
      BY <1>2, <1>3
    <3>2. AccountOf(i - 1) = Account("line", "none", << >>, yylineno)
      BY <1>6, <3>1
    <3> QED
      BY <3>2 DEF Plain, Account
  <2> QED
    BY <1>1, <1>3, <1>4, <2>1, NothingTaken DEF IInv
<1>11. InSource'
  BY <1>1, <1>2, <1>7, LineGoesOn
<1>12. Ended'
  BY <1>1, <1>2, GoesOn
<1> QED
  BY <1>8, <1>9, <1>10, <1>11, <1>12 DEF IInv

LEMMA LineCommentEndKeeps ==
  ASSUME IInv, LineCommentEnd
  PROVE  IInv'
<1>1. /\ InCondition({"X_LINE_COMMENT"}) /\ input[pos] = "LF"
      /\ start' = "INITIAL" /\ states' = states /\ Consume(1)
      /\ UNCHANGED <<input, stack_comment, current_str, str_open_lineno, tokens, outcome>>
  BY Zenon DEF LineCommentEnd, Begin
<1>2. /\ start = "X_LINE_COMMENT" /\ outcome.what = "scanning" /\ pos <= Len(input)
      /\ pos \in Nat \ {0} /\ Len(input) \in Nat
  BY <1>1, InConditionMeans
<1>3. /\ pos' = pos + 1 /\ pos' \in Nat \ {0} /\ pos' <= Len(input') + 1
      /\ yylineno' = After(yylineno, input[pos])
      /\ yylineno' \in Nat \ {0} /\ yylineno' <= pos'
      /\ AccountOf(pos) = Read(AccountOf(pos - 1), input[pos])
      /\ AccountOf(pos - 1)' = AccountOf(pos)
  BY <1>1, <1>2, ConsumedOne DEF IInv
<1>4. AccountOf(pos - 1) = Account("line", "none", << >>, yylineno)
  BY <1>2 DEF IInv, InSource, At
<1>5. AccountOf(pos) = Account("code", "none", << >>, yylineno')
  BY <1>1, <1>3, <1>4, ReadLine DEF After
<1>6. Types'
  BY <1>1, <1>3 DEF IInv, Types, Conditions
<1>7. Nesting'
  BY <1>1, <1>2, OutOfComments DEF CommentStarts
<1>8. TokenTypes' /\ AllTaken'
  <2>1. \A i \in pos .. pos + 1 - 1 : i = pos
    BY <1>2
  <2>2. ~Plain(pos)
    BY <1>4 DEF Plain, Account
  <2> QED
    BY <1>1, <1>3, <2>1, <2>2, NothingTaken DEF IInv
<1>9. InSource'
  BY <1>1, <1>3, <1>5, CodeGoesOn DEF Halves, CodeMarks
<1>10. Ended'
  BY <1>1, <1>2, GoesOn
<1> QED
  BY <1>6, <1>7, <1>8, <1>9, <1>10 DEF IInv

-----------------------------------------------------------------------------
(* The theorems.                                                           *)

LEMMA InitHolds == Init => IInv
<1> SUFFICES ASSUME Init PROVE IInv
  OBVIOUS
<1>1. input \in Seq(Characters)
  <2>1. PICK s \in Sources : input \in BoundedSeq(s.chars, s.length)
    BY DEF Init
  <2>2. PICK m \in 0 .. s.length : input \in [1 .. m -> s.chars]
    BY <2>1 DEF BoundedSeq, SeqOf
  <2>3. m \in Nat /\ s.chars \subseteq Characters
    BY <2>2, LexerAssumption
  <2>4. input \in [1 .. m -> Characters]
    BY <2>2, <2>3
  <2> QED
    BY <2>3, <2>4
<1>2. /\ pos = 1 /\ start = "INITIAL" /\ states = << >> /\ stack_comment = << >>
      /\ str_open_lineno = -1 /\ yylineno = 1 /\ tokens = << >> /\ outcome.what = "scanning"
  BY DEF Init, Result
<1>3. Len(input) \in Nat
  BY <1>1
<1>4. Types
  BY <1>1, <1>2, <1>3 DEF Types, Conditions, Outcomes
<1>5. TokenTypes
  BY <1>2 DEF TokenTypes
<1>6. Nesting
  BY <1>2 DEF Nesting, ConditionAt, CommentStarts
<1>7. InSource
  <2>1. AccountOf(pos - 1) = Account("code", "none", << >>, yylineno)
    BY <1>2, AccountRead DEF AccountOf, Nothing
  <2>2. <<"none", input[pos]>> \notin CodeMarks
    BY DEF CodeMarks
  <2> QED
    BY <1>2, <2>1, <2>2 DEF InSource, At, Unfinished, Halves, CommentStarts
<1>8. Ended
  BY <1>2 DEF Ended
<1>9. AllTaken
  BY <1>2 DEF AllTaken
<1> QED
  BY <1>4, <1>5, <1>6, <1>7, <1>8, <1>9 DEF IInv

LEMMA NextKeeps == IInv /\ [Next]_vars => IInv'
<1> SUFFICES ASSUME IInv, [Next]_vars PROVE IInv'
  OBVIOUS
<1>1. CASE Next
  BY <1>1, TokenKeeps, WhiteSpaceKeeps, UnknownCharacterKeeps, StringOpenKeeps, StringPartsKeep,
     StringCloseKeeps, CommentOpenKeeps, CommentCloseKeeps, CommentCharacterKeeps,
     LineCommentKeeps, LineCommentRestKeeps, LineCommentEndKeeps, EndOfFileKeeps DEF Next
<1>2. CASE UNCHANGED vars
  <2>1. UNCHANGED <<input, pos, start, states, stack_comment, str_open_lineno, yylineno, tokens, outcome>>
    BY <1>2 DEF vars
  <2>2. Types' /\ TokenTypes' /\ Nesting' /\ Ended'
    BY <2>1 DEF IInv, Types, TokenTypes, Nesting, Ended
  <2>3. InSource'
    BY <2>1 DEF IInv, InSource, At, Unfinished, AccountOf
  <2>4. AllTaken'
    BY <2>1 DEF IInv, AllTaken, Plain, OpensComment, TokensAt, AccountOf
  <2> QED
    BY <2>2, <2>3, <2>4 DEF IInv
<1> QED
  BY <1>1, <1>2

LEMMA AlwaysIInv == Spec => []IInv
<1>1. Init => IInv
  BY InitHolds
<1>2. IInv /\ [Next]_vars => IInv'
  BY NextKeeps
<1> QED
  BY <1>1, <1>2, PTL DEF Spec

(* The scanner's state is well formed: a line for each open comment.       *)
THEOREM TypeCorrect == Spec => []TypeOK
<1>1. IInv => TypeOK
  <2> SUFFICES ASSUME IInv PROVE TypeOK
    OBVIOUS
  <2>1. /\ pos \in 1 .. Len(input) + 1 /\ yylineno \in 1 .. Len(input) + 1
        /\ Len(states) = Len(stack_comment)
    BY DEF IInv, Types
  <2>2. start \in {"INITIAL", "X_STR", "X_STR_ESC", "X_LINE_COMMENT"} \cup CommentStarts
    BY DEF IInv, Types, Conditions
  <2>3. outcome.what \in {"scanning", "eof", "undefined", "invalid_escaped_sequence",
                          "open_comment", "open_string"}
    BY DEF IInv, Types, Outcomes
  <2>4. \A token \in ToSet(tokens) :
          token.kind \in {"WORD", "CONST_INT", "CONST_REAL", "OPERATOR", "CONST_STR"}
    <3>1. DOMAIN tokens = 1 .. Len(tokens)
      BY DEF IInv, TokenTypes
    <3> QED
      BY <3>1 DEF IInv, TokenTypes, Kinds, ToSet
  <2> QED
    BY <2>1, <2>2, <2>3, <2>4 DEF TypeOK
<1> QED
  BY <1>1, AlwaysIInv, PTL

(* Comments, strings and their marks are recognised where the source has   *)
(* them, for every source, and the errors name the lines they belong to.   *)
THEOREM ScannerFollowsSource == Spec => []ConditionsFollowSource
<1>1. IInv => ConditionsFollowSource
  <2> SUFFICES ASSUME IInv PROVE ConditionsFollowSource
    OBVIOUS
  <2> DEFINE r == AccountOf(pos - 1)
  <2>1. Len(states) \in Nat /\ Len(stack_comment) = Len(states) /\ start \in Conditions
    BY DEF IInv, Types
  <2>2. CASE start = "INITIAL"
    <3>1. states = << >> /\ \E held \in Halves : r = Account("code", held, << >>, yylineno)
      BY <2>2 DEF IInv, Nesting, InSource, At, CommentStarts
    <3>2. r.in = "code" /\ r.line = yylineno
      BY <3>1 DEF Account
    <3>3. outcome.what \notin {"open_comment", "open_string"}
      BY <2>2 DEF IInv, Ended, CommentStarts
    <3> HIDE DEF r
    <3> QED
      BY <2>2, <3>1, <3>2, <3>3 DEF ConditionsFollowSource, r
  <2>3. CASE start = "X_LINE_COMMENT"
    <3>1. states = << >> /\ r = Account("line", "none", << >>, yylineno)
      BY <2>3 DEF IInv, Nesting, InSource, At, CommentStarts
    <3>2. r.in = "line" /\ r.line = yylineno
      BY <3>1 DEF Account
    <3>3. outcome.what \notin {"open_comment", "open_string"}
      BY <2>3 DEF IInv, Ended, CommentStarts
    <3> HIDE DEF r
    <3> QED
      BY <2>3, <3>1, <3>2, <3>3 DEF ConditionsFollowSource, r
  <2>4. CASE start \in CommentStarts
    <3>1. PICK held \in Halves : r = Account("comment", held, stack_comment, yylineno)
      BY <2>4 DEF IInv, InSource, At
    <3>2. r.in = "comment" /\ r.line = yylineno /\ r.opened = stack_comment
      BY <3>1 DEF Account
    <3>3. start = ConditionAt(Len(states))
      BY <2>4 DEF IInv, Nesting
    <3>4. /\ start = "X_BLOCK_COMMENT" => Len(stack_comment) = 1
          /\ start = "X_NESTED_COMMENT" => Len(stack_comment) > 1
          /\ start \notin {"INITIAL", "X_LINE_COMMENT", "X_STR", "X_STR_ESC"}
      BY <2>1, <2>4, <3>3 DEF ConditionAt, CommentStarts
    <3>5. /\ outcome.what = "open_comment" => outcome.line = Last(stack_comment)
          /\ outcome.what # "open_string"
      BY <3>4 DEF IInv, Ended
    <3> HIDE DEF r
    <3> QED
      BY <2>4, <3>2, <3>4, <3>5 DEF ConditionsFollowSource, r, CommentStarts
  <2>5. CASE start \in {"X_STR", "X_STR_ESC"}
    <3>1. /\ start = "X_STR" => r = Account("string", "none", <<str_open_lineno>>, yylineno)
          /\ start = "X_STR_ESC" => r = Account("escape", "none", <<str_open_lineno>>, yylineno)
      BY <2>5 DEF IInv, InSource, At
    <3>2. /\ r.line = yylineno /\ r.opened = <<str_open_lineno>>
          /\ start = "X_STR" => r.in = "string"
          /\ start = "X_STR_ESC" => r.in = "escape"
      BY <2>5, <3>1 DEF Account
    <3>3. /\ outcome.what # "open_comment"
          /\ outcome.what = "open_string" => outcome.line = str_open_lineno
      BY <2>5 DEF IInv, Ended, CommentStarts
    <3>4. Last(<<str_open_lineno>>) = str_open_lineno
      BY DEF Last
    <3> HIDE DEF r
    <3> QED
      BY <2>5, <3>2, <3>3, <3>4 DEF ConditionsFollowSource, r
  <2> QED
    BY <2>1, <2>2, <2>3, <2>4, <2>5 DEF Conditions
<1> QED
  BY <1>1, AlwaysIInv, PTL

(* No character of the program is lost between tokens, comments, strings   *)
(* and blanks, and none is read twice, for every source.                   *)
THEOREM NothingIsLost == Spec => []NothingLost
<1>1. IInv => NothingLost
  <2> SUFFICES ASSUME IInv, outcome.what = "eof",
                      NEW i \in DOMAIN input, Plain(i), ~OpensComment(i)
               PROVE  Cardinality(TokensAt(i)) = 1
    BY DEF NothingLost
  <2>1. i \in 1 .. pos - 1
    BY DEF IInv, Types, Ended
  <2>2. \E k \in 1 .. Len(tokens) : TokensAt(i) = {k}
    BY <2>1 DEF IInv, AllTaken
  <2> QED
    BY <2>2, FS_Singleton
<1> QED
  BY <1>1, AlwaysIInv, PTL

-----------------------------------------------------------------------------
(* The meaning of strings.  First escape_str, a character at a time.       *)

Allowed == DOMAIN ControlOf \cup Itself
Escapes == [out : Seq(Characters), esc : BOOLEAN, valid : BOOLEAN]

LEMMA ControlLetters ==
  /\ DOMAIN ControlOf = {"a", "b", "f", "n", "r", "t", "v"}
  /\ Controls = {"BEL", "BS", "FF", "LF", "CR", "HT", "VT"}
  /\ \A c \in Controls : LetterOf(c) \in DOMAIN ControlOf /\ Replacement(LetterOf(c)) = c
  /\ Controls \cap Allowed = {}
  /\ \A c \in Characters : Replacement(c) \in Characters
  /\ "\\" \in Characters \cap Allowed /\ "\\" # Quote
  /\ DOMAIN ControlOf \subseteq Characters
<1>1. /\ DOMAIN ControlOf = {"a", "b", "f", "n", "r", "t", "v"}
      /\ ControlOf["a"] = "BEL" /\ ControlOf["b"] = "BS" /\ ControlOf["f"] = "FF"
      /\ ControlOf["n"] = "LF" /\ ControlOf["r"] = "CR" /\ ControlOf["t"] = "HT"
      /\ ControlOf["v"] = "VT"
  BY DEF ControlOf
<1>2. Controls = {"BEL", "BS", "FF", "LF", "CR", "HT", "VT"}
  BY <1>1 DEF Controls
<1>3. ASSUME NEW c \in Controls
      PROVE  LetterOf(c) \in DOMAIN ControlOf /\ ControlOf[LetterOf(c)] = c
  <2>1. \E letter \in DOMAIN ControlOf : ControlOf[letter] = c
    BY <1>1, <1>2
  <2> QED
    BY <2>1 DEF LetterOf
<1>4. \A c \in Controls : c \notin Allowed
  BY <1>1, <1>2, Zenon DEF Allowed, Itself, Quote
<1>5. DOMAIN ControlOf \subseteq Characters /\ Controls \subseteq Characters
  BY <1>1, Zenon DEF Characters, Letters
<1>6. \A c \in Characters : Replacement(c) \in Characters
  BY <1>5 DEF Replacement, Controls
<1>7. "\\" \in Itself /\ "\\" # Quote
  BY Zenon DEF Itself, Quote
<1>8. Itself \subseteq Characters
  BY DEF Characters
<1> QED
  BY <1>1, <1>2, <1>3, <1>4, <1>5, <1>6, <1>7, <1>8 DEF Replacement, Allowed

LEMMA FrontStays ==
  ASSUME NEW S, NEW s \in Seq(S)
  PROVE  Front(s) \in Seq(S) /\ \A x \in S : Front(Append(s, x)) = s
<1>1. Front(s) \in Seq(S)
  BY DEF Front
<1>2. ASSUME NEW x \in S
      PROVE  Front(Append(s, x)) = s
  <2>1. Append(s, x) \in Seq(S) /\ Len(Append(s, x)) = Len(s) + 1
    BY AppendProperties
  <2>2. SubSeq(Append(s, x), 1, Len(s)) = s
    BY AppendProperties
  <2> QED
    BY <2>1, <2>2 DEF Front
<1> QED
  BY <1>1, <1>2

LEMMA EscapeNextTypes ==
  ASSUME NEW s \in Escapes, NEW c \in Characters
  PROVE  EscapeNext(s, c) \in Escapes
<1>1. s.out \in Seq(Characters) /\ Front(s.out) \in Seq(Characters)
  BY FrontStays DEF Escapes
<1>2. Replacement(c) \in Characters
  BY ControlLetters
<1>3. Append(s.out, c) \in Seq(Characters) /\ Append(Front(s.out), Replacement(c)) \in Seq(Characters)
  BY <1>1, <1>2
<1>4. [s EXCEPT !.esc = c = "\\", !.out = Append(@, c)] \in Escapes
  BY <1>3 DEF Escapes
<1>5. [s EXCEPT !.out = Append(Front(@), Replacement(c)), !.esc = FALSE] \in Escapes
  BY <1>3 DEF Escapes
<1>6. [s EXCEPT !.valid = FALSE] \in Escapes
  BY DEF Escapes
<1> QED
  BY <1>4, <1>5, <1>6 DEF EscapeNext

(* The steps of escape_str on a string, and those it can be read from.     *)
EscapeSteps(str) == [n \in 0 .. Len(str) - 1 |-> [s \in Escapes |-> EscapeNext(s, str[n + 1])]]

LEMMA EscapeStrSteps ==
  ASSUME NEW str \in Seq(Characters)
  PROVE  \E f \in [0 .. Len(str) -> Escapes] :
           Steps(f, Unread, EscapeSteps(str), Len(str)) /\ EscapeStr(str) = f[Len(str)]
<1> DEFINE m == Len(str)
           Is(f) == f = [n \in 0 .. m |-> IF n = 0 THEN Unread ELSE EscapeNext(f[n - 1], str[n])]
           chosen == CHOOSE f : Is(f)
<1>1. m \in Nat /\ Unread \in Escapes
  BY DEF Unread, Escapes
<1>2. EscapeSteps(str) \in [0 .. m - 1 -> [Escapes -> Escapes]]
  <2>1. \A n \in 0 .. m - 1 : str[n + 1] \in Characters
    OBVIOUS
  <2>2. \A n \in 0 .. m - 1 : \A s \in Escapes : EscapeNext(s, str[n + 1]) \in Escapes
    BY <2>1, EscapeNextTypes
  <2> QED
    BY <2>2 DEF EscapeSteps
<1>3. \A n \in 0 .. m - 1 : \A s \in Escapes : EscapeSteps(str)[n][s] = EscapeNext(s, str[n + 1])
  BY DEF EscapeSteps
<1> HIDE DEF m
<1>4. PICK g \in [0 .. m -> Escapes] : Steps(g, Unread, EscapeSteps(str), m)
  BY <1>1, <1>2, SomeSteps
<1>5. Is(g)
  <2>1. ASSUME NEW n \in 0 .. m
        PROVE  g[n] = IF n = 0 THEN Unread ELSE EscapeNext(g[n - 1], str[n])
    <3>1. CASE n = 0
      BY <1>4, <3>1 DEF Steps
    <3>2. CASE n # 0
      <4>1. n - 1 \in 0 .. m - 1 /\ n - 1 \in 0 .. m /\ (n - 1) + 1 = n
        BY <1>1, <3>2
      <4>2. g[n] = EscapeSteps(str)[n - 1][g[n - 1]]
        BY <1>4, <4>1 DEF Steps
      <4> QED
        BY <1>3, <3>2, <4>1, <4>2
    <3> QED
      BY <3>1, <3>2
  <2>2. g = [n \in 0 .. m |-> g[n]]
    BY <1>4
  <2>3. [n \in 0 .. m |-> g[n]]
          = [n \in 0 .. m |-> IF n = 0 THEN Unread ELSE EscapeNext(g[n - 1], str[n])]
    BY <2>1
  <2> QED
    BY <2>2, <2>3
<1>6. Is(chosen)
  <2> HIDE DEF Is
  <2> QED
    BY <1>5
<1>7. EscapeStr(str) = chosen[m]
  BY DEF EscapeStr, m
<1> HIDE DEF chosen
<1>8. chosen[0] = Unread
  BY <1>1, <1>6
<1>9. \A n \in 0 .. m - 1 : chosen[n + 1] = EscapeNext(chosen[n], str[n + 1])
  <2> SUFFICES ASSUME NEW n \in 0 .. m - 1 PROVE chosen[n + 1] = EscapeNext(chosen[n], str[n + 1])
    OBVIOUS
  <2>1. n + 1 \in 0 .. m /\ n + 1 # 0 /\ (n + 1) - 1 = n
    BY <1>1
  <2> QED
    BY <1>6, <2>1
<1> DEFINE Typed == {n \in Nat : n <= m => chosen[n] \in Escapes}
<1>10. 0 \in Typed
  BY <1>1, <1>8
<1>11. ASSUME NEW n \in Nat, n \in Typed
       PROVE  n + 1 \in Typed
  <2>1. SUFFICES ASSUME n + 1 <= m PROVE chosen[n + 1] \in Escapes
    OBVIOUS
  <2>2. n \in 0 .. m - 1 /\ chosen[n] \in Escapes /\ n + 1 \in 1 .. Len(str)
    BY <1>1, <1>11, <2>1 DEF m
  <2>3. str[n + 1] \in Characters
    BY <2>2
  <2> QED
    BY <1>9, <2>2, <2>3, EscapeNextTypes
<1>12. Nat \subseteq Typed
  <2> HIDE DEF Typed
  <2> QED
    BY <1>10, <1>11, SetInduction
<1>13. chosen \in [0 .. m -> Escapes]
  <2>1. \A n \in 0 .. m : chosen[n] \in Escapes
    BY <1>1, <1>12
  <2>2. DOMAIN chosen = 0 .. m /\ chosen = [n \in 0 .. m |-> chosen[n]]
    BY <1>6
  <2> QED
    BY <2>1, <2>2
<1>14. Steps(chosen, Unread, EscapeSteps(str), m)
  <2>1. ASSUME NEW n \in 0 .. m - 1
        PROVE  chosen[n + 1] = EscapeSteps(str)[n][chosen[n]]
    <3>1. chosen[n] \in Escapes
      BY <1>1, <1>13
    <3> QED
      BY <1>3, <1>9, <3>1
  <2> QED
    BY <1>8, <2>1 DEF Steps
<1> QED
  BY <1>7, <1>13, <1>14 DEF m

(* A character more of a string is one more to look at. *)
LEMMA EscapeOneMore ==
  /\ EscapeStr(<< >>) = Unread
  /\ \A str \in Seq(Characters), c \in Characters :
       /\ EscapeStr(str) \in Escapes
       /\ EscapeStr(Append(str, c)) = EscapeNext(EscapeStr(str), c)
<1>1. EscapeStr(<< >>) = Unread
  <2>1. << >> \in Seq(Characters) /\ Len(<< >>) = 0
    OBVIOUS
  <2> QED
    BY <2>1, EscapeStrSteps DEF Steps
<1>2. ASSUME NEW str \in Seq(Characters), NEW c \in Characters
      PROVE  /\ EscapeStr(str) \in Escapes
             /\ EscapeStr(Append(str, c)) = EscapeNext(EscapeStr(str), c)
  <2> DEFINE m == Len(str)
             more == Append(str, c)
  <2>1. /\ m \in Nat /\ more \in Seq(Characters) /\ Len(more) = m + 1 /\ more[m + 1] = c
        /\ \A n \in 1 .. m : more[n] = str[n]
    BY AppendProperties
  <2> HIDE DEF more
  <2>2. PICK f \in [0 .. m -> Escapes] : Steps(f, Unread, EscapeSteps(str), m) /\ EscapeStr(str) = f[m]
    BY EscapeStrSteps
  <2> HIDE DEF m
  <2>3. PICK g \in [0 .. m + 1 -> Escapes] :
          Steps(g, Unread, EscapeSteps(more), m + 1) /\ EscapeStr(more) = g[m + 1]
    BY <2>1, EscapeStrSteps
  <2>4. \A n \in 0 .. m - 1 : \A s \in Escapes :
          EscapeSteps(str)[n][s] = EscapeNext(s, str[n + 1])
    BY <2>1 DEF EscapeSteps, m
  <2>5. \A n \in 0 .. m : \A s \in Escapes :
          EscapeSteps(more)[n][s] = EscapeNext(s, more[n + 1])
    BY <2>1 DEF EscapeSteps
  <2>6. Steps(g, Unread, EscapeSteps(more), m)
    <3>1. \A n \in 0 .. m - 1 : n \in 0 .. (m + 1) - 1
      BY <2>1
    <3> QED
      BY <2>3, <3>1 DEF Steps
  <2>7. \A n \in 0 .. m - 1 : EscapeSteps(str)[n][f[n]] = EscapeSteps(more)[n][f[n]]
    <3>1. \A n \in 0 .. m - 1 : n \in 0 .. m /\ n + 1 \in 1 .. m /\ f[n] \in Escapes
      BY <2>1
    <3> QED
      BY <2>1, <2>4, <2>5, <3>1
  <2>8. f[m] = g[m]
    <3>1. Agreeing(f, g, Unread, EscapeSteps(str), EscapeSteps(more), m)
      BY <2>2, <2>6, <2>7 DEF Agreeing
    <3>2. m \in Nat /\ m \in 0 .. m
      BY <2>1
    <3>3. \A n \in 0 .. m : f[n] = g[n]
      BY <3>1, <3>2, SameSteps
    <3> QED
      BY <3>2, <3>3
  <2>9. g[m + 1] = EscapeNext(g[m], c)
    <3>1. m \in 0 .. (m + 1) - 1 /\ m \in 0 .. m /\ g[m] \in Escapes
      BY <2>1
    <3>2. g[m + 1] = EscapeSteps(more)[m][g[m]]
      BY <2>3, <3>1 DEF Steps
    <3> QED
      BY <2>1, <2>5, <3>1, <3>2
  <2>10. f[m] \in Escapes
    BY <2>1
  <2> QED
    BY <2>2, <2>3, <2>8, <2>9, <2>10 DEF more
<1> QED
  BY <1>1, <1>2

-----------------------------------------------------------------------------
(* Which characters are escaped, and what they mean.                       *)

Backslashes(text, i) == {k \in 0 .. i - 1 : \A j \in i - k .. i - 1 : text[j] = "\\"}

LEMMA BackslashesBefore ==
  ASSUME NEW text, NEW i \in Nat \ {0}
  PROVE  /\ Max(Backslashes(text, i)) \in Backslashes(text, i)
         /\ \A k \in Backslashes(text, i) : Max(Backslashes(text, i)) >= k
         /\ 0 \in Backslashes(text, i)
<1>1. 0 \in Backslashes(text, i)
  BY DEF Backslashes
<1>2. Backslashes(text, i) \subseteq 0 .. i /\ i \in Nat
  BY DEF Backslashes
<1> QED
  BY <1>1, <1>2, MaxOfBounded

(* A character is escaped by a backslash that is not. *)
LEMMA EscapedNext ==
  ASSUME NEW text, NEW i \in Nat \ {0}
  PROVE  /\ ~Escaped(text, 1)
         /\ Escaped(text, i + 1) <=> text[i] = "\\" /\ ~Escaped(text, i)
<1>1. ~Escaped(text, 1)
  <2>1. Max(Backslashes(text, 1)) \in 0 .. 0
    <3>1. Max(Backslashes(text, 1)) \in Backslashes(text, 1)
      BY BackslashesBefore
    <3> QED
      BY <3>1 DEF Backslashes
  <2>2. Escaped(text, 1) <=> Max(Backslashes(text, 1)) % 2 = 1
    BY DEF Escaped, Backslashes
  <2> QED
    BY <2>1, <2>2
<1> DEFINE before == Max(Backslashes(text, i))
           now    == Max(Backslashes(text, i + 1))
<1>2. before \in 0 .. i - 1 /\ \A j \in i - before .. i - 1 : text[j] = "\\"
  <2>1. before \in Backslashes(text, i)
    BY BackslashesBefore
  <2> HIDE DEF before
  <2> QED
    BY <2>1 DEF Backslashes
<1>3. \A k \in Backslashes(text, i) : before >= k
  BY BackslashesBefore
<1>4. now \in 0 .. i /\ \A j \in (i + 1) - now .. i : text[j] = "\\"
  <2>1. now \in Backslashes(text, i + 1)
    BY BackslashesBefore
  <2>2. (i + 1) - 1 = i
    OBVIOUS
  <2> HIDE DEF now
  <2> QED
    BY <2>1, <2>2 DEF Backslashes
<1>5. \A k \in Backslashes(text, i + 1) : now >= k
  BY BackslashesBefore
<1>6. (Escaped(text, i) <=> before % 2 = 1) /\ (Escaped(text, i + 1) <=> now % 2 = 1)
  BY DEF Escaped, Backslashes
<1> HIDE DEF before, now
<1>7. CASE text[i] = "\\"
  <2>1. before + 1 \in Backslashes(text, i + 1)
    <3>1. ASSUME NEW j \in (i + 1) - (before + 1) .. (i + 1) - 1
          PROVE  text[j] = "\\"
      <4>1. j = i \/ j \in i - before .. i - 1
        BY <1>2
      <4> QED
        BY <1>2, <1>7, <4>1
    <3>2. before + 1 \in 0 .. (i + 1) - 1
      BY <1>2
    <3> QED
      BY <3>1, <3>2 DEF Backslashes
  <2>2. now >= before + 1 /\ now >= 1 /\ now - 1 \in 0 .. i - 1
    BY <1>2, <1>4, <1>5, <2>1
  <2>3. now - 1 \in Backslashes(text, i)
    <3>1. ASSUME NEW j \in i - (now - 1) .. i - 1
          PROVE  text[j] = "\\"
      <4>1. j \in (i + 1) - now .. i
        BY <1>4
      <4> QED
        BY <1>4, <4>1
    <3> QED
      BY <2>2, <3>1 DEF Backslashes
  <2>4. now = before + 1
    BY <1>2, <1>3, <1>4, <2>2, <2>3
  <2>5. now % 2 = 1 <=> ~(before % 2 = 1)
    BY <1>2, <2>4
  <2> QED
    BY <1>1, <1>6, <1>7, <2>5
<1>8. CASE text[i] # "\\"
  <2>1. now = 0
    <3>1. SUFFICES ASSUME now >= 1 PROVE FALSE
      BY <1>4
    <3>2. i \in (i + 1) - now .. i
      BY <1>4, <3>1
    <3> QED
      BY <1>4, <1>8, <3>2
  <2>2. ~(now % 2 = 1)
    BY <2>1
  <2> QED
    BY <1>1, <1>6, <1>8, <2>2
<1> QED
  BY <1>7, <1>8

(* It depends on what precedes it only. *)
LEMMA EscapedSame ==
  ASSUME NEW text, NEW more, NEW i \in Nat \ {0}, \A j \in 1 .. i - 1 : text[j] = more[j]
  PROVE  Escaped(text, i) <=> Escaped(more, i)
<1>1. ASSUME NEW k \in 0 .. i - 1
      PROVE  k \in Backslashes(text, i) <=> k \in Backslashes(more, i)
  <2>1. \A j \in i - k .. i - 1 : j \in 1 .. i - 1
    OBVIOUS
  <2> QED
    BY <2>1 DEF Backslashes
<1>2. Backslashes(text, i) = Backslashes(more, i)
  <2>1. Backslashes(text, i) \subseteq 0 .. i - 1 /\ Backslashes(more, i) \subseteq 0 .. i - 1
    BY DEF Backslashes
  <2> QED
    BY <1>1, <2>1
<1> QED
  BY <1>2 DEF Escaped, Backslashes

LEMMA EscapedOneMore ==
  ASSUME NEW text \in Seq(Characters), NEW c \in Characters
  PROVE  /\ EscapedIn(<< >>) = {}
         /\ EscapedIn(Append(text, c))
              = IF Escaped(text, Len(text) + 1) THEN EscapedIn(text) \cup {c} ELSE EscapedIn(text)
         /\ Escaped(Append(text, c), Len(text) + 2)
              <=> c = "\\" /\ ~Escaped(text, Len(text) + 1)
<1> DEFINE m == Len(text)
           more == Append(text, c)
<1>1. /\ m \in Nat /\ DOMAIN text = 1 .. m /\ DOMAIN more = 1 .. m + 1 /\ more[m + 1] = c
      /\ \A n \in 1 .. m : more[n] = text[n]
  BY AppendProperties
<1>2. EscapedIn(<< >>) = {}
  BY DEF EscapedIn
<1> HIDE DEF more, m
<1>3. \A i \in 1 .. m + 1 : Escaped(text, i) <=> Escaped(more, i)
  <2> SUFFICES ASSUME NEW i \in 1 .. m + 1 PROVE Escaped(text, i) <=> Escaped(more, i)
    OBVIOUS
  <2>1. i \in Nat \ {0} /\ \A j \in 1 .. i - 1 : text[j] = more[j]
    BY <1>1
  <2> QED
    BY <2>1, EscapedSame
<1>4. m + 1 \in Nat \ {0} /\ (m + 1) + 1 = m + 2
  BY <1>1
<1>5. Escaped(more, m + 2) <=> c = "\\" /\ ~Escaped(text, m + 1)
  <2>1. Escaped(more, (m + 1) + 1) <=> more[m + 1] = "\\" /\ ~Escaped(more, m + 1)
    BY <1>4, EscapedNext
  <2>2. m + 1 \in 1 .. m + 1
    BY <1>1
  <2> QED
    BY <1>1, <1>3, <1>4, <2>1, <2>2
<1>6. \A x : x \in EscapedIn(text) <=> \E i \in 1 .. m : Escaped(text, i) /\ x = text[i]
  BY <1>1 DEF EscapedIn
<1>7. \A x : x \in EscapedIn(more) <=> \E i \in 1 .. m + 1 : Escaped(more, i) /\ x = more[i]
  BY <1>1 DEF EscapedIn
<1>8. ASSUME NEW x
      PROVE  x \in EscapedIn(more) <=> x \in EscapedIn(text) \/ (Escaped(text, m + 1) /\ x = c)
  <2>1. \A i \in 1 .. m : i \in 1 .. m + 1
    BY <1>1
  <2>2. \A i \in 1 .. m + 1 : i \in 1 .. m \/ i = m + 1
    BY <1>1
  <2>3. m + 1 \in 1 .. m + 1
    BY <1>1
  <2>4. ASSUME x \in EscapedIn(more)
        PROVE  x \in EscapedIn(text) \/ (Escaped(text, m + 1) /\ x = c)
    <3>1. PICK i \in 1 .. m + 1 : Escaped(more, i) /\ x = more[i]
      BY <1>7, <2>4
    <3> QED
      BY <1>1, <1>3, <1>6, <2>2, <3>1
  <2>5. ASSUME x \in EscapedIn(text)
        PROVE  x \in EscapedIn(more)
    <3>1. PICK i \in 1 .. m : Escaped(text, i) /\ x = text[i]
      BY <1>6, <2>5
    <3>2. i \in 1 .. m + 1 /\ Escaped(more, i) /\ x = more[i]
      BY <1>1, <1>3, <2>1, <3>1
    <3> QED
      BY <1>7, <3>2
  <2>6. ASSUME Escaped(text, m + 1), x = c
        PROVE  x \in EscapedIn(more)
    <3>1. Escaped(more, m + 1) /\ x = more[m + 1]
      BY <1>1, <1>3, <2>3, <2>6
    <3> QED
      BY <1>7, <2>3, <3>1
  <2> QED
    BY <2>4, <2>5, <2>6
<1>9. EscapedIn(more) = IF Escaped(text, m + 1) THEN EscapedIn(text) \cup {c} ELSE EscapedIn(text)
  <2>1. CASE Escaped(text, m + 1)
    BY <1>8, <2>1
  <2>2. CASE ~Escaped(text, m + 1)
    BY <1>8, <2>2
  <2> QED
    BY <2>1, <2>2
<1> QED
  BY <1>2, <1>5, <1>9 DEF m, more

LEMMA SaidTypes ==
  ASSUME NEW text \in Seq(Characters), NEW i \in 1 .. Len(text)
  PROVE  Said(text, i) \in Seq(Characters)
<1>1. text[i] \in Characters
  OBVIOUS
<1>2. Replacement(text[i]) \in Characters
  BY <1>1, ControlLetters
<1> QED
  BY <1>1, <1>2 DEF Said

MeaningSteps(text) ==
  [n \in 0 .. Len(text) - 1 |-> [said \in Seq(Characters) |-> said \o Said(text, n + 1)]]

LEMMA MeaningIsSteps ==
  ASSUME NEW text \in Seq(Characters)
  PROVE  \E f \in [0 .. Len(text) -> Seq(Characters)] :
           Steps(f, << >>, MeaningSteps(text), Len(text)) /\ Meaning(text) = f[Len(text)]
<1> DEFINE m == Len(text)
           Is(f) == f = [n \in 0 .. m |-> IF n = 0 THEN << >> ELSE f[n - 1] \o Said(text, n)]
           chosen == CHOOSE f : Is(f)
<1>1. m \in Nat /\ << >> \in Seq(Characters)
  OBVIOUS
<1>2. \A n \in 0 .. m - 1 : Said(text, n + 1) \in Seq(Characters)
  <2>1. \A n \in 0 .. m - 1 : n + 1 \in 1 .. Len(text)
    OBVIOUS
  <2> QED
    BY <2>1, SaidTypes
<1>3. MeaningSteps(text) \in [0 .. m - 1 -> [Seq(Characters) -> Seq(Characters)]]
  <2>1. \A n \in 0 .. m - 1 : \A said \in Seq(Characters) : said \o Said(text, n + 1) \in Seq(Characters)
    BY <1>2
  <2> QED
    BY <2>1 DEF MeaningSteps
<1>4. \A n \in 0 .. m - 1 : \A said \in Seq(Characters) :
        MeaningSteps(text)[n][said] = said \o Said(text, n + 1)
  BY DEF MeaningSteps
<1> HIDE DEF m
<1>5. PICK g \in [0 .. m -> Seq(Characters)] : Steps(g, << >>, MeaningSteps(text), m)
  BY <1>1, <1>3, SomeSteps
<1>6. Is(g)
  <2>1. ASSUME NEW n \in 0 .. m
        PROVE  g[n] = IF n = 0 THEN << >> ELSE g[n - 1] \o Said(text, n)
    <3>1. CASE n = 0
      BY <1>5, <3>1 DEF Steps
    <3>2. CASE n # 0
      <4>1. n - 1 \in 0 .. m - 1 /\ n - 1 \in 0 .. m /\ (n - 1) + 1 = n
        BY <1>1, <3>2
      <4>2. g[n] = MeaningSteps(text)[n - 1][g[n - 1]]
        BY <1>5, <4>1 DEF Steps
      <4> QED
        BY <1>4, <3>2, <4>1, <4>2
    <3> QED
      BY <3>1, <3>2
  <2>2. g = [n \in 0 .. m |-> g[n]]
    BY <1>5
  <2>3. [n \in 0 .. m |-> g[n]] = [n \in 0 .. m |-> IF n = 0 THEN << >> ELSE g[n - 1] \o Said(text, n)]
    BY <2>1
  <2> QED
    BY <2>2, <2>3
<1>7. Is(chosen)
  <2> HIDE DEF Is
  <2> QED
    BY <1>6
<1>8. Meaning(text) = chosen[m]
  BY DEF Meaning, m
<1> HIDE DEF chosen
<1>9. chosen[0] = << >>
  BY <1>1, <1>7
<1>10. \A n \in 0 .. m - 1 : chosen[n + 1] = chosen[n] \o Said(text, n + 1)
  <2> SUFFICES ASSUME NEW n \in 0 .. m - 1 PROVE chosen[n + 1] = chosen[n] \o Said(text, n + 1)
    OBVIOUS
  <2>1. n + 1 \in 0 .. m /\ n + 1 # 0 /\ (n + 1) - 1 = n
    BY <1>1
  <2> QED
    BY <1>7, <2>1
<1> DEFINE Typed == {n \in Nat : n <= m => chosen[n] \in Seq(Characters)}
<1>11. 0 \in Typed
  BY <1>1, <1>9
<1>12. ASSUME NEW n \in Nat, n \in Typed
       PROVE  n + 1 \in Typed
  <2>1. SUFFICES ASSUME n + 1 <= m PROVE chosen[n + 1] \in Seq(Characters)
    OBVIOUS
  <2>2. n \in 0 .. m - 1 /\ chosen[n] \in Seq(Characters)
    BY <1>1, <1>12, <2>1
  <2>3. Said(text, n + 1) \in Seq(Characters) /\ chosen[n + 1] = chosen[n] \o Said(text, n + 1)
    BY <1>2, <1>10, <2>2
  <2>4. \A a, b \in Seq(Characters) : a \o b \in Seq(Characters)
    OBVIOUS
  <2> QED
    BY <2>2, <2>3, <2>4
<1>13. Nat \subseteq Typed
  <2> HIDE DEF Typed
  <2> QED
    BY <1>11, <1>12, SetInduction
<1>14. chosen \in [0 .. m -> Seq(Characters)]
  <2>1. \A n \in 0 .. m : chosen[n] \in Seq(Characters)
    BY <1>1, <1>13
  <2>2. chosen = [n \in 0 .. m |-> chosen[n]]
    BY <1>7
  <2> QED
    BY <2>1, <2>2
<1>15. Steps(chosen, << >>, MeaningSteps(text), m)
  <2>1. ASSUME NEW n \in 0 .. m - 1
        PROVE  chosen[n + 1] = MeaningSteps(text)[n][chosen[n]]
    <3>1. chosen[n] \in Seq(Characters)
      BY <1>1, <1>14
    <3> QED
      BY <1>4, <1>10, <3>1
  <2> QED
    BY <1>9, <2>1 DEF Steps
<1> QED
  BY <1>8, <1>14, <1>15 DEF m

(* A character more of the text is one more to say, none or one. *)
LEMMA MeaningOneMore ==
  /\ Meaning(<< >>) = << >>
  /\ \A text \in Seq(Characters), c \in Characters :
       /\ Meaning(text) \in Seq(Characters)
       /\ Meaning(Append(text, c))
            = IF Escaped(text, Len(text) + 1) THEN Append(Meaning(text), Replacement(c))
              ELSE IF c = "\\" THEN Meaning(text) ELSE Append(Meaning(text), c)
<1>1. Meaning(<< >>) = << >>
  <2>1. << >> \in Seq(Characters) /\ Len(<< >>) = 0
    OBVIOUS
  <2> QED
    BY <2>1, MeaningIsSteps DEF Steps
<1>2. ASSUME NEW text \in Seq(Characters), NEW c \in Characters
      PROVE  /\ Meaning(text) \in Seq(Characters)
             /\ Meaning(Append(text, c))
                  = IF Escaped(text, Len(text) + 1) THEN Append(Meaning(text), Replacement(c))
                    ELSE IF c = "\\" THEN Meaning(text) ELSE Append(Meaning(text), c)
  <2> DEFINE m == Len(text)
             more == Append(text, c)
  <2>1. /\ m \in Nat /\ more \in Seq(Characters) /\ Len(more) = m + 1 /\ more[m + 1] = c
        /\ \A n \in 1 .. m : more[n] = text[n]
    BY AppendProperties
  <2> HIDE DEF more
  <2>2. PICK f : /\ f \in [0 .. m -> Seq(Characters)]
                 /\ Steps(f, << >>, MeaningSteps(text), m) /\ Meaning(text) = f[m]
    BY MeaningIsSteps
  <2> HIDE DEF m
  <2>3. PICK g : /\ g \in [0 .. m + 1 -> Seq(Characters)]
                 /\ Steps(g, << >>, MeaningSteps(more), m + 1) /\ Meaning(more) = g[m + 1]
    BY <2>1, MeaningIsSteps
  <2>4. \A n \in 0 .. m - 1 : \A said \in Seq(Characters) :
          MeaningSteps(text)[n][said] = said \o Said(text, n + 1)
    BY <2>1 DEF MeaningSteps, m
  <2>5. \A n \in 0 .. m : \A said \in Seq(Characters) :
          MeaningSteps(more)[n][said] = said \o Said(more, n + 1)
    BY <2>1 DEF MeaningSteps
  <2>6. Steps(g, << >>, MeaningSteps(more), m)
    <3>1. \A n \in 0 .. m - 1 : n \in 0 .. (m + 1) - 1
      BY <2>1
    <3> QED
      BY <2>3, <3>1 DEF Steps
  <2>7. \A i \in 1 .. m + 1 : Escaped(text, i) <=> Escaped(more, i)
    <3> SUFFICES ASSUME NEW i \in 1 .. m + 1 PROVE Escaped(text, i) <=> Escaped(more, i)
      OBVIOUS
    <3>1. i \in Nat \ {0} /\ \A j \in 1 .. i - 1 : text[j] = more[j]
      BY <2>1
    <3> QED
      BY <3>1, EscapedSame
  <2>8. \A i \in 1 .. m : Said(text, i) = Said(more, i)
    <3> SUFFICES ASSUME NEW i \in 1 .. m PROVE Said(text, i) = Said(more, i)
      OBVIOUS
    <3>1. i \in 1 .. m + 1 /\ text[i] = more[i]
      BY <2>1
    <3> QED
      BY <2>7, <3>1 DEF Said
  <2>9. \A n \in 0 .. m - 1 : MeaningSteps(text)[n][f[n]] = MeaningSteps(more)[n][f[n]]
    <3> SUFFICES ASSUME NEW n \in 0 .. m - 1
                 PROVE  MeaningSteps(text)[n][f[n]] = MeaningSteps(more)[n][f[n]]
      OBVIOUS
    <3>1. n \in 0 .. m /\ n + 1 \in 1 .. m /\ f[n] \in Seq(Characters)
      BY <2>1, <2>2
    <3>2. MeaningSteps(text)[n][f[n]] = f[n] \o Said(text, n + 1)
      BY <2>4, <3>1
    <3>3. MeaningSteps(more)[n][f[n]] = f[n] \o Said(more, n + 1)
      BY <2>5, <3>1
    <3> QED
      BY <2>8, <3>1, <3>2, <3>3
  <2>10. f[m] = g[m]
    <3>1. Agreeing(f, g, << >>, MeaningSteps(text), MeaningSteps(more), m)
      BY <2>2, <2>6, <2>9 DEF Agreeing
    <3>2. m \in Nat /\ m \in 0 .. m
      BY <2>1
    <3>3. \A n \in 0 .. m : f[n] = g[n]
      BY <3>1, <3>2, SameSteps
    <3> QED
      BY <3>2, <3>3
  <2>11. g[m + 1] = g[m] \o Said(more, m + 1)
    <3>1. m \in 0 .. (m + 1) - 1 /\ m \in 0 .. m /\ g[m] \in Seq(Characters)
      BY <2>1, <2>3
    <3>2. g[m + 1] = MeaningSteps(more)[m][g[m]]
      BY <2>3, <3>1 DEF Steps
    <3> QED
      BY <2>5, <3>1, <3>2
  <2>12. f[m] \in Seq(Characters)
    BY <2>1, <2>2
  <2>13. Said(more, m + 1)
           = IF Escaped(text, m + 1) THEN <<Replacement(c)>> ELSE IF c = "\\" THEN << >> ELSE <<c>>
    <3>1. m + 1 \in 1 .. m + 1
      BY <2>1
    <3> QED
      BY <2>1, <2>7, <3>1 DEF Said
  <2>14. Replacement(c) \in Characters
    BY ControlLetters
  <2>15. ASSUME NEW x \in Characters
         PROVE  f[m] \o <<x>> = Append(f[m], x)
    BY <2>12
  <2>16. f[m] \o << >> = f[m]
    BY <2>12
  <2>17. Meaning(more) = f[m] \o Said(more, m + 1)
    BY <2>3, <2>10, <2>11
  <2> QED
    BY <2>2, <2>12, <2>13, <2>14, <2>15, <2>16, <2>17 DEF more, m
<1> QED
  BY <1>1, <1>2

-----------------------------------------------------------------------------
(* What current_str holds for what was read of a string: escape_str makes  *)
(* of it what the text means, and a backslash more if the text ends in one *)
(* that begins an escape sequence.                                         *)
Told(text, e, halfway) ==
  /\ Escaped(text, Len(text) + 1) <=> halfway
  /\ EscapedIn(text) \cap Controls = {} =>
       /\ e.valid <=> EscapedIn(text) \subseteq Allowed
       /\ e.valid => /\ e.esc <=> halfway
                     /\ e.out = IF halfway THEN Append(Meaning(text), "\\") ELSE Meaning(text)

LEMMA EscapeNextDoes ==
  ASSUME NEW s \in Escapes, NEW c \in Characters
  PROVE  /\ ~s.valid => ~EscapeNext(s, c).valid
         /\ s.valid /\ ~s.esc =>
              /\ EscapeNext(s, c).valid
              /\ EscapeNext(s, c).esc <=> c = "\\"
              /\ EscapeNext(s, c).out = Append(s.out, c)
         /\ s.valid /\ s.esc /\ c \in Allowed =>
              /\ EscapeNext(s, c).valid
              /\ ~EscapeNext(s, c).esc
              /\ EscapeNext(s, c).out = Append(Front(s.out), Replacement(c))
         /\ s.valid /\ s.esc /\ c \notin Allowed => ~EscapeNext(s, c).valid
<1>1. CASE ~s.valid
  BY <1>1 DEF EscapeNext
<1>2. CASE s.valid /\ ~s.esc
  <2>1. EscapeNext(s, c) = [s EXCEPT !.esc = c = "\\", !.out = Append(@, c)]
    BY <1>2 DEF EscapeNext
  <2> QED
    BY <1>2, <2>1 DEF Escapes
<1>3. CASE s.valid /\ s.esc /\ c \in Allowed
  <2>1. EscapeNext(s, c) = [s EXCEPT !.out = Append(Front(@), Replacement(c)), !.esc = FALSE]
    BY <1>3 DEF EscapeNext, Allowed
  <2> QED
    BY <1>3, <2>1 DEF Escapes
<1>4. CASE s.valid /\ s.esc /\ c \notin Allowed
  <2>1. EscapeNext(s, c) = [s EXCEPT !.valid = FALSE]
    BY <1>4 DEF EscapeNext, Allowed
  <2> QED
    BY <1>4, <2>1 DEF Escapes
<1> QED
  BY <1>1, <1>2, <1>3, <1>4

LEMMA UnescapeOneMore ==
  ASSUME NEW str \in Seq(Characters), NEW c \in Characters
  PROVE  /\ str \o UnescapeCh(c) \in Seq(Characters)
         /\ c \notin Controls => str \o UnescapeCh(c) = Append(str, c)
         /\ c \in Controls =>
              /\ Append(str, "\\") \in Seq(Characters) /\ LetterOf(c) \in Characters
              /\ str \o UnescapeCh(c) = Append(Append(str, "\\"), LetterOf(c))
<1>1. CASE c \notin Controls
  <2>1. UnescapeCh(c) = <<c>>
    BY <1>1 DEF UnescapeCh
  <2> QED
    BY <1>1, <2>1
<1>2. CASE c \in Controls
  <2> DEFINE b == "\\"
             l == LetterOf(c)
  <2>1. UnescapeCh(c) = <<b, l>>
    BY <1>2 DEF UnescapeCh
  <2>2. l \in Characters /\ b \in Characters
    BY <1>2, ControlLetters
  <2> HIDE DEF b, l
  <2>3. str \o <<b, l>> = Append(Append(str, b), l)
    BY <2>2
  <2>4. Append(str, b) \in Seq(Characters)
    BY <2>2
  <2>5. Append(Append(str, b), l) \in Seq(Characters)
    BY <2>2, <2>4
  <2> QED
    BY <1>2, <2>1, <2>2, <2>3, <2>4, <2>5 DEF b, l
<1> QED
  BY <1>1, <1>2

(* A character, if no escape sequence is open: a control character is two  *)
(* characters of current_str.                                              *)
LEMMA PlainRead ==
  ASSUME NEW str \in Seq(Characters), NEW c \in Characters, c # "\\",
         NEW e, e = EscapeStr(str), NEW new, new = EscapeStr(str \o UnescapeCh(c))
  PROVE  /\ ~e.valid => ~new.valid
         /\ e.valid /\ ~e.esc => new.valid /\ ~new.esc /\ new.out = Append(e.out, c)
<1>1. e \in Escapes /\ e.out \in Seq(Characters)
  <2>1. e \in Escapes
    BY EscapeOneMore
  <2> QED
    BY <2>1 DEF Escapes
<1>2. CASE c \notin Controls
  <2>1. new = EscapeNext(e, c)
    BY <1>2, UnescapeOneMore, EscapeOneMore
  <2> QED
    BY <1>1, <2>1, EscapeNextDoes
<1>3. CASE c \in Controls
  <2> DEFINE letter == LetterOf(c)
             middle == EscapeStr(Append(str, "\\"))
  <2>1. letter \in Characters /\ "\\" \in Characters /\ letter \in Allowed /\ Replacement(letter) = c
    BY <1>3, ControlLetters DEF Allowed
  <2>2. Append(str, "\\") \in Seq(Characters) /\ str \o UnescapeCh(c) = Append(Append(str, "\\"), letter)
    BY <1>3, UnescapeOneMore
  <2>3. middle = EscapeNext(e, "\\") /\ middle \in Escapes
    BY <2>1, <2>2, EscapeOneMore
  <2>4. new = EscapeNext(middle, letter)
    BY <2>1, <2>2, EscapeOneMore
  <2> HIDE DEF letter, middle
  <2>5. ~e.valid => ~new.valid
    BY <1>1, <2>1, <2>3, <2>4, EscapeNextDoes
  <2>6. ASSUME e.valid, ~e.esc
        PROVE  new.valid /\ ~new.esc /\ new.out = Append(e.out, c)
    <3>1. middle.valid /\ middle.esc /\ middle.out = Append(e.out, "\\")
      BY <1>1, <2>1, <2>3, <2>6, EscapeNextDoes
    <3>2. new.valid /\ ~new.esc /\ new.out = Append(Front(middle.out), Replacement(letter))
      BY <2>1, <2>3, <2>4, <3>1, EscapeNextDoes
    <3>3. Front(Append(e.out, "\\")) = e.out
      BY <1>1, <2>1, FrontStays
    <3> QED
      BY <2>1, <3>1, <3>2, <3>3
  <2> QED
    BY <2>5, <2>6
<1> QED
  BY <1>2, <1>3

(* A character of the text that is neither escaped nor a backslash.        *)
LEMMA PlainTold ==
  ASSUME NEW text \in Seq(Characters), NEW str \in Seq(Characters), NEW c \in Characters,
         Told(text, EscapeStr(str), FALSE), c # "\\"
  PROVE  Told(Append(text, c), EscapeStr(str \o UnescapeCh(c)), FALSE)
<1> DEFINE e == EscapeStr(str)
           new == EscapeStr(str \o UnescapeCh(c))
           more == Append(text, c)
<1>1. ~Escaped(text, Len(text) + 1)
  BY DEF Told
<1>2. EscapedIn(more) = EscapedIn(text) /\ ~Escaped(more, Len(more) + 1)
  <2>1. Len(more) + 1 = Len(text) + 2
    <3>1. Len(more) = Len(text) + 1 /\ Len(text) \in Nat
      BY AppendProperties
    <3> QED
      BY <3>1
  <2> QED
    BY <1>1, <2>1, EscapedOneMore
<1>3. Meaning(more) = Append(Meaning(text), c)
  BY <1>1, MeaningOneMore
<1>4. /\ ~e.valid => ~new.valid
      /\ e.valid /\ ~e.esc => new.valid /\ ~new.esc /\ new.out = Append(e.out, c)
  BY PlainRead
<1>5. EscapedIn(text) \cap Controls = {} =>
        /\ e.valid <=> EscapedIn(text) \subseteq Allowed
        /\ e.valid => ~e.esc /\ e.out = Meaning(text)
  BY DEF Told
<1> HIDE DEF e, new, more
<1>6. Told(more, new, FALSE)
  BY <1>2, <1>3, <1>4, <1>5 DEF Told
<1> QED
  BY <1>6 DEF new, more

(* A backslash that begins an escape sequence. *)
LEMMA BackslashTold ==
  ASSUME NEW text \in Seq(Characters), NEW str \in Seq(Characters),
         Told(text, EscapeStr(str), FALSE)
  PROVE  Told(Append(text, "\\"), EscapeStr(Append(str, "\\")), TRUE)
<1> DEFINE e == EscapeStr(str)
           new == EscapeStr(Append(str, "\\"))
           more == Append(text, "\\")
<1>1. ~Escaped(text, Len(text) + 1) /\ "\\" \in Characters
  BY ControlLetters DEF Told
<1>2. EscapedIn(more) = EscapedIn(text) /\ Escaped(more, Len(more) + 1)
  <2>1. Len(more) + 1 = Len(text) + 2
    <3>1. Len(more) = Len(text) + 1 /\ Len(text) \in Nat
      BY <1>1, AppendProperties
    <3> QED
      BY <3>1
  <2> QED
    BY <1>1, <2>1, EscapedOneMore
<1>3. Meaning(more) = Meaning(text)
  BY <1>1, MeaningOneMore
<1>4. /\ ~e.valid => ~new.valid
      /\ e.valid /\ ~e.esc => new.valid /\ new.esc /\ new.out = Append(e.out, "\\")
  <2>1. e \in Escapes /\ new = EscapeNext(e, "\\")
    BY <1>1, EscapeOneMore
  <2> QED
    BY <1>1, <2>1, EscapeNextDoes
<1>5. EscapedIn(text) \cap Controls = {} =>
        /\ e.valid <=> EscapedIn(text) \subseteq Allowed
        /\ e.valid => ~e.esc /\ e.out = Meaning(text)
  BY DEF Told
<1> HIDE DEF e, new, more
<1>6. Told(more, new, TRUE)
  BY <1>2, <1>3, <1>4, <1>5 DEF Told
<1> QED
  BY <1>6 DEF new, more

(* The character that ends it; after a control character nothing is said.  *)
LEMMA EscapedTold ==
  ASSUME NEW text \in Seq(Characters), NEW str \in Seq(Characters), NEW c \in Characters,
         Told(text, EscapeStr(str), TRUE)
  PROVE  Told(Append(text, c), EscapeStr(str \o UnescapeCh(c)), FALSE)
<1> DEFINE e == EscapeStr(str)
           new == EscapeStr(str \o UnescapeCh(c))
           more == Append(text, c)
<1>1. Escaped(text, Len(text) + 1) /\ "\\" \in Characters
  BY ControlLetters DEF Told
<1>2. EscapedIn(more) = EscapedIn(text) \cup {c} /\ ~Escaped(more, Len(more) + 1)
  <2>1. Len(more) + 1 = Len(text) + 2
    <3>1. Len(more) = Len(text) + 1 /\ Len(text) \in Nat
      BY AppendProperties
    <3> QED
      BY <3>1
  <2> QED
    BY <1>1, <2>1, EscapedOneMore
<1>3. Meaning(more) = Append(Meaning(text), Replacement(c)) /\ Meaning(text) \in Seq(Characters)
  BY <1>1, MeaningOneMore
<1>4. Front(Append(Meaning(text), "\\")) = Meaning(text)
  BY <1>1, <1>3, FrontStays
<1>5. c \notin Controls =>
        /\ ~e.valid => ~new.valid
        /\ e.valid /\ e.esc /\ c \in Allowed =>
             new.valid /\ ~new.esc /\ new.out = Append(Front(e.out), Replacement(c))
        /\ e.valid /\ e.esc /\ c \notin Allowed => ~new.valid
  <2> SUFFICES ASSUME c \notin Controls
               PROVE  /\ ~e.valid => ~new.valid
                      /\ e.valid /\ e.esc /\ c \in Allowed =>
                           new.valid /\ ~new.esc /\ new.out = Append(Front(e.out), Replacement(c))
                      /\ e.valid /\ e.esc /\ c \notin Allowed => ~new.valid
    OBVIOUS
  <2>1. e \in Escapes /\ new = EscapeNext(e, c)
    BY UnescapeOneMore, EscapeOneMore
  <2> QED
    BY <2>1, EscapeNextDoes
<1>6. EscapedIn(text) \cap Controls = {} =>
        /\ e.valid <=> EscapedIn(text) \subseteq Allowed
        /\ e.valid => e.esc /\ e.out = Append(Meaning(text), "\\")
  BY DEF Told
<1> HIDE DEF e, new, more
<1>7. ASSUME EscapedIn(more) \cap Controls = {}
      PROVE  /\ new.valid <=> EscapedIn(more) \subseteq Allowed
             /\ new.valid => ~new.esc /\ new.out = Meaning(more)
  <2>1. EscapedIn(text) \cap Controls = {} /\ c \notin Controls
    BY <1>2, <1>7
  <2>2. EscapedIn(more) \subseteq Allowed <=> EscapedIn(text) \subseteq Allowed /\ c \in Allowed
    BY <1>2
  <2> QED
    BY <1>3, <1>4, <1>5, <1>6, <2>1, <2>2
<1>8. Told(more, new, FALSE)
  BY <1>2, <1>7 DEF Told
<1> QED
  BY <1>8 DEF new, more

-----------------------------------------------------------------------------
(* Strings as they are read.                                               *)

InStrings == {"X_STR", "X_STR_ESC"}

(* The open string is that of the quote at o: the account left the code    *)
(* there and did not come back, and the characters since are told.         *)
OpenedAt(o) ==
  /\ input[o] = Quote
  /\ AccountOf(o - 1).in = "code"
  /\ \A i \in o .. pos - 1 : AccountOf(i).in # "code"

OpenString ==
  start \in InStrings =>
    /\ current_str \in Seq(Characters)
    /\ \E o \in 1 .. pos - 1 :
         /\ OpenedAt(o)
         /\ Told(SubSeq(input, o + 1, pos - 1), EscapeStr(current_str), start = "X_STR_ESC")

StringInv == OpenString /\ StringsMean

(* The characters since the quote, and one more. *)
LEMMA TextOneMore ==
  ASSUME input \in Seq(Characters), NEW p \in 1 .. Len(input), NEW o \in 1 .. p - 1
  PROVE  /\ SubSeq(input, o + 1, p - 1) \in Seq(Characters)
         /\ input[p] \in Characters
         /\ SubSeq(input, o + 1, p) = Append(SubSeq(input, o + 1, p - 1), input[p])
<1> DEFINE text == SubSeq(input, o + 1, p - 1)
<1>1. o + 1 \in 1 .. Len(input) /\ p \in o + 1 .. Len(input) /\ p - 1 \in Int
  OBVIOUS
<1>2. text \in Seq(Characters)
  <2>1. \A i \in o + 1 .. p - 1 : input[i] \in Characters
    BY <1>1
  <2> QED
    BY <1>1, <2>1, SubSeqProperties
<1>3. input[p] \in Characters
  OBVIOUS
<1>4. SubSeq(input, o + 1, p) = text \o <<input[p]>>
  BY <1>1, SubSeqRecursiveSecond
<1> HIDE DEF text
<1>5. text \o <<input[p]>> = Append(text, input[p])
  BY <1>2, <1>3
<1> QED
  BY <1>2, <1>3, <1>4, <1>5 DEF text

(* What was said of strings is said still.                                 *)
SaidOf(token) ==
  LET text == TextBefore(token.to)
  IN  (token.kind = "CONST_STR" /\ EscapedIn(text) \cap Controls = {})
        => /\ EscapedIn(text) \subseteq Allowed
           /\ token.strVal = Meaning(text)

Refused(quote) == ~(EscapedIn(TextBefore(quote)) \subseteq Allowed)

LEMMA StringsMeanParts ==
  StringsMean <=> /\ \A token \in ToSet(tokens) : SaidOf(token)
                  /\ outcome.what = "invalid_escaped_sequence" => Refused(pos)
BY DEF StringsMean, SaidOf, Refused, Allowed

LEMMA SaidStays ==
  ASSUME input' = input
  PROVE  \A token : SaidOf(token)' <=> SaidOf(token)
<1>1. \A quote : TextBefore(quote)' = TextBefore(quote)
  BY DEF TextBefore, AccountOf
<1> QED
  BY <1>1 DEF SaidOf

(* No more strings: nothing more to say of them.                           *)
LEMMA NoMoreStrings ==
  ASSUME StringsMean, input' = input, outcome'.what # "invalid_escaped_sequence",
         \A token \in ToSet(tokens') : token \in ToSet(tokens) \/ token.kind # "CONST_STR"
  PROVE  StringsMean'
<1>1. \A token \in ToSet(tokens) : SaidOf(token)
  BY StringsMeanParts
<1>2. \A token \in ToSet(tokens') : SaidOf(token)'
  <2> SUFFICES ASSUME NEW token \in ToSet(tokens') PROVE SaidOf(token)'
    OBVIOUS
  <2>1. SaidOf(token)
    BY <1>1 DEF SaidOf
  <2> QED
    BY <2>1, SaidStays
<1>3. StringsMean' <=> /\ \A token \in ToSet(tokens') : SaidOf(token)'
                       /\ outcome'.what = "invalid_escaped_sequence" => Refused(pos)'
  BY DEF StringsMean, SaidOf, Refused, Allowed
<1> QED
  BY <1>2, <1>3

(* Actions that are not about strings. *)
LEMMA OutOfStrings ==
  ASSUME StringsMean, start' \notin InStrings, input' = input,
         outcome'.what # "invalid_escaped_sequence",
         \A token \in ToSet(tokens') : token \in ToSet(tokens) \/ token.kind # "CONST_STR"
  PROVE  StringInv'
<1>1. OpenString'
  BY DEF OpenString
<1> QED
  BY <1>1, NoMoreStrings DEF StringInv

LEMMA StopKeepsStrings ==
  ASSUME StringInv, NEW what, NEW line, Throw(what, line), input' = input,
         what # "invalid_escaped_sequence"
  PROVE  StringInv'
<1>1. /\ UNCHANGED <<input, pos, start, current_str, tokens>>
      /\ outcome'.what = what
  BY DEF Throw, Result
<1>2. OpenString'
  BY <1>1 DEF StringInv, OpenString, OpenedAt, AccountOf
<1>3. StringsMean'
  BY <1>1, NoMoreStrings DEF StringInv
<1> QED
  BY <1>2, <1>3 DEF StringInv

LEMMA TokenKeepsStrings ==
  ASSUME IInv, IInv', StringInv, Token
  PROVE  StringInv'
<1>1. InCondition({"INITIAL"}) /\ UNCHANGED <<input, start, outcome>>
  BY Zenon DEF Token
<1>2. start = "INITIAL" /\ outcome.what = "scanning"
  BY <1>1, InConditionMeans
<1>3. PICK kind \in {"WORD", "CONST_INT", "CONST_REAL", "OPERATOR"} :
        \E n : tokens' = Append(tokens, [kind |-> kind, from |-> pos, to |-> n])
  BY DEF Token, Matches
<1>4. \A token \in ToSet(tokens') : token \in ToSet(tokens) \/ token.kind # "CONST_STR"
  <2>1. PICK token : tokens' = Append(tokens, token) /\ token.kind = kind
    BY <1>3
  <2>2. tokens \in Seq(Range(tokens) \cup {token}) /\ token \in Range(tokens) \cup {token}
    BY DEF IInv, TokenTypes
  <2> DEFINE S == Range(tokens) \cup {token}
  <2> HIDE DEF S
  <2>3. tokens \in Seq(S) /\ token \in S
    BY <2>2 DEF S
  <2>4. /\ tokens' \in Seq(S) /\ Len(tokens') = Len(tokens) + 1
        /\ \A i \in 1 .. Len(tokens) : tokens'[i] = tokens[i]
        /\ tokens'[Len(tokens) + 1] = token
    BY <2>1, <2>3, AppendProperties
  <2>5. ASSUME NEW i \in DOMAIN tokens'
        PROVE  tokens'[i] \in ToSet(tokens) \/ tokens'[i].kind # "CONST_STR"
    <3>1. i \in 1 .. Len(tokens) \/ i = Len(tokens) + 1
      BY <2>3, <2>4
    <3>2. CASE i \in 1 .. Len(tokens)
      BY <2>3, <2>4, <3>2 DEF ToSet
    <3>3. CASE i = Len(tokens) + 1
      BY <1>3, <2>1, <2>4, <3>3
    <3> QED
      BY <3>1, <3>2, <3>3
  <2> QED
    BY <2>5 DEF ToSet
<1> QED
  BY <1>1, <1>2, <1>4, OutOfStrings DEF StringInv, InStrings

LEMMA CommentCloseLeaves ==
  ASSUME IInv, CommentClose
  PROVE  start' \notin InStrings
<1>1. start \in CommentStarts /\ start' = Last(states)
  BY InConditionMeans DEF CommentClose
<1>2. states \in Seq(Conditions) /\ start = ConditionAt(Len(states))
  BY <1>1 DEF IInv, Types, Nesting
<1>3. Len(states) \in Nat /\ Len(states) # 0
  BY <1>1, <1>2 DEF ConditionAt, CommentStarts
<1>4. Last(states) = ConditionAt(Len(states) - 1)
  BY <1>3 DEF Last, IInv, Nesting
<1> QED
  BY <1>1, <1>4 DEF ConditionAt, InStrings

(* The opening quote. *)
LEMMA NothingTold == Told(<< >>, Unread, FALSE)
<1>1. Len(<< >>) + 1 = 1 /\ << >> \in Seq(Characters) /\ 1 \in Nat \ {0}
  OBVIOUS
<1>2. ~Escaped(<< >>, 1)
  BY <1>1, EscapedNext
<1>3. EscapedIn(<< >>) = {}
  BY DEF EscapedIn
<1>4. Meaning(<< >>) = << >>
  BY MeaningOneMore
<1>5. Unread.out = << >> /\ Unread.esc = FALSE /\ Unread.valid = TRUE
  BY DEF Unread
<1> QED
  BY <1>1, <1>2, <1>3, <1>4, <1>5 DEF Told

LEMMA StringOpenTold ==
  ASSUME IInv, IInv', StringInv, StringOpen
  PROVE  StringInv'
<1>1. /\ InCondition({"INITIAL"}) /\ input[pos] = Quote /\ start' = "X_STR"
      /\ current_str' = << >> /\ Consume(1) /\ UNCHANGED <<input, tokens, outcome>>
  BY Zenon DEF StringOpen, Begin
<1>2. /\ start = "INITIAL" /\ outcome.what = "scanning" /\ pos <= Len(input)
      /\ pos \in Nat \ {0}
  BY <1>1, InConditionMeans
<1>3. PICK o : o = pos
  OBVIOUS
<1>4. pos' = pos + 1 /\ pos' - 1 = o /\ o \in 1 .. pos' - 1
  BY <1>1, <1>2, <1>3 DEF Consume
<1>5. OpenedAt(o)'
  <2>1. AccountOf(o - 1).in = "code"
    <3>1. PICK held : AccountOf(pos - 1) = Account("code", held, << >>, yylineno)
      BY <1>2, InCode
    <3> QED
      BY <1>3, <3>1 DEF Account
  <2>2. AccountOf(pos - 1)' = Account("string", "none", <<str_open_lineno>>, yylineno)'
    BY <1>1 DEF IInv, InSource, At
  <2>3. AccountOf(o).in = "string"
    BY <1>1, <1>4, <2>2 DEF AccountOf, Account
  <2>4. \A i \in o .. pos' - 1 : i = o
    BY <1>4
  <2> QED
    BY <1>1, <1>3, <2>1, <2>3, <2>4 DEF OpenedAt, AccountOf
<1>6. OpenString'
  <2>1. SubSeq(input, o + 1, pos' - 1) = << >>
    BY <1>2, <1>4, SubSeqEmpty
  <2>2. EscapeStr(current_str') = Unread
    BY <1>1, EscapeOneMore
  <2>3. current_str' \in Seq(Characters)
    BY <1>1
  <2>4. Told(SubSeq(input', o + 1, pos' - 1), EscapeStr(current_str'), FALSE)
    BY <1>1, <2>1, <2>2, NothingTold
  <2>5. ~(start' = "X_STR_ESC")
    BY <1>1
  <2> QED
    BY <1>4, <1>5, <2>3, <2>4, <2>5 DEF OpenString
<1>7. StringsMean'
  BY <1>1, <1>2, NoMoreStrings DEF StringInv
<1> QED
  BY <1>6, <1>7 DEF StringInv

(* The characters of a string.                                             *)
LEMMA ToldGoesOn ==
  ASSUME IInv, IInv', StringInv, start \in InStrings, start' \in InStrings,
         pos <= Len(input), pos' = pos + 1, UNCHANGED <<input, tokens, outcome>>,
         outcome.what = "scanning", current_str' \in Seq(Characters),
         \A text \in Seq(Characters) :
           Told(text, EscapeStr(current_str), start = "X_STR_ESC")
             => Told(Append(text, input[pos]), EscapeStr(current_str'), start' = "X_STR_ESC")
  PROVE  StringInv'
<1>1. pos \in 1 .. Len(input) /\ input \in Seq(Characters) /\ pos' - 1 = pos
  BY DEF IInv, Types
<1>2. PICK o \in 1 .. pos - 1 :
        /\ OpenedAt(o)
        /\ Told(SubSeq(input, o + 1, pos - 1), EscapeStr(current_str), start = "X_STR_ESC")
  BY DEF StringInv, OpenString
<1>3. o \in 1 .. pos' - 1
  BY <1>1
<1>4. OpenedAt(o)'
  <2>1. AccountOf(pos - 1)'.in # "code"
    BY DEF IInv, InSource, At, InStrings, Account
  <2>2. AccountOf(pos).in # "code"
    BY <1>1, <2>1 DEF AccountOf
  <2>3. \A i \in o .. pos' - 1 : i \in o .. pos - 1 \/ i = pos
    BY <1>1
  <2> QED
    BY <1>2, <2>2, <2>3 DEF OpenedAt, AccountOf
<1>5. Told(SubSeq(input', o + 1, pos' - 1), EscapeStr(current_str'), start' = "X_STR_ESC")
  <2>1. /\ SubSeq(input, o + 1, pos - 1) \in Seq(Characters)
        /\ SubSeq(input, o + 1, pos) = Append(SubSeq(input, o + 1, pos - 1), input[pos])
    BY <1>1, TextOneMore
  <2> QED
    BY <1>1, <1>2, <2>1
<1>6. OpenString'
  BY <1>3, <1>4, <1>5 DEF OpenString
<1>7. StringsMean'
  BY NoMoreStrings DEF StringInv
<1> QED
  BY <1>6, <1>7 DEF StringInv

LEMMA StringPartsTold ==
  ASSUME IInv, IInv', StringInv, Backslash \/ EscapedCharacter \/ StringCharacter
  PROVE  StringInv'
<1>1. input \in Seq(Characters)
  BY DEF IInv, Types
<1>2. "X_STR" \in InStrings /\ "X_STR_ESC" \in InStrings /\ "\\" \in Characters
  BY ControlLetters DEF InStrings
<1>3. CASE Backslash
  <2>1. /\ InCondition({"X_STR"}) /\ input[pos] = "\\" /\ start' = "X_STR_ESC"
        /\ current_str' = Append(current_str, "\\")
        /\ Consume(1) /\ UNCHANGED <<input, tokens, outcome>>
    BY <1>3, Zenon DEF Backslash, Begin
  <2>2. start = "X_STR" /\ outcome.what = "scanning" /\ pos <= Len(input) /\ pos' = pos + 1
    BY <2>1, InConditionMeans DEF Consume
  <2>3. current_str \in Seq(Characters) /\ current_str' \in Seq(Characters)
    BY <1>2, <2>1, <2>2 DEF StringInv, OpenString
  <2>4. ASSUME NEW text \in Seq(Characters), Told(text, EscapeStr(current_str), start = "X_STR_ESC")
        PROVE  Told(Append(text, input[pos]), EscapeStr(current_str'), start' = "X_STR_ESC")
    <3>1. Told(text, EscapeStr(current_str), FALSE)
      BY <2>2, <2>4
    <3>2. Told(Append(text, "\\"), EscapeStr(Append(current_str, "\\")), TRUE)
      BY <2>3, <3>1, BackslashTold
    <3> QED
      BY <2>1, <3>2
  <2> QED
    BY <1>2, <2>1, <2>2, <2>3, <2>4, ToldGoesOn
<1>4. CASE EscapedCharacter
  <2>1. /\ InCondition({"X_STR_ESC"}) /\ start' = "X_STR"
        /\ current_str' = current_str \o UnescapeCh(input[pos])
        /\ Consume(1) /\ UNCHANGED <<input, tokens, outcome>>
    BY <1>4, Zenon DEF EscapedCharacter, Begin
  <2>2. /\ start = "X_STR_ESC" /\ outcome.what = "scanning" /\ pos <= Len(input) /\ pos' = pos + 1
        /\ input[pos] \in Characters
    BY <1>1, <2>1, InConditionMeans DEF Consume
  <2>3. current_str \in Seq(Characters) /\ current_str' \in Seq(Characters)
    BY <1>2, <2>1, <2>2, UnescapeOneMore DEF StringInv, OpenString
  <2>4. ASSUME NEW text \in Seq(Characters), Told(text, EscapeStr(current_str), start = "X_STR_ESC")
        PROVE  Told(Append(text, input[pos]), EscapeStr(current_str'), start' = "X_STR_ESC")
    <3>1. Told(text, EscapeStr(current_str), TRUE)
      BY <2>2, <2>4
    <3>2. Told(Append(text, input[pos]), EscapeStr(current_str \o UnescapeCh(input[pos])), FALSE)
      BY <2>2, <2>3, <3>1, EscapedTold
    <3> QED
      BY <2>1, <3>2
  <2> QED
    BY <1>2, <2>1, <2>2, <2>3, <2>4, ToldGoesOn
<1>5. CASE StringCharacter
  <2>1. /\ InCondition({"X_STR"}) /\ input[pos] \notin {"\\", Quote}
        /\ current_str' = current_str \o UnescapeCh(input[pos])
        /\ Consume(1) /\ UNCHANGED <<input, start, tokens, outcome>>
    BY <1>5, Zenon DEF StringCharacter
  <2>2. /\ start = "X_STR" /\ outcome.what = "scanning" /\ pos <= Len(input) /\ pos' = pos + 1
        /\ input[pos] \in Characters
    BY <1>1, <2>1, InConditionMeans DEF Consume
  <2>3. current_str \in Seq(Characters) /\ current_str' \in Seq(Characters)
    BY <1>2, <2>1, <2>2, UnescapeOneMore DEF StringInv, OpenString
  <2>4. ASSUME NEW text \in Seq(Characters), Told(text, EscapeStr(current_str), start = "X_STR_ESC")
        PROVE  Told(Append(text, input[pos]), EscapeStr(current_str'), start' = "X_STR_ESC")
    <3>1. Told(text, EscapeStr(current_str), FALSE)
      BY <2>2, <2>4
    <3>2. Told(Append(text, input[pos]), EscapeStr(current_str \o UnescapeCh(input[pos])), FALSE)
      BY <2>1, <2>2, <2>3, <3>1, PlainTold
    <3> QED
      BY <2>1, <2>2, <3>2
  <2> QED
    BY <1>2, <2>1, <2>2, <2>3, <2>4, ToldGoesOn
<1> QED
  BY <1>3, <1>4, <1>5

(* The text of the string that a quote closes. *)
LEMMA TextIs ==
  ASSUME NEW o \in 1 .. pos - 1, OpenedAt(o), pos \in Nat
  PROVE  TextBefore(pos) = SubSeq(input, o + 1, pos - 1)
<1> DEFINE quotes == {i \in 1 .. pos - 1 : input[i] = Quote /\ AccountOf(i - 1).in = "code"}
<1>1. o \in quotes
  BY DEF OpenedAt
<1>2. quotes \subseteq 0 .. pos
  OBVIOUS
<1>3. Max(quotes) \in quotes /\ \A i \in quotes : Max(quotes) >= i
  <2> HIDE DEF quotes
  <2> QED
    BY <1>1, <1>2, MaxOfBounded
<1>4. \A i \in quotes : i <= o
  <2> SUFFICES ASSUME NEW i \in quotes, i > o PROVE FALSE
    OBVIOUS
  <2>1. i - 1 \in o .. pos - 1
    OBVIOUS
  <2> QED
    BY <2>1 DEF OpenedAt
<1>5. Max(quotes) = o
  <2>1. Max(quotes) \in Int /\ Max(quotes) >= o /\ Max(quotes) <= o
    BY <1>1, <1>2, <1>3, <1>4
  <2> QED
    BY <2>1
<1> QED
  BY <1>5 DEF TextBefore

(* The closing quote. *)
LEMMA StringCloseTold ==
  ASSUME IInv, IInv', StringInv, StringClose
  PROVE  StringInv'
<1> DEFINE escaped == EscapeStr(current_str)
           text == TextBefore(pos)
<1>1. InCondition({"X_STR"}) /\ input' = input
  BY Zenon DEF StringClose
<1>2. start = "X_STR" /\ outcome.what = "scanning" /\ pos \in Nat
  BY <1>1, InConditionMeans
<1>3. PICK o \in 1 .. pos - 1 :
        OpenedAt(o) /\ Told(SubSeq(input, o + 1, pos - 1), escaped, start = "X_STR_ESC")
  BY <1>2 DEF StringInv, OpenString, InStrings
<1>4. Told(text, escaped, FALSE)
  <2>1. text = SubSeq(input, o + 1, pos - 1)
    BY <1>2, <1>3, TextIs
  <2>2. ~(start = "X_STR_ESC")
    BY <1>2
  <2> QED
    BY <1>3, <2>1, <2>2
<1>5. \A token \in ToSet(tokens) : SaidOf(token)
  BY StringsMeanParts DEF StringInv
<1>6. CASE ~escaped.valid
  <2>1. Throw("invalid_escaped_sequence", -1)
    BY <1>6, Zenon DEF StringClose
  <2>2. UNCHANGED <<input, pos, start, current_str, tokens>>
    BY <1>1, <2>1 DEF Throw
  <2>3. OpenString'
    BY <2>2 DEF StringInv, OpenString, OpenedAt, AccountOf
  <2>4. ~(EscapedIn(text) \subseteq Allowed)
    <3>1. Controls \cap Allowed = {}
      BY ControlLetters
    <3>2. EscapedIn(text) \subseteq Allowed => EscapedIn(text) \cap Controls = {}
      BY <3>1
    <3> HIDE DEF escaped, text
    <3> QED
      BY <1>4, <1>6, <3>2 DEF Told
  <2>5. Refused(pos)'
    BY <2>2, <2>4 DEF Refused, TextBefore, AccountOf
  <2>6. \A token \in ToSet(tokens') : SaidOf(token)'
    BY <1>5, <2>2, SaidStays
  <2>7. StringsMean'
    BY <2>5, <2>6 DEF StringsMean, SaidOf, Refused, Allowed
  <2> QED
    BY <2>3, <2>7 DEF StringInv
<1>7. CASE escaped.valid
  <2> DEFINE token == [kind |-> "CONST_STR", to |-> pos, strVal |-> escaped.out]
  <2>1. tokens' = Append(tokens, token) /\ start' = "INITIAL" /\ outcome' = outcome
    BY <1>7, Zenon DEF StringClose, Begin
  <2>2. SaidOf(token)
    <3>1. token.to = pos /\ token.strVal = escaped.out
      OBVIOUS
    <3> HIDE DEF token, escaped
    <3>2. SaidOf(token) <=> (token.kind = "CONST_STR" /\ EscapedIn(text) \cap Controls = {}
                               => EscapedIn(text) \subseteq Allowed /\ token.strVal = Meaning(text))
      BY <3>1 DEF SaidOf
    <3> HIDE DEF text
    <3> QED
      BY <1>4, <1>7, <3>1, <3>2 DEF Told
  <2>3. token.kind = "CONST_STR"
    OBVIOUS
  <2> HIDE DEF token, escaped, text
  <2>4. \A t \in ToSet(tokens') : t \in ToSet(tokens) \/ t = token
    <3>1. TokenTypes /\ token.kind \in Kinds
      BY <2>3 DEF IInv, Kinds
    <3>2. /\ DOMAIN tokens = 1 .. Len(tokens) /\ DOMAIN tokens' = 1 .. Len(tokens) + 1
          /\ Len(tokens) \in Nat
          /\ \A k \in 1 .. Len(tokens) : tokens'[k] = tokens[k]
          /\ tokens'[Len(tokens) + 1] = token
      BY <2>1, <2>3, <3>1, OneMoreToken
    <3>3. \A k \in DOMAIN tokens' : k \in DOMAIN tokens \/ k = Len(tokens) + 1
      BY <3>2
    <3> QED
      BY <3>2, <3>3 DEF ToSet
  <2>5. \A t \in ToSet(tokens') : SaidOf(t)'
    BY <1>1, <1>5, <2>2, <2>4, SaidStays
  <2>6. outcome'.what # "invalid_escaped_sequence"
    BY <1>2, <2>1
  <2>7. StringsMean'
    BY <2>5, <2>6 DEF StringsMean, SaidOf, Refused, Allowed
  <2>8. OpenString'
    BY <2>1 DEF OpenString, InStrings
  <2> QED
    BY <2>7, <2>8 DEF StringInv
<1> QED
  BY <1>6, <1>7

LEMMA StringInvNext == IInv /\ IInv' /\ StringInv /\ [Next]_vars => StringInv'
<1> SUFFICES ASSUME IInv, IInv', StringInv, [Next]_vars PROVE StringInv'
  OBVIOUS
<1>1. CASE Token
  BY <1>1, TokenKeepsStrings
<1>2. CASE StringOpen
  BY <1>2, StringOpenTold
<1>3. CASE Backslash \/ EscapedCharacter \/ StringCharacter
  BY <1>3, StringPartsTold
<1>4. CASE StringClose
  BY <1>4, StringCloseTold
<1>5. CASE UnknownCharacter
  <2>1. Throw("undefined", yylineno) /\ input' = input
    BY <1>5, Zenon DEF UnknownCharacter
  <2> QED
    BY <2>1, StopKeepsStrings
<1>6. CASE EndOfFile
  <2>1. /\ input' = input
        /\ \E what, line : Throw(what, line) /\ what # "invalid_escaped_sequence"
    BY <1>6 DEF EndOfFile
  <2> QED
    BY <2>1, StopKeepsStrings
<1>7. CASE WhiteSpace \/ LineComment \/ LineCommentRest \/ LineCommentEnd
  <2>1. /\ start \in {"INITIAL", "X_LINE_COMMENT"} /\ start' \in {start, "INITIAL", "X_LINE_COMMENT"}
        /\ UNCHANGED <<input, tokens, outcome>> /\ outcome.what = "scanning"
    BY <1>7 DEF WhiteSpace, LineComment, LineCommentRest, LineCommentEnd, InCondition, Scanning, Begin
  <2> QED
    BY <2>1, OutOfStrings DEF StringInv, InStrings
<1>8. CASE CommentOpen \/ CommentCharacter \/ CommentClose
  <2>1. /\ UNCHANGED <<input, tokens, outcome>> /\ outcome.what = "scanning"
        /\ start \in {"INITIAL"} \cup CommentStarts
    BY <1>8 DEF CommentOpen, CommentCharacter, CommentClose, InCondition, Scanning
  <2>2. start' \notin InStrings
    <3>1. CASE CommentOpen
      BY <3>1 DEF CommentOpen, InStrings
    <3>2. CASE CommentCharacter
      BY <2>1, <3>2 DEF CommentCharacter, InStrings, CommentStarts
    <3>3. CASE CommentClose
      BY <3>3, CommentCloseLeaves
    <3> QED
      BY <1>8, <3>1, <3>2, <3>3
  <2> QED
    BY <2>1, <2>2, OutOfStrings DEF StringInv
<1>9. CASE UNCHANGED vars
  <2>1. UNCHANGED <<input, pos, start, current_str, tokens, outcome>>
    BY <1>9 DEF vars
  <2>2. OpenString'
    BY <2>1 DEF StringInv, OpenString, OpenedAt, AccountOf
  <2>3. StringsMean'
    BY <2>1 DEF StringInv, StringsMean, TextBefore, AccountOf
  <2> QED
    BY <2>2, <2>3 DEF StringInv
<1> QED
  BY <1>1, <1>2, <1>3, <1>4, <1>5, <1>6, <1>7, <1>8, <1>9 DEF Next

(* A string constant is what the program says, for strings of every length *)
(* in sources of every length, and only a string with an escape sequence   *)
(* that the language does not have is refused.                             *)
THEOREM StringsAreMeant == Spec => []StringsMean
<1>1. Init => StringInv
  <2> SUFFICES ASSUME Init PROVE StringInv
    OBVIOUS
  <2>1. start = "INITIAL" /\ tokens = << >> /\ outcome.what = "scanning"
    BY DEF Init, Result
  <2> QED
    BY <2>1 DEF StringInv, OpenString, StringsMean, InStrings, ToSet
<1>2. IInv /\ IInv' /\ StringInv /\ [Next]_vars => StringInv'
  BY StringInvNext
<1>3. StringInv => StringsMean
  BY DEF StringInv
<1> QED
  BY <1>1, <1>2, <1>3, AlwaysIInv, PTL DEF Spec
=============================================================================
