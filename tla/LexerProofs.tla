------------------------------ MODULE LexerProofs ------------------------------
(* Theorems about Lexer, for inputs of any length over any characters.       *)
EXTENDS Lexer, IntervalProofs, FiniteSetTheorems, TLAPS

-----------------------------------------------------------------------------
(* The patterns: a newline is a lexeme of its own and in no other, nor in    *)
(* what may still grow into one.                                             *)
Modes == {"INITIAL", "IN_COMMENT", "IN_LINECOMMENT"}
NoNewline(w) == \A i \in 1 .. Len(w) : w[i] # "nl"

LEMMA OnlyHasNo ==
  ASSUME NEW w \in Seq(Char), NEW C, "nl" \notin C, Only(w, C)
  PROVE  NoNewline(w)
BY DEF Only, NoNewline

LEMMA NumberHasNo ==
  ASSUME NEW w \in Seq(Char), Number(w)
  PROVE  NoNewline(w)
<1>1. CASE Only(w, Digit)
  BY <1>1, OnlyHasNo DEF Digit
<1>2. CASE Len(w) > 2 /\ w[1] = "0" /\ w[2] = "x" /\ Only(SubSeq(w, 3, Len(w)), Digit)
  <2>1. SUFFICES ASSUME NEW i \in 3 .. Len(w) PROVE w[i] # "nl"
    BY <1>2 DEF NoNewline
  <2> DEFINE s == SubSeq(w, 3, Len(w))
  <2>2. i - 2 \in 1 .. Len(s) /\ s[i - 2] = w[i]
    BY <1>2
  <2>3. Only(s, Digit) /\ s \in Seq(Char)
    BY <1>2
  <2> HIDE DEF s
  <2>4. s[i - 2] \in Digit
    BY <2>2, <2>3 DEF Only
  <2> QED
    BY <2>2, <2>4 DEF Digit
<1> QED
  BY <1>1, <1>2 DEF Number

LEMMA TokenHasNo ==
  ASSUME NEW w \in Seq(Char), w \in Operators \/ Number(w) \/ Id(w)
  PROVE  NoNewline(w)
<1>1. CASE w \in Operators
  BY <1>1 DEF Operators, NoNewline
<1>2. CASE Number(w)
  BY <1>2, NumberHasNo
<1>3. CASE Id(w)
  BY <1>3, OnlyHasNo DEF Id, Letter, Digit
<1> QED
  BY <1>1, <1>2, <1>3

LEMMA LexemeHasNo ==
  ASSUME NEW m, NEW w \in Seq(Char), Rule(m, w) # "none"
  PROVE  \/ w = <<"nl">> /\ Rule(m, w) \in {"newline", "endline"}
         \/ NoNewline(w) /\ Rule(m, w) \notin {"newline", "endline"}
<1>1. \A C : "nl" \notin C /\ Only(w, C) => NoNewline(w)
  BY OnlyHasNo
<1>2. w \in Operators \/ Number(w) \/ Id(w) => NoNewline(w)
  BY TokenHasNo
<1>3. w = <<"nl">> => ~NoNewline(w)
  BY DEF NoNewline
<1>4. CASE m = "INITIAL"
  <2>1. Only(w, Delim) => NoNewline(w)
    BY <1>1 DEF Delim
  <2>2. w = <<"/", "*">> \/ w = <<"/", "/">> => NoNewline(w)
    BY DEF NoNewline
  <2>3. Len(w) = 1 /\ w # <<"nl">> => NoNewline(w)
    BY DEF NoNewline
  <2>4. Rule(m, w) = InitialRule(w)
    BY <1>4 DEF Rule
  <2> QED
    BY <1>2, <1>3, <2>1, <2>2, <2>3, <2>4 DEF InitialRule
<1>5. CASE m = "IN_COMMENT"
  <2>1. w = <<"*", "/">> \/ w = <<"*">> => NoNewline(w)
    BY DEF NoNewline
  <2>2. Only(w, Char \ {"*", "nl"}) => NoNewline(w)
    BY <1>1
  <2>3. Rule(m, w) = CommentRule(w)
    BY <1>5 DEF Rule
  <2> QED
    BY <1>3, <2>1, <2>2, <2>3 DEF CommentRule
<1>6. CASE m \notin {"INITIAL", "IN_COMMENT"}
  <2>1. Only(w, Char \ {"nl"}) => NoNewline(w)
    BY <1>1
  <2>2. Rule(m, w) = LineCommentRule(w)
    BY <1>6 DEF Rule
  <2> QED
    BY <1>3, <2>1, <2>2 DEF LineCommentRule
<1> QED
  BY <1>4, <1>5, <1>6

LEMMA GrowingHasNo ==
  ASSUME NEW m, NEW w \in Seq(Char), MayGrow(m, w)
  PROVE  w # <<>> => NoNewline(w)
<1>1. PICK c \in Char : Live(m, Append(w, c))
  BY DEF MayGrow
<1> DEFINE v == Append(w, c)
<1>2. v \in Seq(Char) /\ Len(v) = Len(w) + 1 /\ \A i \in 1 .. Len(w) : v[i] = w[i]
  OBVIOUS
<1>3. CASE v = <<"0", "x">>
  BY <1>2, <1>3 DEF NoNewline
<1>4. CASE Rule(m, v) # "none"
  <2> HIDE DEF v
  <2>1. w # <<>> => Len(v) # 1 /\ Len(w) \in Nat
    BY <1>2
  <2> QED
    BY <1>2, <1>4, <2>1, LexemeHasNo DEF NoNewline
<1> QED
  BY <1>1, <1>3, <1>4 DEF Live
-----------------------------------------------------------------------------
(* What flex has read and not matched holds a newline at most at its end,    *)
(* and none if yyin has failed at the end of the file; and the stream is     *)
(* where flex is.                                                            *)
Clear(t, a, b) == \A i \in a .. b : t[i] # "nl"
ReadInv ==
  /\ text \in Seq(Char) /\ eof \in BOOLEAN
  /\ scan \in Nat /\ fed \in Nat /\ scan <= fed /\ fed <= Len(text) /\ at = fed
  /\ Clear(text, scan + 1, fed - 1)
  /\ eof => fed = Len(text) /\ Clear(text, scan + 1, Len(text))

LEMMA ClearPart ==
  ASSUME NEW t, NEW a \in Int, NEW b \in Int, Clear(t, a, b),
         NEW c \in Int, NEW d \in Int, a <= c, d <= b
  PROVE  Clear(t, c, d)
BY DEF Clear

LEMMA NothingClear ==
  ASSUME NEW t, NEW a \in Int, NEW b \in Int, b < a
  PROVE  Clear(t, a, b)
BY DEF Clear

LEMMA Words ==
  ASSUME ReadInv, NEW n \in 0 .. Available
  PROVE  /\ Word(n) \in Seq(Char) /\ Len(Word(n)) = n
         /\ \A i \in 1 .. n : Word(n)[i] = text[scan + i]
         /\ scan + n <= Len(text) /\ Available = Len(text) - scan
BY DEF ReadInv, Available, Word

(* Wanted is the first length at which flex stops reading.                   *)
Stops == {n \in 1 .. Available + 1 :
            n > Available \/ ~Live(mode, Word(n)) \/ ~MayGrow(mode, Word(n))}
LEMMA WantedIsLeast ==
  ASSUME ReadInv
  PROVE  /\ Available \in Nat /\ Wanted \in Stops /\ \A k \in Stops : Wanted <= k
         /\ \A k \in 1 .. Wanted - 1 : /\ k <= Available /\ Live(mode, Word(k))
                                       /\ MayGrow(mode, Word(k))
<1>1. Available \in Nat
  BY DEF ReadInv, Available
<1>2. Stops \in SUBSET Nat /\ Stops # {}
  <2>1. Available + 1 \in Stops
    BY <1>1 DEF Stops
  <2>2. \A n \in 1 .. Available + 1 : n \in Nat
    BY <1>1
  <2> QED
    BY <2>1, <2>2 DEF Stops
<1>3. \E n \in Stops : \A k \in Stops : n <= k
  BY <1>2, SmallestExists
<1>4. Wanted = CHOOSE n \in Stops : \A k \in Stops : n <= k
  BY DEF Wanted, Stops
<1>5. Wanted \in Stops /\ \A k \in Stops : Wanted <= k
  BY <1>3, <1>4
<1>6. ASSUME NEW k \in 1 .. Wanted - 1
      PROVE  k <= Available /\ Live(mode, Word(k)) /\ MayGrow(mode, Word(k))
  <2>1. k \notin Stops /\ k \in 1 .. Available + 1 /\ Wanted \in Nat
    <3>1. Wanted \in 1 .. Available + 1
      BY <1>5 DEF Stops
    <3>2. ~(Wanted <= k)
      BY <1>1, <3>1
    <3> QED
      BY <1>1, <1>5, <3>1, <3>2
  <2> QED
    BY <1>1, <2>1 DEF Stops
<1> QED
  BY <1>1, <1>5, <1>6

LEMMA NothingSkipped ==
  ASSUME ReadInv
  PROVE  Clear(text, scan + 1, scan + Wanted - 1)
<1>1. SUFFICES ASSUME NEW i \in scan + 1 .. scan + Wanted - 1 PROVE text[i] # "nl"
  BY DEF Clear
<1>2. Wanted \in Nat /\ scan \in Nat
  BY WantedIsLeast DEF Stops, ReadInv
<1> DEFINE k == i - scan
<1>3. k \in 1 .. Wanted - 1 /\ i = scan + k
  BY <1>2
<1> HIDE DEF k
<1>4. k \in 0 .. Available /\ MayGrow(mode, Word(k))
  BY <1>2, <1>3, WantedIsLeast
<1>5. NoNewline(Word(k))
  <2>1. Word(k) \in Seq(Char) /\ Len(Word(k)) = k /\ k >= 1
    BY <1>2, <1>3, <1>4, Words
  <2> QED
    BY <1>4, <2>1, GrowingHasNo
<1>6. Len(Word(k)) = k /\ k \in 1 .. k /\ Word(k)[k] = text[scan + k]
  <2>1. k \in 1 .. k
    BY <1>2, <1>3
  <2> QED
    BY <1>4, <2>1, Words
<1> QED
  BY <1>3, <1>5, <1>6 DEF NoNewline

LEMMA Fed ==
  ASSUME ReadInv, Feed(Wanted)
  PROVE  \E f \in Nat, e \in BOOLEAN :
           /\ fed' = f /\ eof' = e /\ at' = f /\ fed <= f /\ f <= Len(text)
           /\ e => f = Len(text) /\ Clear(text, scan + 1, Len(text))
           /\ Clear(text, scan + 1, f - 1)
           /\ Wanted <= Available => e = eof /\ scan + Wanted <= f
<1> DEFINE w == Wanted
<1>1. /\ Available \in Nat /\ w \in 1 .. Available + 1 /\ Available = Len(text) - scan
      /\ Clear(text, scan + 1, scan + w - 1)
  BY WantedIsLeast, NothingSkipped DEF Stops, ReadInv, Available
<1>2. Feed(w)
  OBVIOUS
<1> HIDE DEF w
<1>3. CASE w > Available
  <2>1. w = Available + 1 /\ scan + w - 1 = Len(text)
    BY <1>1, <1>3 DEF ReadInv
  <2>2. fed' = Len(text) /\ eof' = TRUE /\ at' = Len(text) /\ Clear(text, scan + 1, Len(text))
    <3>1. scan + Available = Len(text) /\ (eof \/ w > Available)
      BY <1>1, <1>3 DEF ReadInv
    <3>2. fed' = scan + Available /\ eof' = (eof \/ w > Available) /\ at' = at + (fed' - fed)
      BY <1>2, <1>3 DEF Feed
    <3>3. at + (Len(text) - fed) = Len(text)
      BY DEF ReadInv
    <3> QED
      BY <1>1, <2>1, <3>1, <3>2, <3>3
  <2>3. Clear(text, scan + 1, Len(text) - 1)
    BY <2>2, ClearPart DEF ReadInv
  <2>4. fed <= Len(text) /\ Len(text) \in Nat /\ ~(w <= Available)
    BY <1>1, <1>3 DEF ReadInv
  <2> DEFINE n == Len(text)
  <2>5. /\ fed' = n /\ eof' = TRUE /\ at' = n /\ fed <= n /\ n <= Len(text) /\ n \in Nat
        /\ Clear(text, scan + 1, Len(text)) /\ n = Len(text)
        /\ Clear(text, scan + 1, n - 1) /\ ~(Wanted <= Available)
    BY <2>2, <2>3, <2>4 DEF w
  <2> HIDE DEF n
  <2> QED
    BY <2>5, Zenon
<1>4. CASE w <= Available
  <2> DEFINE n == IF scan + w > fed THEN scan + w ELSE fed
  <2>1. eof' = eof /\ fed' = n /\ at' = at + (n - fed)
    <3>1. eof \in BOOLEAN /\ ~(w > Available)
      BY <1>1, <1>4 DEF ReadInv
    <3>2. fed' = n
      BY <1>2, <3>1 DEF Feed
    <3>3. at' = at + (n - fed)
      BY <1>2, <3>2 DEF Feed
    <3> QED
      BY <1>2, <3>1, <3>2, <3>3 DEF Feed
  <2>2. Clear(text, scan + 1, n - 1)
    BY <1>1 DEF ReadInv
  <2>3. n \in Nat /\ fed <= n /\ n <= Len(text) /\ scan + w <= n
    BY <1>1, <1>4 DEF ReadInv
  <2>4. eof => n = Len(text)
    BY <2>3 DEF ReadInv
  <2>5. at' = n
    BY <2>1, <2>3 DEF ReadInv
  <2> HIDE DEF n
  <2>6. /\ eof \in BOOLEAN /\ (eof => Clear(text, scan + 1, Len(text)))
        /\ scan + Wanted <= n
    BY <2>3 DEF ReadInv, w
  <2> QED
    BY <2>1, <2>2, <2>3, <2>4, <2>5, <2>6, Zenon
<1> QED
  BY <1>1, <1>3, <1>4

(* A match moves scan over one lexeme.  If that is a newline it is all that  *)
(* flex has read.                                                            *)
LEMMA Matched ==
  ASSUME ReadInv, NEW rules, Match(rules), "none" \notin rules
  PROVE  \E n \in 1 .. Available :
           /\ ReadInv' /\ text' = text /\ shown' = shown /\ failed' = failed
           /\ Length = n /\ scan' = scan + n
           /\ Rule(mode, Word(n)) \in rules
           /\ \A k \in Matches(Wanted) : k <= n
           /\ \/ /\ n = 1 /\ text[scan + 1] = "nl" /\ eof' = FALSE /\ at' = scan + 1
                 /\ Rule(mode, Word(n)) \in {"newline", "endline"}
              \/ /\ Clear(text, scan + 1, scan + n)
                 /\ Rule(mode, Word(n)) \notin {"newline", "endline"}
<1>1. PICK n \in Matches(Wanted) :
         /\ \A k \in Matches(Wanted) : k <= n
         /\ Rule(mode, Word(n)) \in rules
         /\ Feed(Wanted) /\ scan' = scan + n
  BY DEF Match
<1>2. text' = text /\ shown' = shown /\ failed' = failed
  BY DEF Match
<1>3. n \in 1 .. Wanted /\ n <= Available /\ Available \in Nat /\ Wanted \in 1 .. Available + 1
  BY <1>1, WantedIsLeast DEF Matches, Stops
<1>4. Length = n /\ scan \in Nat /\ n \in 1 .. Available
  BY <1>1, <1>3 DEF Length, ReadInv
<1>5. /\ Word(n) \in Seq(Char) /\ Len(Word(n)) = n /\ n >= 1
      /\ \A i \in 1 .. n : Word(n)[i] = text[scan + i]
      /\ scan + n <= Len(text) /\ Available = Len(text) - scan
  BY <1>3, Words
<1>6. Rule(mode, Word(n)) # "none"
  BY <1>1
<1> SUFFICES /\ ReadInv'
             /\ \/ /\ n = 1 /\ text[scan + 1] = "nl" /\ eof' = FALSE /\ at' = scan + 1
                   /\ Rule(mode, Word(n)) \in {"newline", "endline"}
                \/ /\ Clear(text, scan + 1, scan + n)
                   /\ Rule(mode, Word(n)) \notin {"newline", "endline"}
  BY <1>1, <1>2, <1>4
<1>7. CASE Word(n) = <<"nl">> /\ Rule(mode, Word(n)) \in {"newline", "endline"}
  <2>1. n = 1 /\ text[scan + 1] = "nl"
    <3>1. Len(<<"nl">>) = 1 /\ <<"nl">>[1] = "nl"
      OBVIOUS
    <3> QED
      BY <1>5, <1>7, <3>1
  <2>2. eof = FALSE /\ fed <= scan + 1
    BY <1>3, <1>5, <2>1 DEF ReadInv, Clear
  <2>3. Wanted = 1
    BY <1>3, <2>1, NothingSkipped DEF ReadInv, Clear
  <2>4. eof' = FALSE /\ fed' = scan + 1 /\ at' = scan + 1
    BY <1>1, <1>3, <2>1, <2>2, <2>3 DEF Feed, ReadInv
  <2>5. ReadInv'
    <3>1. Clear(text, (scan + 1) + 1, (scan + 1) - 1)
      BY <1>4, NothingClear
    <3>2. scan + 1 \in Nat /\ scan + 1 <= scan + 1 /\ scan + 1 <= Len(text)
      BY <1>4, <1>5, <2>1
    <3>3. scan' = scan + 1 /\ text \in Seq(Char)
      BY <1>1, <2>1 DEF ReadInv
    <3> QED
      BY <1>2, <2>4, <3>1, <3>2, <3>3, Zenon DEF ReadInv
  <2> QED
    BY <1>7, <2>1, <2>4, <2>5
<1>8. CASE NoNewline(Word(n)) /\ Rule(mode, Word(n)) \notin {"newline", "endline"}
  <2>1. Clear(text, scan + 1, scan + n)
    <3>1. SUFFICES ASSUME NEW i \in scan + 1 .. scan + n PROVE text[i] # "nl"
      BY DEF Clear
    <3>2. i - scan \in 1 .. n /\ i = scan + (i - scan)
      BY <1>3 DEF ReadInv
    <3> QED
      BY <1>5, <1>8, <3>2 DEF NoNewline
  <2>2. PICK f \in Nat, e \in BOOLEAN :
           /\ fed' = f /\ eof' = e /\ at' = f /\ fed <= f /\ f <= Len(text)
           /\ e => f = Len(text) /\ Clear(text, scan + 1, Len(text))
           /\ Clear(text, scan + 1, f - 1)
           /\ Wanted <= Available => e = eof /\ scan + Wanted <= f
    BY <1>1, Fed
  <2>3. scan + n <= f
    <3>1. CASE Wanted <= Available
      BY <1>3, <2>2, <3>1 DEF ReadInv
    <3>2. CASE Wanted > Available
      <4>1. f = scan + Available
        BY <1>1, <2>2, <3>2 DEF Feed
      <4> QED
        BY <1>3, <1>4, <4>1
    <3> QED
      BY <1>3, <3>1, <3>2
  <2>4. ReadInv'
    <3>1. /\ scan + n \in Nat /\ scan + 1 <= scan + n + 1 /\ Len(text) \in Nat
          /\ scan + 1 \in Int /\ scan + n + 1 \in Int /\ f - 1 \in Int
      BY <1>4 DEF ReadInv
    <3>2. Clear(text, scan + n + 1, f - 1)
      BY <2>2, <3>1, ClearPart
    <3>3. e => Clear(text, scan + n + 1, Len(text))
      BY <2>2, <3>1, ClearPart
    <3>4. text \in Seq(Char)
      BY DEF ReadInv
    <3> QED
      BY <1>1, <1>2, <2>2, <2>3, <3>1, <3>2, <3>3, <3>4, Zenon DEF ReadInv
  <2> QED
    BY <1>8, <2>1, <2>4
<1> QED
  BY <1>5, <1>6, <1>7, <1>8, LexemeHasNo
-----------------------------------------------------------------------------
(* Where the lines start.                                                    *)
LEMMA StartsFinite ==
  ASSUME text \in Seq(Char), NEW n \in 0 .. Len(text)
  PROVE  /\ Starts(n) \subseteq 0 .. n /\ 0 \in Starts(n)
         /\ IsFiniteSet(Starts(n)) /\ Cardinality(Starts(n)) \in Nat
         /\ Starts(n) \subseteq Starts(Len(text))
<1>1. Starts(n) \subseteq 0 .. n /\ 0 \in Starts(n) /\ Starts(n) \subseteq Starts(Len(text))
  BY DEF Starts
<1>2. Starts(n) \in SUBSET (0 .. n) /\ IsFiniteSet(0 .. n)
  BY <1>1, FS_Interval
<1> QED
  BY <1>1, <1>2, FS_Subset, FS_CardinalityType

(* No two lines start at one place: a line's number and its start determine  *)
(* each other.                                                               *)
LEMMA LineStartIs ==
  ASSUME text \in Seq(Char), NEW p \in Starts(Len(text))
  PROVE  LineStart(Cardinality(Starts(p))) = p
<1> DEFINE all == Starts(Len(text))
           l == Cardinality(Starts(p))
<1>1. \A q \in all : q \in 0 .. Len(text) /\ q \in Nat
  BY StartsFinite
<1>2. ASSUME NEW q \in all, NEW r \in all, q < r
      PROVE  Cardinality(Starts(q)) # Cardinality(Starts(r))
  <2>1. Starts(q) \in SUBSET Starts(r)
    BY <1>1, <1>2 DEF Starts
  <2>2. r \in Starts(r) /\ r \notin Starts(q)
    BY <1>1, <1>2 DEF Starts
  <2>3. IsFiniteSet(Starts(r))
    BY <1>1, StartsFinite
  <2>4. Cardinality(Starts(r)) = Cardinality(Starts(q)) => Starts(r) = Starts(q)
    BY <2>1, <2>3, FS_Subset
  <2> QED
    BY <2>2, <2>4
<1>3. ASSUME NEW q \in all, Cardinality(Starts(q)) = l PROVE q = p
  BY <1>1, <1>2, <1>3
<1>4. LineStart(l) = CHOOSE q \in all : Cardinality(Starts(q)) = l
  BY DEF LineStart
<1> HIDE DEF all, l
<1>5. p \in all /\ Cardinality(Starts(p)) = l
  BY DEF all, l
<1> QED
  BY <1>3, <1>4, <1>5 DEF l

(* The marks are the starts of the lines begun, in order, and the position   *)
(* counts from the last; tokens are on lines with characters that flex has   *)
(* matched, and only a report that nothing follows fails the stream.         *)
MarkInv ==
  /\ markers \in Seq(Nat)
  /\ Len(markers) = Cardinality(Starts(scan))
  /\ \A i \in 1 .. Len(markers) :
       markers[i] \in Starts(scan) /\ Cardinality(Starts(markers[i])) = i
  /\ line = Len(markers) /\ col = scan - markers[line] + 1
  /\ seen \subseteq 1 .. line /\ \A l \in seen : markers[l] < scan
  /\ mode \in Modes
Unfailed == failed \in BOOLEAN /\ (failed => phase = "over")
LexInv == ReadInv /\ MarkInv /\ Unfailed /\ QuotesTheLine

LEMMA LexInvInit == Init => LexInv
<1> SUFFICES ASSUME Init PROVE LexInv
  OBVIOUS
<1>1. text \in Seq(Char) /\ scan = 0 /\ fed = 0 /\ at = 0 /\ eof = FALSE
  BY LexerAssumption DEF Init
<1>2. Clear(text, scan + 1, fed - 1)
  BY <1>1, NothingClear
<1>3. ReadInv
  <2>1. scan \in Nat /\ fed \in Nat /\ scan <= fed /\ fed <= Len(text)
    BY <1>1
  <2> QED
    BY <1>1, <1>2, <2>1, Zenon DEF ReadInv
<1>4. Starts(0) = {0}
  BY DEF Starts
<1>5. Cardinality(Starts(0)) = 1
  BY <1>4, FS_Singleton
<1>6. MarkInv
  BY <1>1, <1>4, <1>5 DEF MarkInv, Init, Modes
<1>7. QuotesTheLine /\ Unfailed
  BY DEF Init, QuotesTheLine, Unfailed
<1> QED
  BY <1>3, <1>6, <1>7 DEF LexInv

LEMMA LineBegun ==
  ASSUME ReadInv, MarkInv
  PROVE  /\ line \in Nat /\ line \in 1 .. Len(markers) /\ scan \in 0 .. Len(text)
         /\ markers[line] \in Nat
         /\ Starts(scan) \subseteq 0 .. scan
<1>1. scan \in 0 .. Len(text)
  BY DEF ReadInv
<1>2. /\ IsFiniteSet(Starts(scan)) /\ Starts(scan) # {} /\ Starts(scan) \subseteq 0 .. scan
      /\ Cardinality(Starts(scan)) \in Nat
  BY <1>1, StartsFinite DEF ReadInv
<1>3. Cardinality(Starts(scan)) # 0
  BY <1>2, FS_EmptySet
<1>4. line = Cardinality(Starts(scan)) /\ line = Len(markers) /\ markers \in Seq(Nat)
  BY DEF MarkInv
<1>5. line \in Nat /\ line # 0
  BY <1>2, <1>3, <1>4
<1>6. line \in 1 .. Len(markers)
  BY <1>4, <1>5
<1> QED
  BY <1>1, <1>2, <1>4, <1>5, <1>6

LEMMA SameText ==
  ASSUME text' = text
  PROVE  /\ \A n : Starts(n)' = Starts(n)
         /\ \A l : LineStart(l)' = LineStart(l)
         /\ \A p : LineFrom(p)' = LineFrom(p)
BY DEF Starts, LineStart, LineFrom

(* Within a line.                                                            *)
LEMMA MarkKept ==
  ASSUME ReadInv, MarkInv, NEW n \in Nat \ {0}, text' = text, scan' = scan + n,
         scan + n <= Len(text), Clear(text, scan + 1, scan + n),
         col' = col + n, line' = line, markers' = markers,
         seen' \subseteq seen \cup {line}, mode' \in Modes
  PROVE  MarkInv'
<1>1. scan \in Nat /\ line \in Nat /\ line \in 1 .. Len(markers) /\ markers[line] \in Nat
  BY LineBegun
<1>2. Starts(scan + n) = Starts(scan)
  BY <1>1 DEF Starts, Clear
<1>3. Starts(scan)' = Starts(scan)
  BY <1>2, SameText
<1>4. \A i \in 1 .. Len(markers) : Starts(markers[i])' = Starts(markers[i])
  BY SameText
<1>5. col' = (scan + n) - markers[line] + 1
  <2>1. col = scan - markers[line] + 1
    BY DEF MarkInv
  <2>2. PICK m \in Nat, k \in Nat : m = markers[line] /\ k = scan
    BY <1>1
  <2> QED
    BY <2>1, <2>2
<1>6. seen' \subseteq 1 .. line /\ \A l \in seen' : markers[l] < scan + n
  <2>1. /\ \A l \in seen : l \in 1 .. Len(markers) /\ markers[l] < scan
        /\ markers \in Seq(Nat) /\ seen' \subseteq 1 .. line
    BY <1>1 DEF MarkInv
  <2>2. markers[line] \in 0 .. scan
    BY <1>1, LineBegun DEF MarkInv
  <2>3. ASSUME NEW l \in seen' PROVE markers[l] < scan + n
    <3>1. CASE l = line
      BY <1>1, <2>2, <3>1
    <3>2. CASE l \in seen
      <4>1. markers[l] \in Nat /\ markers[l] < scan
        BY <2>1, <3>2
      <4> QED
        BY <1>1, <4>1
    <3> QED
      BY <3>1, <3>2
  <2> QED
    BY <2>1, <2>3
<1>7. /\ markers \in Seq(Nat) /\ Len(markers) = Cardinality(Starts(scan))
      /\ \A i \in 1 .. Len(markers) :
           markers[i] \in Starts(scan) /\ Cardinality(Starts(markers[i])) = i
      /\ line = Len(markers)
  BY DEF MarkInv
<1> QED
  BY <1>3, <1>4, <1>5, <1>6, <1>7 DEF MarkInv

(* Over a newline.                                                           *)
LEMMA MarkAdded ==
  ASSUME ReadInv, MarkInv, text' = text, scan' = scan + 1,
         scan + 1 <= Len(text), text[scan + 1] = "nl",
         col' = 1, line' = line + 1, markers' = Append(markers, scan + 1),
         seen' = seen, mode' \in Modes
  PROVE  MarkInv'
<1>1. /\ scan \in Nat /\ line \in Nat /\ line \in 1 .. Len(markers)
      /\ Starts(scan) \subseteq 0 .. scan
      /\ text \in Seq(Char) /\ scan \in 0 .. Len(text)
  BY LineBegun DEF ReadInv
<1>2. Starts(scan + 1) = Starts(scan) \cup {scan + 1}
  BY <1>1 DEF Starts
<1>3. Cardinality(Starts(scan + 1)) = Cardinality(Starts(scan)) + 1
  <2>1. IsFiniteSet(Starts(scan)) /\ scan + 1 \notin Starts(scan)
    BY <1>1, StartsFinite
  <2> QED
    BY <1>2, <2>1, FS_AddElement
<1>4. /\ Starts(scan)' = Starts(scan + 1)
      /\ \A p : Starts(p)' = Starts(p)
  BY SameText
<1>5. /\ markers \in Seq(Nat) /\ Len(markers) = Cardinality(Starts(scan))
      /\ \A i \in 1 .. Len(markers) :
           markers[i] \in Starts(scan) /\ Cardinality(Starts(markers[i])) = i
      /\ line = Len(markers) /\ seen \subseteq 1 .. line /\ \A l \in seen : markers[l] < scan
  BY DEF MarkInv
<1> DEFINE ms == Append(markers, scan + 1)
<1>6. /\ ms \in Seq(Nat) /\ Len(ms) = line + 1 /\ ms[line + 1] = scan + 1
      /\ \A i \in 1 .. line : ms[i] = markers[i]
  BY <1>1, <1>5
<1> HIDE DEF ms
<1>7. ASSUME NEW i \in 1 .. Len(ms)
      PROVE  ms[i] \in Starts(scan + 1) /\ Cardinality(Starts(ms[i])) = i
  <2>1. CASE i \in 1 .. line
    BY <1>2, <1>5, <1>6, <2>1
  <2>2. CASE i = line + 1
    BY <1>2, <1>3, <1>5, <1>6, <2>2
  <2> QED
    BY <1>1, <1>6, <1>7, <2>1, <2>2
<1>8. /\ 1 = (scan + 1) - ms[line + 1] + 1 /\ seen \subseteq 1 .. line + 1
      /\ \A l \in seen : ms[l] < scan + 1
  BY <1>1, <1>5, <1>6
<1>9. markers' = ms
  BY DEF ms
<1>10. \A i \in 1 .. Len(markers') :
         markers'[i] \in Starts(scan)' /\ Cardinality((Starts(markers[i]))') = i
  <2>1. \A i : (Starts(markers[i]))' = Starts(markers'[i])
    BY DEF Starts
  <2> QED
    BY <1>4, <1>7, <1>9, <2>1
<1> QED
  BY <1>3, <1>4, <1>5, <1>6, <1>8, <1>9, <1>10 DEF MarkInv

LEMMA ReadKept ==
  ASSUME ReadInv, UNCHANGED <<text, scan>>, NEW f \in Nat, NEW e \in BOOLEAN,
         fed' = f, eof' = e, at' = f, fed <= f, f <= Len(text),
         e => f = Len(text) /\ Clear(text, scan + 1, Len(text)),
         Clear(text, scan + 1, f - 1)
  PROVE  ReadInv'
<1>1. scan \in Nat /\ scan <= f /\ text \in Seq(Char)
  BY DEF ReadInv
<1> QED
  BY <1>1, Zenon DEF ReadInv

LEMMA MarkSame ==
  ASSUME MarkInv, UNCHANGED <<text, scan, markers, line, col, mode>>,
         seen' = seen
  PROVE  MarkInv'
<1>1. \A n : Starts(n)' = Starts(n)
  BY SameText
<1>2. /\ Starts(scan)' = Starts(scan)
      /\ \A i \in 1 .. Len(markers) : Starts(markers[i])' = Starts(markers[i])
  BY <1>1 DEF Starts
<1> QED
  BY <1>2 DEF MarkInv

LEMMA QuoteSame ==
  ASSUME QuotesTheLine, text' = text, shown' \in {shown, None}
  PROVE  QuotesTheLine'
<1>1. \A p : LineFrom(LineStart(p))' = LineFrom(LineStart(p))
  BY DEF LineFrom, LineStart, Starts
<1>2. CASE shown' = None
  BY <1>2 DEF QuotesTheLine
<1>3. CASE shown' = shown
  <2>1. LineFrom(LineStart(shown.of))' = LineFrom(LineStart(shown.of))
    BY <1>3 DEF LineFrom, LineStart, Starts
  <2> QED
    BY <1>3, <2>1 DEF QuotesTheLine
<1> QED
  BY <1>2, <1>3

LEMMA LexInvNext == LexInv /\ [Next]_vars => LexInv'
<1> SUFFICES ASSUME LexInv, [Next]_vars PROVE LexInv'
  OBVIOUS
<1>0. /\ ReadInv /\ MarkInv /\ Unfailed /\ QuotesTheLine
      /\ line \in Nat /\ line \in 1 .. Len(markers) /\ seen \subseteq 1 .. line
      /\ scan \in Nat /\ text \in Seq(Char) /\ mode \in Modes
  BY LineBegun DEF LexInv, ReadInv, MarkInv
<1>1. ASSUME NEW rules, Match(rules), "none" \notin rules, rules \cap {"newline", "endline"} = {},
             Columns, mode' \in Modes, seen' \subseteq seen \cup {line}
      PROVE  LexInv'
  <2>1. PICK n \in 1 .. Available :
           /\ ReadInv' /\ text' = text /\ shown' = shown /\ failed' = failed
           /\ Length = n /\ scan' = scan + n
           /\ Rule(mode, Word(n)) \in rules
           /\ Clear(text, scan + 1, scan + n)
    BY <1>0, <1>1, Matched
  <2>2. n \in Nat \ {0} /\ scan + n <= Len(text) /\ Unfailed'
    BY <1>0, <1>1, <2>1 DEF ReadInv, Available, Unfailed, Match
  <2>3. col' = col + n /\ line' = line /\ markers' = markers
    BY <1>1, <2>1 DEF Columns
  <2>4. MarkInv'
    BY <1>0, <1>1, <2>1, <2>2, <2>3, MarkKept
  <2> QED
    BY <1>0, <2>1, <2>2, <2>4, QuoteSame DEF LexInv
<1>2. CASE Skip
  BY <1>0, <1>1, <1>2 DEF Skip
<1>3. CASE Open
  BY <1>0, <1>1, <1>3 DEF Open, Modes
<1>4. CASE Close
  BY <1>0, <1>1, <1>4 DEF Close, Modes
<1>5. CASE Token
  BY <1>0, <1>1, <1>5 DEF Token
<1>6. CASE Newline
  <2>1. PICK n \in 1 .. Available :
           /\ ReadInv' /\ text' = text /\ shown' = shown /\ failed' = failed
           /\ Length = n /\ scan' = scan + n
           /\ n = 1 /\ text[scan + 1] = "nl" /\ eof' = FALSE /\ at' = scan + 1
    BY <1>0, <1>6, Matched DEF Newline
  <2>2. scan + 1 <= Len(text)
    BY <1>0, <2>1 DEF ReadInv, Available
  <2>3. col' = 1 /\ line' = line + 1 /\ markers' = Append(markers, scan + 1) /\ seen' = seen
    BY <1>6, <2>1 DEF Newline, Lines, tellg
  <2>4. mode' \in Modes
    BY <1>0, <1>6 DEF Newline, Modes
  <2>5. MarkInv'
    BY <1>0, <2>1, <2>2, <2>3, <2>4, MarkAdded
  <2>6. Unfailed'
    BY <1>0, <1>6, <2>1 DEF Unfailed, Newline, Match
  <2> QED
    BY <1>0, <2>1, <2>5, <2>6, QuoteSame DEF LexInv
<1>7. CASE EndOfFile
  <2>1. UNCHANGED <<text, scan, mode, line, col, markers, shown, seen>>
    BY <1>7 DEF EndOfFile
  <2>2. ReadInv'
    BY <1>0, <1>7, <2>1, Fed, ReadKept DEF EndOfFile
  <2>3. MarkInv'
    BY <1>0, <2>1, MarkSame
  <2>4. Unfailed'
    BY <1>0, <1>7 DEF Unfailed, EndOfFile
  <2> QED
    BY <1>0, <2>1, <2>2, <2>3, <2>4, QuoteSame DEF LexInv
<1>8. CASE yylex
  <2>1. /\ UNCHANGED <<text, at, eof, failed, fed, scan, mode, line, col, markers, seen>>
        /\ shown' = None
    BY <1>8 DEF yylex, stream
  <2>2. ReadInv' /\ Unfailed'
    BY <1>0, <1>8, <2>1 DEF ReadInv, Clear, Unfailed, yylex
  <2>3. MarkInv'
    BY <1>0, <2>1, MarkSame
  <2> QED
    BY <1>0, <2>1, <2>2, <2>3, QuoteSame DEF LexInv
<1>9. ASSUME NEW l \in 1 .. Len(markers), Report(l, markers[l], at), phase # "over"
      PROVE  ReadInv' /\ MarkInv' /\ QuotesTheLine' /\ failed' = (markers[l] = Len(text))
  <2>1. failed = FALSE
    BY <1>0, <1>9 DEF Unfailed
  <2>2. markers[l] \in Starts(scan) /\ Cardinality(Starts(markers[l])) = l
    BY <1>0 DEF MarkInv
  <2>3. UNCHANGED <<text, eof, fed, scan, mode, line, col, markers, seen>>
    BY <1>9 DEF Report
  <2>4. at' = at
    <3>1. CASE markers[l] = Len(text)
      <4>1. markers[l] <= scan /\ at = fed /\ scan <= fed /\ fed <= Len(text)
        BY <1>0, <2>2, LineBegun DEF ReadInv
      <4>2. at' = markers[l]
        BY <1>9, <2>1, <3>1 DEF Report
      <4> QED
        BY <1>0, <3>1, <4>1, <4>2 DEF ReadInv
    <3>2. CASE markers[l] # Len(text)
      BY <1>9, <2>1, <3>2 DEF Report
    <3> QED
      BY <3>1, <3>2
  <2>5. ReadInv'
    BY <1>0, <2>3, <2>4 DEF ReadInv, Clear
  <2>6. MarkInv'
    BY <1>0, <2>3, MarkSame
  <2>7. markers[l] = LineStart(l)
    <3>1. markers[l] \in Starts(Len(text))
      BY <1>0, <2>2, StartsFinite, LineBegun
    <3> QED
      BY <1>0, <2>2, <3>1, LineStartIs
  <2>8. QuotesTheLine'
    <3>1. shown'.of = l /\ shown'.quoted = LineFrom(LineStart(l))
      BY <1>9, <2>1, <2>7 DEF Report
    <3>2. LineFrom(LineStart(shown.of))' = LineFrom(LineStart(l))
      BY <2>3, <3>1 DEF LineFrom, LineStart, Starts
    <3> QED
      BY <3>1, <3>2 DEF QuotesTheLine
  <2>9. failed' = (markers[l] = Len(text))
    BY <1>9, <2>1 DEF Report
  <2> QED
    BY <2>5, <2>6, <2>8, <2>9
<1>10. CASE error
  <2>1. PICK l \in seen : /\ phase \in {"parser", "ended"} /\ phase' = phase
                          /\ Report(l, markers[l], at)
    BY <1>10 DEF error
  <2>2. l \in 1 .. Len(markers) /\ markers[l] # Len(text)
    <3>1. l \in 1 .. Len(markers) /\ markers \in Seq(Nat) /\ markers[l] < scan
      BY <1>0 DEF MarkInv
    <3> QED
      BY <1>0, <3>1 DEF ReadInv
  <2>3. Unfailed'
    BY <1>9, <2>1, <2>2 DEF Unfailed
  <2> QED
    BY <1>9, <2>1, <2>2, <2>3 DEF LexInv
<1>11. CASE errorAtEnd
  <2>1. phase' = "over" /\ Report(line, markers[line], at) /\ phase # "over"
    BY <1>11 DEF errorAtEnd
  <2>2. Unfailed'
    BY <1>0, <1>9, <2>1 DEF Unfailed
  <2> QED
    BY <1>0, <1>9, <2>1, <2>2 DEF LexInv
<1>12. CASE Ended \/ UNCHANGED vars
  <2>1. UNCHANGED <<text, at, eof, failed, fed, scan, mode, line, col, markers, phase, seen, shown>>
    BY <1>12 DEF Ended, vars
  <2>2. ReadInv' /\ Unfailed'
    BY <1>0, <2>1 DEF ReadInv, Clear, Unfailed
  <2>3. MarkInv'
    BY <1>0, <2>1, MarkSame
  <2> QED
    BY <1>0, <2>1, <2>2, <2>3, QuoteSame DEF LexInv
<1> QED
  BY <1>2, <1>3, <1>4, <1>5, <1>6, <1>7, <1>8, <1>10, <1>11, <1>12 DEF Next

THEOREM ScannerInvariant == Spec => []LexInv
BY LexInvInit, LexInvNext, PTL DEF Spec

(* A report leaves the stream where flex is: for any input, nothing is lexed *)
(* twice and the input does not end early, however often errors are quoted.  *)
THEOREM StreamKept == Spec => []StreamIntact
<1>1. LexInv => StreamIntact
  BY DEF LexInv, ReadInv, StreamIntact
<1> QED
  BY <1>1, ScannerInvariant, PTL

(* The marks are exactly where the lines begun start, although tellg is      *)
(* asked after flex has read ahead.                                          *)
THEOREM MarkersRight == Spec => []MarkersAreLineStarts
<1>1. ASSUME LexInv PROVE MarkersAreLineStarts
  <2>1. ReadInv /\ MarkInv
    BY <1>1 DEF LexInv
  <2>2. ASSUME NEW i \in 1 .. Len(markers) PROVE markers[i] = LineStart(i)
    <3>1. /\ markers[i] \in Starts(scan) /\ Cardinality(Starts(markers[i])) = i
          /\ text \in Seq(Char)
      BY <2>1 DEF MarkInv, ReadInv
    <3>2. markers[i] \in Starts(Len(text))
      BY <2>1, <3>1, StartsFinite, LineBegun
    <3> QED
      BY <3>1, <3>2, LineStartIs
  <2> QED
    BY <2>1, <2>2 DEF MarkersAreLineStarts, MarkInv
<1> QED
  BY <1>1, ScannerInvariant, PTL

(* The location is the place of the last character matched, whatever         *)
(* comments, blanks and unknown characters came before it.                   *)
THEOREM LocationRight == Spec => []InPlace
<1>1. ASSUME LexInv PROVE InPlace
  <2>1. ReadInv /\ MarkInv /\ text \in Seq(Char)
    BY <1>1 DEF LexInv, ReadInv
  <2>2. line \in 1 .. Len(markers) /\ line = Cardinality(Starts(scan))
        /\ col = scan - markers[line] + 1
    BY <2>1, LineBegun DEF MarkInv
  <2>3. markers[line] \in Starts(scan) /\ Cardinality(Starts(markers[line])) = line
    BY <2>1, <2>2 DEF MarkInv
  <2>4. markers[line] \in Starts(Len(text))
    BY <2>1, <2>3, StartsFinite, LineBegun
  <2>5. markers[line] = LineStart(line)
    BY <2>1, <2>3, <2>4, LineStartIs
  <2> QED
    BY <2>2, <2>5 DEF InPlace
<1> QED
  BY <1>1, ScannerInvariant, PTL

(* A report quotes the line its location names, one made after the end of    *)
(* the file was read too.                                                    *)
THEOREM ReportsQuoteTheLine == Spec => []QuotesTheLine
<1>1. LexInv => QuotesTheLine
  BY DEF LexInv
<1> QED
  BY <1>1, ScannerInvariant, PTL
-----------------------------------------------------------------------------
(* Comments.  The recursive definition has a value: InComment follows the    *)
(* text a character at a time.                                               *)
After(was, c) == CASE was = "line" -> IF c = "nl" THEN "code" ELSE "line"
                   [] was = "star" /\ c = "/" -> "code"
                   [] was = "block" \/ (was = "star" /\ c # "/") -> IF c = "*" THEN "star" ELSE "block"
                   [] was = "slash" /\ c = "*" -> "block"
                   [] was = "slash" /\ c = "/" -> "line"
                   [] OTHER -> IF c = "/" THEN "slash" ELSE "code"
Where == {"code", "slash", "block", "star", "line"}

LEMMA AfterIn == \A was, c : After(was, c) \in Where
BY DEF After, Where

LEMMA InCommentFollows ==
  /\ InComment[0] = "code"
  /\ \A i \in Nat : InComment[i] \in Where
  /\ \A i \in Nat : i # 0 => InComment[i] = After(InComment[i - 1], text[i])
<1> DEFINE T == [i \in Nat |-> [was \in Where |-> After(was, text[i])]]
           Body(f) == [i \in Nat |-> IF i = 0 THEN "code" ELSE After(f[i - 1], text[i])]
<1>1. T \in [Nat -> [Where -> Where]] /\ "code" \in Where
  BY AfterIn DEF Where
<1>2. \A i \in Nat, was \in Where : T[i][was] = After(was, text[i])
  OBVIOUS
<1> HIDE DEF T
<1>3. PICK F \in [Nat -> Where] : F[0] = "code" /\ \A i \in Nat \ {0} : F[i] = T[i][F[i - 1]]
  BY <1>1, RecursionExists
<1>4. \A i \in Nat : F[i] = IF i = 0 THEN "code" ELSE After(F[i - 1], text[i])
  BY <1>2, <1>3
<1>5. F = Body(F)
  BY <1>3, <1>4
<1>6. InComment = CHOOSE f : f = Body(f)
  BY DEF InComment, After
<1> HIDE DEF Body
<1>7. InComment = Body(InComment)
  BY <1>5, <1>6
<1>8. \A i \in Nat : InComment[i] = IF i = 0 THEN "code" ELSE After(InComment[i - 1], text[i])
  BY <1>7 DEF Body
<1>9. \A i \in Nat : InComment[i] \in Where
  BY <1>8, AfterIn DEF Where
<1> QED
  BY <1>8, <1>9

(* Lexemes and the comment they are in.                                      *)
LEMMA CodeLexeme ==
  ASSUME NEW w \in Seq(Char), w # <<>>, InitialRule(w) # "none"
  PROVE  \/ w = <<"/", "*">> /\ InitialRule(w) = "comment"
         \/ w = <<"/", "/">> /\ InitialRule(w) = "linecomment"
         \/ w = <<"/">> /\ InitialRule(w) = "token"
         \/ /\ \A i \in 1 .. Len(w) : w[i] # "/"
            /\ InitialRule(w) \notin {"comment", "linecomment"}
<1> DEFINE NoSlash == \A i \in 1 .. Len(w) : w[i] # "/"
<1>1. ASSUME NEW C, "/" \notin C, Only(w, C) PROVE NoSlash
  BY <1>1 DEF Only
<1>2. Only(w, Delim) => NoSlash
  BY <1>1 DEF Delim
<1>3. w = <<"nl">> => NoSlash
  OBVIOUS
<1>4. w \in Operators => w = <<"/">> \/ NoSlash
  BY DEF Operators
<1>5. Number(w) => NoSlash
  <2>1. CASE Only(w, Digit)
    BY <1>1, <2>1 DEF Digit
  <2>2. CASE Len(w) > 2 /\ w[1] = "0" /\ w[2] = "x" /\ Only(SubSeq(w, 3, Len(w)), Digit)
    <3> DEFINE s == SubSeq(w, 3, Len(w))
    <3>1. Only(s, Digit) /\ s \in Seq(Char)
          /\ \A i \in 3 .. Len(w) : i - 2 \in 1 .. Len(s) /\ s[i - 2] = w[i]
      BY <2>2
    <3> HIDE DEF s
    <3>2. \A i \in 3 .. Len(w) : w[i] # "/"
      BY <3>1 DEF Only, Digit
    <3> QED
      BY <2>2, <3>2
  <2> QED
    BY <2>1, <2>2 DEF Number
<1>6. Id(w) => NoSlash
  BY <1>1 DEF Id, Letter, Digit
<1>7. Len(w) = 1 => w = <<"/">> \/ NoSlash
  OBVIOUS
<1>8. w = <<"/">> => InitialRule(w) = "token"
  BY DEF InitialRule, Operators, Only, Delim
<1> HIDE DEF NoSlash
<1>9. \/ w = <<"/", "*">> /\ InitialRule(w) = "comment"
      \/ w = <<"/", "/">> /\ InitialRule(w) = "linecomment"
      \/ w = <<"/">> /\ InitialRule(w) = "token"
      \/ NoSlash /\ InitialRule(w) \notin {"comment", "linecomment"}
  <2>1. CASE w = <<"/", "*">>
    <3>1. 1 \in DOMAIN w /\ w[1] = "/"
      BY <2>1
    <3>2. ~Only(w, Delim)
      BY <3>1 DEF Only, Delim
    <3>3. ~Number(w) /\ ~Id(w)
      BY <3>1 DEF Number, Id, Only, Digit, Letter
    <3>4. w \notin Operators /\ w # <<"nl">> /\ w # <<"/", "/">>
      BY <2>1 DEF Operators
    <3> QED
      BY <2>1, <3>2, <3>3, <3>4 DEF InitialRule
  <2>2. CASE w = <<"/", "/">>
    <3>1. 1 \in DOMAIN w /\ w[1] = "/"
      BY <2>2
    <3>2. ~Only(w, Delim) /\ w # <<"/", "*">>
      BY <2>2, <3>1 DEF Only, Delim
    <3>3. ~Number(w) /\ ~Id(w)
      BY <3>1 DEF Number, Id, Only, Digit, Letter
    <3>4. w \notin Operators /\ w # <<"nl">>
      BY <2>2 DEF Operators
    <3> QED
      BY <2>2, <3>2, <3>3, <3>4 DEF InitialRule
  <2>3. CASE w # <<"/", "*">> /\ w # <<"/", "/">>
    <3>1. NoSlash \/ w = <<"/">>
      BY <1>2, <1>3, <1>4, <1>5, <1>6, <1>7, <2>3 DEF InitialRule
    <3>2. InitialRule(w) \notin {"comment", "linecomment"}
      BY <2>3 DEF InitialRule
    <3> QED
      BY <1>8, <3>1, <3>2
  <2> QED
    BY <2>1, <2>2, <2>3
<1> QED
  BY <1>9 DEF NoSlash

LEMMA CommentLexeme ==
  ASSUME NEW w \in Seq(Char), w # <<>>, CommentRule(w) # "none"
  PROVE  \/ w = <<"*", "/">> /\ CommentRule(w) = "close"
         \/ w = <<"nl">> /\ CommentRule(w) = "newline"
         \/ w = <<"*">> /\ CommentRule(w) = "chunk"
         \/ (\A i \in 1 .. Len(w) : w[i] \notin {"*", "nl"}) /\ CommentRule(w) = "chunk"
BY DEF CommentRule, Only

LEMMA LineCommentLexeme ==
  ASSUME NEW w \in Seq(Char), w # <<>>, LineCommentRule(w) # "none"
  PROVE  \/ w = <<"nl">> /\ LineCommentRule(w) = "endline"
         \/ (\A i \in 1 .. Len(w) : w[i] # "nl") /\ LineCommentRule(w) = "chunk"
BY DEF LineCommentRule, Only

(* Over characters that change nothing the definition stays where it was.    *)
LEMMA Stays ==
  ASSUME NEW a \in Nat, NEW n \in Nat, n >= 1, NEW was \in Where,
         After(InComment[a], text[a + 1]) = was,
         \A i \in a + 2 .. a + n : After(was, text[i]) = was
  PROVE  InComment[a + n] = was
<1> DEFINE Bad == {j \in Nat : j >= 1 /\ j <= n /\ InComment[a + j] # was}
<1>1. SUFFICES ASSUME Bad # {} PROVE FALSE
  <2>1. InComment[a + n] # was => n \in Bad
    OBVIOUS
  <2> QED
    BY <2>1
<1>2. PICK j \in Bad : \A k \in Bad : j <= k
  BY <1>1, SmallestExists
<1>3. j \in Nat /\ j >= 1 /\ j <= n /\ InComment[a + j] # was
  OBVIOUS
<1>4. a + j \in Nat /\ a + j # 0 /\ a + j - 1 = a + (j - 1)
  BY <1>3
<1>5. InComment[a + j] = After(InComment[a + (j - 1)], text[a + j])
  BY <1>4, InCommentFollows
<1>6. CASE j = 1
  <2>1. a + j = a + 1 /\ a + (j - 1) = a
    BY <1>6
  <2> QED
    BY <1>3, <1>5, <2>1
<1>7. CASE j # 1
  <2>1. j - 1 \in Nat /\ j - 1 >= 1 /\ j - 1 <= n /\ ~(j <= j - 1) /\ a + j \in a + 2 .. a + n
    BY <1>3, <1>7
  <2>2. InComment[a + (j - 1)] = was
    BY <1>2, <2>1
  <2> QED
    BY <1>3, <1>5, <2>1, <2>2
<1> QED
  BY <1>6, <1>7

(* Between two lexemes the scanner is in the condition the text asks for,    *)
(* and a "/" or "*" that was taken alone does not begin or end a comment     *)
(* with what follows: the longest match would have taken both.               *)
CommentInv ==
  /\ mode = "INITIAL" => InComment[scan] \in {"code", "slash"}
  /\ mode = "IN_COMMENT" => InComment[scan] \in {"block", "star"}
  /\ mode = "IN_LINECOMMENT" => InComment[scan] = "line"
  /\ scan < Len(text) /\ InComment[scan] = "slash" => text[scan + 1] \notin {"/", "*"}
  /\ scan < Len(text) /\ InComment[scan] = "star" => text[scan + 1] # "/"

(* What was matched with one character could not be matched with two.        *)
LEMMA LongestMatch ==
  ASSUME ReadInv, \A k \in Matches(Wanted) : k <= 1, 2 <= Available,
         Rule(mode, Word(1)) # "none"
  PROVE  Rule(mode, Word(2)) = "none"
<1>1. SUFFICES ASSUME Rule(mode, Word(2)) # "none" PROVE FALSE
  OBVIOUS
<1>2. /\ Available \in Nat /\ Wanted \in 1 .. Available + 1 /\ Wanted \in Stops
  BY WantedIsLeast DEF Stops
<1>3. MayGrow(mode, Word(1))
  <2>1. /\ Word(1) \in Seq(Char) /\ Len(Word(1)) = 1 /\ Word(1)[1] = text[scan + 1]
        /\ Word(2) \in Seq(Char) /\ Len(Word(2)) = 2
        /\ Word(2)[1] = text[scan + 1] /\ Word(2)[2] = text[scan + 2]
    <3>1. 1 \in 0 .. Available /\ 2 \in 0 .. Available /\ 1 \in 1 .. 1 /\ 1 \in 1 .. 2 /\ 2 \in 1 .. 2
      BY <1>2
    <3> QED
      BY <3>1, Words
  <2>2. Word(2)[2] \in Char
    BY <2>1
  <2> DEFINE v == Append(Word(1), Word(2)[2])
  <2>3. v \in Seq(Char) /\ Len(v) = 2 /\ v[1] = Word(2)[1] /\ v[2] = Word(2)[2]
    BY <2>1, <2>2
  <2> HIDE DEF v
  <2>4. v = Word(2)
    BY <2>1, <2>3
  <2> QED
    BY <1>1, <2>2, <2>4 DEF MayGrow, Live, v
<1>4. Wanted # 1
  BY <1>2, <1>3 DEF Stops, Live
<1>5. 2 \in Matches(Wanted)
  BY <1>1, <1>2, <1>4 DEF Matches
<1> QED
  BY <1>5

(* A lexeme of code: what it is made of decides what follows.                *)
LEMMA MatchedInCode ==
  ASSUME ReadInv, CommentInv, mode = "INITIAL", NEW n \in 1 .. Available,
         InitialRule(Word(n)) # "none", \A k \in Matches(Wanted) : k <= n
  PROVE  LET now == InComment[scan + n]
             rule == InitialRule(Word(n)) IN
         /\ rule = "comment" => now = "block"
         /\ rule = "linecomment" => now = "line"
         /\ rule \notin {"comment", "linecomment"} => now \in {"code", "slash"}
         /\ scan + n < Len(text) /\ now = "slash" => text[scan + n + 1] \notin {"/", "*"}
<1>0. /\ scan \in Nat /\ n \in Nat /\ n >= 1 /\ n \in 0 .. Available
      /\ Available = Len(text) - scan /\ Len(text) \in Nat
  BY DEF ReadInv, Available
<1> DEFINE w == Word(n)
<1>1. /\ w \in Seq(Char) /\ Len(w) = n /\ (\A i \in 1 .. n : w[i] = text[scan + i])
      /\ scan + n <= Len(text)
  BY <1>0, Words
<1>2. w # <<>>
  BY <1>0, <1>1
<1>3. /\ InComment[scan] \in {"code", "slash"}
      /\ InComment[scan] = "slash" => text[scan + 1] \notin {"/", "*"}
  BY <1>0, <1>1 DEF CommentInv
<1>4. InComment[scan + 1] = After(InComment[scan], text[scan + 1])
  BY <1>0, InCommentFollows
<1>a. InitialRule(w) # "none"
  OBVIOUS
<1> HIDE DEF w
<1>5. CASE w = <<"/", "*">> \/ w = <<"/", "/">>
  <2>1. n = 2 /\ text[scan + 1] = "/" /\ text[scan + 2] = w[2] /\ w[1] = "/"
    <3>1. Len(w) = 2 /\ w[1] = "/"
      BY <1>5
    <3>2. n = 2
      BY <1>1, <3>1
    <3>3. 1 \in 1 .. n /\ 2 \in 1 .. n
      BY <3>2
    <3> QED
      BY <1>1, <3>1, <3>2, <3>3
  <2>0. 1 \in 1 .. Len(w)
    BY <1>1, <2>1
  <2>2. InComment[scan + 1] = "slash"
    BY <1>3, <1>4, <2>1 DEF After
  <2>3. InComment[scan + 2] = After("slash", w[2])
    <3>1. PICK j \in Nat : j = scan + 2 /\ j # 0 /\ j - 1 = scan + 1
      BY <1>0
    <3>2. InComment[j] = After(InComment[j - 1], text[j])
      BY <3>1, InCommentFollows
    <3> QED
      BY <2>1, <2>2, <3>1, <3>2
  <2>4. CASE w = <<"/", "*">>
    <3>1. InComment[scan + n] = "block"
      BY <2>1, <2>3, <2>4 DEF After
    <3>2. InitialRule(w) = "comment"
      BY <1>1, <1>2, <1>a, <2>0, <2>4, CodeLexeme
    <3> QED
      BY <3>1, <3>2 DEF w
  <2>5. CASE w = <<"/", "/">>
    <3>1. InComment[scan + n] = "line"
      BY <2>1, <2>3, <2>5 DEF After
    <3>2. InitialRule(w) = "linecomment"
      BY <1>1, <1>2, <1>a, <2>0, <2>5, CodeLexeme
    <3> QED
      BY <3>1, <3>2 DEF w
  <2> QED
    BY <1>5, <2>4, <2>5
<1>6. CASE w = <<"/">>
  <2>1. n = 1 /\ text[scan + 1] = "/"
    BY <1>0, <1>1, <1>6
  <2>2. InComment[scan + n] = "slash"
    BY <1>3, <1>4, <2>1 DEF After
  <2>3. InitialRule(w) = "token"
    <3>1. 1 \in 1 .. Len(w) /\ w[1] = "/"
      BY <1>6
    <3> QED
      BY <1>1, <1>2, <1>6, <1>a, <3>1, CodeLexeme
  <2>4. ASSUME scan + n < Len(text) PROVE text[scan + n + 1] \notin {"/", "*"}
    <3>1. 2 \in 0 .. Available /\ 2 <= Available /\ 2 \in 1 .. 2 /\ 1 \in 1 .. 2
      BY <1>0, <2>1, <2>4
    <3> DEFINE v == Word(2)
    <3>2. v \in Seq(Char) /\ Len(v) = 2 /\ v[1] = text[scan + 1] /\ v[2] = text[scan + 2]
      BY <3>1, Words
    <3>3. Rule(mode, v) = "none"
      <4>1. Rule(mode, Word(1)) # "none"
        BY <2>1 DEF Rule
      <4> QED
        BY <2>1, <3>1, <4>1, LongestMatch
    <3> HIDE DEF v
    <3>4. InitialRule(v) = "none"
      BY <3>3 DEF Rule
    <3>5. ASSUME v = <<"/", "*">> \/ v = <<"/", "/">> PROVE InitialRule(v) # "none"
      BY <3>5 DEF InitialRule
    <3>6. v = <<v[1], v[2]>>
      BY <3>2
    <3> QED
      BY <1>0, <2>1, <3>2, <3>4, <3>5, <3>6
  <2> QED
    BY <2>2, <2>3, <2>4 DEF w
<1>7. CASE /\ \A i \in 1 .. Len(w) : w[i] # "/"
           /\ InitialRule(w) \notin {"comment", "linecomment"}
  <2>1. \A i \in scan + 1 .. scan + n : text[i] # "/"
    <3>1. \A i \in scan + 1 .. scan + n : i - scan \in 1 .. n /\ scan + (i - scan) = i
      BY <1>0
    <3> QED
      BY <1>1, <1>7, <3>1
  <2>2. After(InComment[scan], text[scan + 1]) = "code"
    <3>1. text[scan + 1] # "/"
      BY <1>0, <2>1
    <3> QED
      BY <1>3, <3>1 DEF After
  <2>3. \A i \in scan + 2 .. scan + n : After("code", text[i]) = "code"
    BY <1>0, <2>1 DEF After
  <2>4. InComment[scan + n] = "code"
    BY <1>0, <2>2, <2>3, Stays DEF Where
  <2> QED
    BY <1>7, <2>4 DEF w
<1> QED
  BY <1>1, <1>2, <1>5, <1>6, <1>7, CodeLexeme DEF w

(* A lexeme of a comment: only the one that closes it leaves it.             *)
LEMMA MatchedInComment ==
  ASSUME ReadInv, CommentInv, mode = "IN_COMMENT", NEW n \in 1 .. Available,
         CommentRule(Word(n)) # "none", \A k \in Matches(Wanted) : k <= n
  PROVE  LET now == InComment[scan + n]
             rule == CommentRule(Word(n)) IN
         /\ rule = "close" => now = "code"
         /\ rule # "close" => now \in {"block", "star"}
         /\ scan + n < Len(text) /\ now = "star" => text[scan + n + 1] # "/"
<1>0. /\ scan \in Nat /\ n \in Nat /\ n >= 1 /\ n \in 0 .. Available
      /\ Available = Len(text) - scan /\ Len(text) \in Nat
  BY DEF ReadInv, Available
<1> DEFINE w == Word(n)
<1>1. /\ w \in Seq(Char) /\ Len(w) = n /\ (\A i \in 1 .. n : w[i] = text[scan + i])
      /\ scan + n <= Len(text)
  BY <1>0, Words
<1>2. w # <<>> /\ CommentRule(w) # "none"
  BY <1>0, <1>1
<1>3. /\ InComment[scan] \in {"block", "star"}
      /\ InComment[scan] = "star" => text[scan + 1] # "/"
  BY <1>0, <1>1 DEF CommentInv
<1>4. InComment[scan + 1] = After(InComment[scan], text[scan + 1])
  BY <1>0, InCommentFollows
<1>5. 1 \in 1 .. n /\ w[1] = text[scan + 1]
  BY <1>0, <1>1
<1> HIDE DEF w
<1>6. CASE w = <<"*", "/">> /\ CommentRule(w) = "close"
  <2>1. Len(w) = 2 /\ w[1] = "*" /\ w[2] = "/"
    BY <1>6
  <2>2. n = 2
    BY <1>1, <2>1
  <2>3. text[scan + 1] = "*" /\ text[scan + 2] = "/"
    <3>1. 2 \in 1 .. n
      BY <2>2
    <3> QED
      BY <1>1, <1>5, <2>1, <3>1
  <2>4. InComment[scan + 1] = "star"
    BY <1>3, <1>4, <2>3 DEF After
  <2>5. InComment[scan + 2] = "code"
    <3>1. PICK j \in Nat : j = scan + 2 /\ j # 0 /\ j - 1 = scan + 1
      BY <1>0
    <3>2. InComment[j] = After(InComment[j - 1], text[j])
      BY <3>1, InCommentFollows
    <3>3. After("star", "/") = "code"
      BY DEF After
    <3> QED
      BY <2>3, <2>4, <3>1, <3>2, <3>3
  <2> QED
    BY <1>6, <2>2, <2>5 DEF w
<1>7. CASE w = <<"nl">> /\ CommentRule(w) = "newline"
  <2>1. n = 1 /\ text[scan + 1] = "nl"
    BY <1>1, <1>5, <1>7
  <2>2. InComment[scan + 1] = "block"
    BY <1>3, <1>4, <2>1 DEF After
  <2> QED
    BY <1>7, <2>1, <2>2 DEF w
<1>8. CASE w = <<"*">> /\ CommentRule(w) = "chunk"
  <2>1. n = 1 /\ text[scan + 1] = "*"
    BY <1>1, <1>5, <1>8
  <2>2. InComment[scan + 1] = "star"
    BY <1>3, <1>4, <2>1 DEF After
  <2>3. ASSUME scan + n < Len(text) PROVE text[scan + n + 1] # "/"
    <3>1. 2 \in 0 .. Available /\ 2 <= Available /\ 2 \in 1 .. 2 /\ 1 \in 1 .. 2
      BY <1>0, <2>1, <2>3
    <3> DEFINE v == Word(2)
    <3>2. v \in Seq(Char) /\ Len(v) = 2 /\ v[1] = text[scan + 1] /\ v[2] = text[scan + 2]
      BY <3>1, Words
    <3>3. Rule(mode, v) = "none"
      <4>1. Rule(mode, Word(1)) # "none"
        BY <2>1 DEF Rule
      <4> QED
        BY <2>1, <3>1, <4>1, LongestMatch
    <3> HIDE DEF v
    <3>4. CommentRule(v) = "none"
      BY <3>3 DEF Rule
    <3>5. v = <<v[1], v[2]>>
      BY <3>2
    <3>6. CommentRule(<<"*", "/">>) # "none"
      BY DEF CommentRule
    <3>7. scan + n + 1 = scan + 2
      BY <1>0, <2>1
    <3> QED
      BY <2>1, <3>2, <3>4, <3>5, <3>6, <3>7
  <2> QED
    BY <1>8, <2>1, <2>2, <2>3 DEF w
<1>9. CASE (\A i \in 1 .. Len(w) : w[i] \notin {"*", "nl"}) /\ CommentRule(w) = "chunk"
  <2>1. \A i \in scan + 1 .. scan + n : text[i] # "*"
    <3>1. \A i \in scan + 1 .. scan + n : i - scan \in 1 .. n /\ scan + (i - scan) = i
      BY <1>0
    <3> QED
      BY <1>1, <1>9, <3>1
  <2>2. After(InComment[scan], text[scan + 1]) = "block"
    <3>1. text[scan + 1] # "*"
      BY <1>0, <2>1
    <3> QED
      BY <1>3, <3>1 DEF After
  <2>3. \A i \in scan + 2 .. scan + n : After("block", text[i]) = "block"
    BY <1>0, <2>1 DEF After
  <2>4. InComment[scan + n] = "block"
    BY <1>0, <2>2, <2>3, Stays DEF Where
  <2> QED
    BY <1>9, <2>4 DEF w
<1> QED
  BY <1>1, <1>2, <1>6, <1>7, <1>8, <1>9, CommentLexeme

LEMMA MatchedInLineComment ==
  ASSUME ReadInv, CommentInv, mode = "IN_LINECOMMENT", NEW n \in 1 .. Available,
         LineCommentRule(Word(n)) # "none"
  PROVE  IF LineCommentRule(Word(n)) = "endline" THEN InComment[scan + n] = "code"
                                                 ELSE InComment[scan + n] = "line"
<1>0. scan \in Nat /\ n \in Nat /\ n >= 1 /\ n \in 0 .. Available
  BY DEF ReadInv, Available
<1> DEFINE w == Word(n)
<1>1. w \in Seq(Char) /\ Len(w) = n /\ (\A i \in 1 .. n : w[i] = text[scan + i])
  BY <1>0, Words
<1>2. w # <<>> /\ LineCommentRule(w) # "none"
  BY <1>0, <1>1
<1>3. InComment[scan] = "line"
  BY DEF CommentInv
<1>4. InComment[scan + 1] = After(InComment[scan], text[scan + 1])
  BY <1>0, InCommentFollows
<1>5. 1 \in 1 .. n /\ w[1] = text[scan + 1]
  BY <1>0, <1>1
<1> HIDE DEF w
<1>6. CASE w = <<"nl">> /\ LineCommentRule(w) = "endline"
  <2>1. n = 1 /\ text[scan + 1] = "nl"
    BY <1>1, <1>5, <1>6
  <2> QED
    BY <1>3, <1>4, <1>6, <2>1 DEF w, After
<1>7. CASE (\A i \in 1 .. Len(w) : w[i] # "nl") /\ LineCommentRule(w) = "chunk"
  <2>1. \A i \in scan + 1 .. scan + n : text[i] # "nl"
    <3>1. \A i \in scan + 1 .. scan + n : i - scan \in 1 .. n /\ scan + (i - scan) = i
      BY <1>0
    <3> QED
      BY <1>1, <1>7, <3>1
  <2>2. After(InComment[scan], text[scan + 1]) = "line"
    <3>1. text[scan + 1] # "nl"
      BY <1>0, <2>1
    <3> QED
      BY <1>3, <3>1 DEF After
  <2>3. \A i \in scan + 2 .. scan + n : After("line", text[i]) = "line"
    BY <1>0, <2>1 DEF After
  <2>4. InComment[scan + n] = "line"
    BY <1>0, <2>2, <2>3, Stays DEF Where
  <2> QED
    BY <1>7, <2>4 DEF w
<1> QED
  BY <1>1, <1>2, <1>6, <1>7, LineCommentLexeme

LEMMA TextKept == text' = text => InComment' = InComment
BY DEF InComment

(* What a match does to the start condition and to the place in the text.    *)
LEMMA CommentStep ==
  ASSUME ReadInv, CommentInv, mode \in Modes, NEW n \in 1 .. Available,
         NEW rule, rule = Rule(mode, Word(n)), rule # "none",
         \A k \in Matches(Wanted) : k <= n,
         text' = text, scan' = scan + n,
         mode' = CASE rule = "comment" -> "IN_COMMENT"
                   [] rule = "linecomment" -> "IN_LINECOMMENT"
                   [] rule \in {"close", "endline"} -> "INITIAL"
                   [] OTHER -> mode
  PROVE  CommentInv'
<1> DEFINE now == InComment[scan + n]
<1>1. InComment'[scan'] = now
  BY TextKept
<1>2. CASE mode = "INITIAL"
  <2>1. rule = InitialRule(Word(n)) /\ rule \notin {"close", "endline"}
    BY <1>2 DEF Rule, InitialRule
  <2>2. /\ rule = "comment" => now = "block"
        /\ rule = "linecomment" => now = "line"
        /\ rule \notin {"comment", "linecomment"} => now \in {"code", "slash"}
        /\ scan + n < Len(text) /\ now = "slash" => text[scan + n + 1] \notin {"/", "*"}
    BY <1>2, <2>1, MatchedInCode
  <2> HIDE DEF now
  <2> QED
    BY <1>1, <1>2, <2>1, <2>2 DEF CommentInv
<1>3. CASE mode = "IN_COMMENT"
  <2>1. rule = CommentRule(Word(n)) /\ rule \notin {"comment", "linecomment", "endline"}
    BY <1>3 DEF Rule, CommentRule
  <2>2. /\ rule = "close" => now = "code"
        /\ rule # "close" => now \in {"block", "star"}
        /\ scan + n < Len(text) /\ now = "star" => text[scan + n + 1] # "/"
    BY <1>3, <2>1, MatchedInComment
  <2> HIDE DEF now
  <2> QED
    BY <1>1, <1>3, <2>1, <2>2 DEF CommentInv
<1>4. CASE mode = "IN_LINECOMMENT"
  <2>1. rule = LineCommentRule(Word(n)) /\ rule \notin {"comment", "linecomment", "close"}
    BY <1>4 DEF Rule, LineCommentRule
  <2>2. IF rule = "endline" THEN now = "code" ELSE now = "line"
    BY <1>4, <2>1, MatchedInLineComment
  <2> HIDE DEF now
  <2> QED
    BY <1>1, <1>4, <2>1, <2>2 DEF CommentInv
<1> QED
  BY <1>2, <1>3, <1>4 DEF Modes

LEMMA CommentInvInit == Init => CommentInv
BY InCommentFollows DEF Init, CommentInv

LEMMA CommentInvNext == LexInv /\ CommentInv /\ [Next]_vars => CommentInv'
<1> SUFFICES ASSUME LexInv, CommentInv, [Next]_vars PROVE CommentInv'
  OBVIOUS
<1>0. ReadInv /\ mode \in Modes
  BY DEF LexInv, MarkInv
<1>1. ASSUME NEW rules, Match(rules)
      PROVE  \E n \in 1 .. Available :
               /\ Rule(mode, Word(n)) \in rules /\ \A k \in Matches(Wanted) : k <= n
               /\ text' = text /\ scan' = scan + n /\ Length = n
  <2>1. PICK n \in Matches(Wanted) :
          /\ Rule(mode, Word(n)) \in rules /\ \A k \in Matches(Wanted) : k <= n
          /\ text' = text /\ scan' = scan + n
    BY <1>1 DEF Match
  <2>2. n \in 1 .. Available
    BY <1>0, WantedIsLeast DEF Matches, Stops
  <2>3. Length = n
    BY <1>0, <2>1, <2>2, WantedIsLeast DEF Length, ReadInv
  <2> QED
    BY <2>1, <2>2, <2>3
<1>2. CASE Skip \/ Token
  <2>1. PICK n \in 1 .. Available :
          /\ Rule(mode, Word(n)) \in {"blank", "chunk", "other", "token"}
          /\ \A k \in Matches(Wanted) : k <= n
          /\ text' = text /\ scan' = scan + n
    <3>1. CASE Skip
      BY <1>1, <3>1 DEF Skip
    <3>2. CASE Token
      BY <1>1, <3>2 DEF Token
    <3> QED
      BY <1>2, <3>1, <3>2
  <2>2. mode' = mode
    BY <1>2 DEF Skip, Token
  <2> QED
    BY <1>0, <2>1, <2>2, CommentStep
<1>3. CASE Open
  <2>1. PICK n \in 1 .. Available :
          /\ Rule(mode, Word(n)) \in {"comment", "linecomment"}
          /\ \A k \in Matches(Wanted) : k <= n
          /\ text' = text /\ scan' = scan + n /\ Length = n
    BY <1>1, <1>3 DEF Open
  <2>2. mode' = IF Rule(mode, Word(n)) = "comment" THEN "IN_COMMENT" ELSE "IN_LINECOMMENT"
    BY <1>3, <2>1 DEF Open
  <2> QED
    BY <1>0, <2>1, <2>2, CommentStep
<1>4. CASE Close
  <2>1. PICK n \in 1 .. Available :
          /\ Rule(mode, Word(n)) = "close"
          /\ \A k \in Matches(Wanted) : k <= n
          /\ text' = text /\ scan' = scan + n
    BY <1>1, <1>4 DEF Close
  <2>2. mode' = "INITIAL"
    BY <1>4 DEF Close
  <2> QED
    BY <1>0, <2>1, <2>2, CommentStep
<1>5. CASE Newline
  <2>1. PICK n \in 1 .. Available :
          /\ Rule(mode, Word(n)) \in {"newline", "endline"}
          /\ \A k \in Matches(Wanted) : k <= n
          /\ text' = text /\ scan' = scan + n
    BY <1>1, <1>5 DEF Newline
  <2>2. mode' = IF mode = "IN_LINECOMMENT" THEN "INITIAL" ELSE mode
    BY <1>5 DEF Newline
  <2>3. Rule(mode, Word(n)) = "endline" <=> mode = "IN_LINECOMMENT"
    BY <1>0, <2>1 DEF Rule, InitialRule, CommentRule, LineCommentRule, Modes
  <2> QED
    BY <1>0, <2>1, <2>2, <2>3, CommentStep
<1>6. CASE EndOfFile \/ yylex \/ error \/ errorAtEnd \/ Ended \/ UNCHANGED vars
  <2>1. text' = text /\ scan' = scan /\ mode' = mode
    BY <1>6 DEF EndOfFile, yylex, error, errorAtEnd, Report, Ended, vars, stream
  <2> QED
    BY <2>1, TextKept DEF CommentInv
<1> QED
  BY <1>2, <1>3, <1>4, <1>5, <1>6 DEF Next

(* The scanner is in a comment exactly when C, reading the text a character  *)
(* at a time, says so: for any input and any characters.                     *)
THEOREM CommentsAsInC == Spec => []CommentsAgree
<1>1. Spec => [](LexInv /\ CommentInv)
  BY LexInvInit, LexInvNext, CommentInvInit, CommentInvNext, PTL DEF Spec
<1>2. LexInv /\ CommentInv => CommentsAgree
  BY DEF LexInv, MarkInv, Modes, CommentInv, CommentsAgree
<1> QED
  BY <1>1, <1>2, PTL
=============================================================================
