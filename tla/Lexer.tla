--------------------------------- MODULE Lexer ---------------------------------
(* The scanner of Lexer.l and the error reports of Driver.cpp, which share   *)
(* one stream buffer, and with it the position: flex reads a character at a  *)
(* time, the newline rules note where lines start with tellg, and            *)
(* Driver::error seeks back to such a mark to quote the line and then        *)
(* returns to where flex was.  flex's yyin is an istream of its own on the   *)
(* buffer of _in_stream, so each has a state of its own.  A character stands *)
(* for its class: " " for blanks, "nl", "x" for letters, "0" for digits      *)
(* (which hexadecimal numbers have too), and some that begin more than one   *)
(* lexeme.                                                                   *)
EXTENDS Integers, Sequences, FiniteSets

CONSTANTS Char,     \* the classes of characters, "nl" among them
          MaxText,  \* bound on the length of the input
          None      \* no report was made
ASSUME LexerAssumption == MaxText \in Nat /\ "nl" \in Char

VARIABLES text,        \* the buffer of _in_stream: the file
          at,          \* its get position
          eof,         \* whether yyin has failed at the end
          failed,      \* _in_stream.fail()
          fed,         \* how many characters flex has been given
          scan,        \* how many of these it has matched
          mode,        \* the start condition
          line, col,   \* loc.end
          markers,     \* where the lines start
          phase,       \* who runs: yylex, or the parser after a token
          seen,        \* the lines of the tokens the parser has got
          shown        \* the last report: its line, the text quoted

stream == <<text, at, eof, failed>>
vars == <<text, at, eof, failed, fed, scan, mode, line, col, markers, phase, seen, shown>>
-----------------------------------------------------------------------------
(* Patterns.  Rule says which rule a word matches whole.                     *)
Only(w, C) == w # <<>> /\ \A i \in DOMAIN w : w[i] \in C
Delim == {" "}
Letter == {"x"}
Digit == {"0"}
Number(w) == \/ Only(w, Digit)
             \/ Len(w) > 2 /\ w[1] = "0" /\ w[2] = "x" /\ Only(SubSeq(w, 3, Len(w)), Digit)
Id(w) == Only(w, Letter \cup Digit) /\ w[1] \in Letter
Operators == {<<"/">>, <<"*">>, <<"=">>, <<"=", "=">>, <<"|", "|">>}

InitialRule(w) ==
  CASE Only(w, Delim) -> "blank"
    [] w = <<"/", "*">> -> "comment"
    [] w = <<"/", "/">> -> "linecomment"
    [] w = <<"nl">> -> "newline"
    [] w \in Operators \/ Number(w) \/ Id(w) -> "token"
    [] OTHER -> IF Len(w) = 1 THEN "other" ELSE "none"
CommentRule(w) ==
  CASE w = <<"*", "/">> -> "close"
    [] w = <<"nl">> -> "newline"
    [] w = <<"*">> \/ Only(w, Char \ {"*", "nl"}) -> "chunk"
    [] OTHER -> "none"
LineCommentRule(w) ==
  CASE w = <<"nl">> -> "endline"
    [] Only(w, Char \ {"nl"}) -> "chunk"
    [] OTHER -> "none"

(* Mutant: a comment's chunks take stars with them.                          *)
RuleStars(m, w) == CASE m = "INITIAL" -> InitialRule(w)
                     [] m = "IN_COMMENT" /\ Only(w, Char \ {"nl"}) ->
                          IF w = <<"*", "/">> THEN "close" ELSE "chunk"
                     [] m = "IN_COMMENT" /\ ~Only(w, Char \ {"nl"}) -> CommentRule(w)
                     [] OTHER -> LineCommentRule(w)
Rule(m, w) == CASE m = "INITIAL" -> InitialRule(w)
                [] m = "IN_COMMENT" -> CommentRule(w)
                [] OTHER -> LineCommentRule(w)

(* flex reads on while what it has may still grow into a lexeme; "0x" is the *)
(* one word on the way to a lexeme that is none itself.                      *)
Live(m, w) == Rule(m, w) # "none" \/ (m = "INITIAL" /\ w = <<"0", "x">>)
MayGrow(m, w) == \E c \in Char : Live(m, Append(w, c))

Available == (IF eof THEN fed ELSE Len(text)) - scan
Word(n) == SubSeq(text, scan + 1, scan + n)
Wanted ==
  LET Stops == {n \in 1 .. Available + 1 :
                  n > Available \/ ~Live(mode, Word(n)) \/ ~MayGrow(mode, Word(n))}
  IN  CHOOSE n \in Stops : \A k \in Stops : n <= k
Matches(wanted) == {n \in 1 .. wanted : n <= Available /\ Rule(mode, Word(n)) # "none"}
-----------------------------------------------------------------------------
Init == /\ text \in UNION {[1 .. n -> Char] : n \in 0 .. MaxText}
        /\ at = 0 /\ eof = FALSE /\ failed = FALSE /\ fed = 0 /\ scan = 0 /\ mode = "INITIAL"
        /\ line = 1 /\ col = 1 /\ markers = <<0>>
        /\ phase = "yylex" /\ seen = {} /\ shown = None

(* LexerInput: a character at a time; trying to read past the end fails yyin *)
(* for good.                                                                 *)
Feed(wanted) ==
  /\ fed' = IF wanted > Available THEN scan + Available
            ELSE IF scan + wanted > fed THEN scan + wanted ELSE fed
  /\ at' = at + (fed' - fed)
  /\ eof' = (eof \/ wanted > Available)

(* The longest match is taken.                                               *)
Match(rules) ==
  /\ phase = "yylex"
  /\ \E wanted \in {Wanted} : \E n \in Matches(wanted) :
       /\ \A k \in Matches(wanted) : k <= n
       /\ Rule(mode, Word(n)) \in rules
       /\ Feed(wanted)
       /\ scan' = scan + n
  /\ UNCHANGED <<text, failed, shown>>
Length == scan' - scan

Columns == col' = col + Length /\ UNCHANGED <<line, markers>>
tellg == IF eof' THEN -1 ELSE at'
Lines == line' = line + Length /\ col' = 1 /\ markers' = Append(markers, tellg)

(* Mutant: what is skipped does not count as columns.                        *)
SkipUncounted == /\ Match({"blank", "chunk", "other"})
                 /\ UNCHANGED <<line, col, markers, mode, phase, seen>>
Skip == /\ Match({"blank", "chunk", "other"}) /\ Columns /\ UNCHANGED <<mode, phase, seen>>
Open == /\ Match({"comment", "linecomment"}) /\ Columns /\ UNCHANGED <<phase, seen>>
        /\ mode' = IF Rule(mode, Word(Length)) = "comment" THEN "IN_COMMENT" ELSE "IN_LINECOMMENT"
Close == /\ Match({"close"}) /\ Columns /\ UNCHANGED <<phase, seen>>
         /\ mode' = "INITIAL"

(* Mutant: the lines of a comment are not counted.                           *)
NewlineUncounted ==
  /\ Match({"newline", "endline"}) /\ UNCHANGED <<phase, seen>>
  /\ IF mode = "IN_COMMENT" THEN Columns ELSE Lines
  /\ mode' = IF mode = "IN_LINECOMMENT" THEN "INITIAL" ELSE mode
Newline == /\ Match({"newline", "endline"}) /\ Lines /\ UNCHANGED <<phase, seen>>
           /\ mode' = IF mode = "IN_LINECOMMENT" THEN "INITIAL" ELSE mode

Token == /\ Match({"token"}) /\ Columns /\ UNCHANGED mode
         /\ phase' = "parser" /\ seen' = seen \cup {line}

EndOfFile == /\ phase = "yylex" /\ Matches(Wanted) = {} /\ Feed(Wanted)
             /\ phase' = "ended"
             /\ UNCHANGED <<text, failed, scan, mode, line, col, markers, seen, shown>>

yylex == phase = "parser" /\ phase' = "yylex" /\ shown' = None
         /\ UNCHANGED <<stream, fed, scan, mode, line, col, markers, seen>>
-----------------------------------------------------------------------------
(* Driver::error(err, loc): tellg, seekg to the line, getline, seekg back.   *)
(* getline reads up to a newline or the end and fails _in_stream for good if *)
(* no character is left; seekg undoes the end but not the failure, and on a  *)
(* failed stream none of the four does anything.                             *)
LineFrom(p) ==
  LET Stops == {q \in p .. Len(text) : q = Len(text) \/ text[q + 1] = "nl"}
  IN  SubSeq(text, p + 1, CHOOSE q \in Stops : \A r \in Stops : q <= r)

Report(l, mark, back) ==
  /\ shown' = [of |-> l, quoted |-> IF failed THEN <<>> ELSE LineFrom(mark)]
  /\ failed' = (failed \/ mark = Len(text))
  /\ at' = IF failed THEN at ELSE IF mark = Len(text) THEN mark ELSE back
  /\ UNCHANGED <<text, eof, fed, scan, mode, line, col, markers, seen>>

(* The parser reports at the locations of tokens it has got.                 *)
(* Mutants: the stream is left behind the line; the marker of the next line. *)
errorStays == \E l \in seen : /\ phase \in {"parser", "ended"} /\ UNCHANGED phase
                             /\ Report(l, markers[l], markers[l] + Len(LineFrom(markers[l])))
errorNextLine == \E l \in seen : /\ phase \in {"parser", "ended"} /\ UNCHANGED phase
                                /\ l + 1 \in DOMAIN markers /\ Report(l, markers[l + 1], at)
error == \E l \in seen : /\ phase \in {"parser", "ended"} /\ UNCHANGED phase
                        /\ Report(l, markers[l], at)

(* Or at the end of the file, whose line may have no characters.  The parser *)
(* gives up after that (RecoversInPlace of Parser).                          *)
errorAtEnd == phase = "ended" /\ phase' = "over" /\ Report(line, markers[line], at)

Ended == phase \in {"ended", "over"} /\ UNCHANGED vars

Next == Skip \/ Open \/ Close \/ Newline \/ Token \/ EndOfFile \/ yylex
        \/ error \/ errorAtEnd \/ Ended

Spec == Init /\ [][Next]_vars
-----------------------------------------------------------------------------
(* Properties                                                                *)

(* Where the lines of the input start, from the input alone.                 *)
Starts(n) == {0} \cup {i \in 1 .. n : text[i] = "nl"}
LineStart(l) == CHOOSE p \in Starts(Len(text)) : Cardinality(Starts(p)) = l

(* markers holds the start of every line begun and of no other, although     *)
(* tellg is asked after flex has read ahead: a newline is never followed by  *)
(* more characters in what flex has read and not matched.                    *)
MarkersAreLineStarts ==
  /\ Len(markers) = Cardinality(Starts(scan))
  /\ \A i \in DOMAIN markers : markers[i] = LineStart(i)

(* loc.end is the place of the last character matched, comments included.    *)
InPlace == line = Cardinality(Starts(scan)) /\ col = scan - LineStart(line) + 1

(* A report leaves the position they share where flex is: nothing is lexed   *)
(* twice, and the input does not end early.                                  *)
StreamIntact == at = fed

(* Every report quotes the line of its location (Driver.cpp:103), those made *)
(* after the end of the file was read too: the only one that can fail the    *)
(* stream is about an empty last line, and no other follows it.              *)
QuotesTheLine == shown # None => shown.quoted = LineFrom(LineStart(shown.of))

(* Comments are what they are in C, judged one character at a time.          *)
InComment[i \in Nat] ==
  IF i = 0 THEN "code"
  ELSE LET was == InComment[i - 1]
           c == text[i]
       IN CASE was = "line" -> IF c = "nl" THEN "code" ELSE "line"
            [] was = "star" /\ c = "/" -> "code"
            [] was = "block" \/ (was = "star" /\ c # "/") -> IF c = "*" THEN "star" ELSE "block"
            [] was = "slash" /\ c = "*" -> "block"
            [] was = "slash" /\ c = "/" -> "line"
            [] OTHER -> IF c = "/" THEN "slash" ELSE "code"
CommentsAgree == mode = CASE InComment[scan] \in {"code", "slash"} -> "INITIAL"
                          [] InComment[scan] \in {"block", "star"} -> "IN_COMMENT"
                          [] OTHER -> "IN_LINECOMMENT"
=============================================================================
