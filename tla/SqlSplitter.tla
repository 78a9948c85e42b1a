---------------------------- MODULE SqlSplitter ----------------------------
(***************************************************************************)
(* split_sql_statements (src/labdb/initialize.py), which cuts schema.sql   *)
(* and seed.sql into the statements that are executed one by one: a        *)
(* scanner with five states and a lookahead of two, and what it is for,    *)
(* said without a scanner.  A text is a sequence of characters.            *)
(***************************************************************************)
EXTENDS Naturals, Sequences, FiniteSetsExt

CONSTANTS
    Alphabet,  \* the characters of the texts
    Scripts    \* the texts

ASSUME SplitterAssumption ==
    "" \notin Alphabet /\ Scripts \subseteq Seq(Alphabet)

Newline   == "newline"
Backslash == "backslash"
Spaces == {" ", Newline}
Quotes == {"single", "double", "backtick"}

VARIABLES
    sql,         \* the text
    index,       \* the position of the next pass of the loop
    state,       \* "normal", "line", "block", or within which quotes
    buffer,      \* what has been read since the last cut
    statements,  \* the statements cut so far
    split        \* "pending", "done" or "refused" (InitializationError)

scanVars == <<sql, index, state, buffer, statements, split>>

ScanInit ==
    /\ sql \in Scripts
    /\ index = 1 /\ state = "normal"
    /\ buffer = <<>> /\ statements = <<>> /\ split = "pending"

-----------------------------------------------------------------------------
(* The character at a position, "" if there is none. *)
CharAt(s, i) == IF i \in 1 .. Len(s) THEN s[i] ELSE ""

(* "--" begins a comment only before white space or at the end. *)
DashesAt(s, i) ==
    /\ CharAt(s, i) = "-" /\ CharAt(s, i + 1) = "-"
    /\ CharAt(s, i + 2) \in Spaces \cup {""}

BlockAt(s, i) == CharAt(s, i) = "/" /\ CharAt(s, i + 1) = "*"

SemicolonAt(s, i) == CharAt(s, i) = ";"

(* str.strip *)
Trim(s) ==
    LET kept == {i \in DOMAIN s : s[i] \notin Spaces}
    IN IF kept = {} THEN <<>> ELSE SubSeq(s, Min(kept), Max(kept))

(* What the buffer holds becomes a statement unless it is blank. *)
Statement ==
    statements' = IF Trim(buffer) = <<>> THEN statements
                  ELSE Append(statements, Trim(buffer))

-----------------------------------------------------------------------------
(* The passes of the loop. *)

Char == CharAt(sql, index)
Following == CharAt(sql, index + 1)

Reads(states) == index <= Len(sql) /\ state \in states

(* n characters join the buffer. *)
Take(n, next) ==
    /\ buffer' = buffer \o SubSeq(sql, index, index + n - 1)
    /\ index' = index + n
    /\ state' = next
    /\ UNCHANGED <<sql, statements, split>>

OpenQuote == Reads({"normal"}) /\ Char \in Quotes /\ Take(1, Char)

OpenLine ==
    /\ Reads({"normal"})
    /\ \/ Char = "#" /\ Take(1, "line")
       \/ DashesAt(sql, index) /\ Take(2, "line")

OpenBlock == Reads({"normal"}) /\ BlockAt(sql, index) /\ Take(2, "block")

Cut ==
    /\ Reads({"normal"}) /\ Char = ";"
    /\ Statement /\ buffer' = <<>> /\ index' = index + 1
    /\ UNCHANGED <<sql, state, split>>

(* Mutant: backslashes escape in identifiers, too. *)
EscapesAnywhere == state \in Quotes /\ Char = Backslash /\ Following # ""

Escapes ==
    state \in {"single", "double"} /\ Char = Backslash /\ Following # ""

Escape == Reads(Quotes) /\ Escapes /\ Take(2, state)

(* A quote that is doubled does not close. *)
Quote ==
    /\ Reads(Quotes) /\ Char = state
    /\ IF Following = state THEN Take(2, state) ELSE Take(1, "normal")

CloseLine == Reads({"line"}) /\ Char = Newline /\ Take(1, "normal")

CloseBlock ==
    Reads({"block"}) /\ Char = "*" /\ Following = "/" /\ Take(2, "normal")

Plain ==
    /\ \/ /\ Reads({"normal"}) /\ Char \notin Quotes \cup {"#", ";"}
          /\ ~DashesAt(sql, index) /\ ~BlockAt(sql, index)
       \/ Reads(Quotes) /\ Char # state /\ ~Escapes
       \/ Reads({"line"}) /\ Char # Newline
       \/ Reads({"block"}) /\ ~(Char = "*" /\ Following = "/")
    /\ Take(1, state)

Return ==
    /\ index > Len(sql) /\ split = "pending"
    /\ IF state \in Quotes \cup {"block"}
       THEN split' = "refused" /\ UNCHANGED statements
       ELSE split' = "done" /\ Statement
    /\ UNCHANGED <<sql, index, state, buffer>>

ScanNext ==
    \/ OpenQuote \/ OpenLine \/ OpenBlock \/ Cut \/ Escape \/ Quote
    \/ CloseLine \/ CloseBlock \/ Plain \/ Return

ScanSpec == ScanInit /\ [][ScanNext]_scanVars

-----------------------------------------------------------------------------
(* The meaning, by positions. *)

(* After m, which begins a quoted text at i or is within it, there are     *)
(* only backslashes before j.                                              *)
RunAfter(s, i, m, j) ==
    /\ m = i \/ s[m] # Backslash
    /\ \A k \in m + 1 .. j - 1 : s[k] = Backslash

(* A character is escaped if the run of backslashes before it is odd. *)
Escaped(s, i, j) ==
    \E m \in i .. j - 1 : RunAfter(s, i, m, j) /\ (j - 1 - m) % 2 = 1

LineAt(s, i) == s[i] = "#" \/ DashesAt(s, i)

(* What begins at i can end at j. *)
Closes(s, i, j) ==
    /\ s[i] \in Quotes =>
         j > i /\ s[j] = s[i] /\ (s[i] = "backtick" \/ ~Escaped(s, i, j))
    /\ LineAt(s, i) => s[j] = Newline \/ j = Len(s)
    /\ BlockAt(s, i) => j >= i + 3 /\ s[j] = "/" /\ s[j - 1] = "*"
    /\ s[i] \in Quotes \/ LineAt(s, i) \/ BlockAt(s, i) \/ j = i

(* The quoted text, the comment or the other character that begins at i    *)
(* ends at e.  Quotes doubled end one text and begin another.              *)
Ends(s, i, e) == Closes(s, i, e) /\ \A j \in i .. e - 1 : ~Closes(s, i, j)

(* Where they begin: at the first character, and after the end of one;     *)
(* the last of these places is after the text.                             *)
Chains(s) ==
    LET follows == {p \in (1 .. Len(s)) \X (1 .. Len(s)) :
                       p[1] <= p[2] /\ Ends(s, p[1], p[2])}
    IN {S \in SUBSET (1 .. Len(s) + 1) :
           1 \in S /\ \A p \in follows : p[1] \in S => p[2] + 1 \in S}

Starts(s) ==
    LET chains == Chains(s)
    IN {i \in 1 .. Len(s) + 1 : \A S \in chains : i \in S}

Terminated(s, starts) ==
    \A i \in starts \ {Len(s) + 1} : \E e \in i .. Len(s) : Ends(s, i, e)

(* The pieces end at the semicolons that no quoted text and no comment     *)
(* holds, and at the end of the text.                                      *)
Cuts(s, starts) == {i \in starts : SemicolonAt(s, i)} \cup {Len(s) + 1}

Piece(s, cuts, e) ==
    LET from == Max({0} \cup {i \in cuts : i < e})
    IN Trim(SubSeq(s, from + 1, e - 1))

(* A list has the pieces that are not blank, in order. *)
Lists(list, s, cuts) ==
    LET kept == {e \in cuts : Piece(s, cuts, e) # <<>>}
    IN /\ Len(list) = Cardinality(kept)
       /\ \A e \in kept :
            list[Cardinality({f \in kept : f <= e})] = Piece(s, cuts, e)

-----------------------------------------------------------------------------
(* The scanner cuts at the semicolons outside quoted texts and comments,   *)
(* and nowhere else, loses no character but blanks around a statement, and *)
(* refuses a text with an unterminated quote or block comment, whatever is *)
(* doubled, escaped or looks like another's delimiter                      *)
(* (initialize.py:62-130).                                                 *)
CutsWhereMeant ==
    split # "pending" =>
        LET starts == Starts(sql)
        IN IF Terminated(sql, starts)
           THEN split = "done" /\ Lists(statements, sql, Cuts(sql, starts))
           ELSE split = "refused"

-----------------------------------------------------------------------------
(* The inductive invariant: how far the scanner is. *)

(* What begins before i ends before i. *)
Whole(s, i) ==
    \A k \in Starts(s) : k < i => \E e \in k .. i - 1 : Ends(s, k, e)

(* Where the scanner is within what begins at i: it has not ended yet. *)
Within(i) ==
    /\ state = "normal" => i = index
    /\ state \in Quotes =>
         /\ i < index /\ sql[i] = state
         /\ \A j \in i .. index - 1 : ~Closes(sql, i, j)
         /\ state # "backtick" /\ index <= Len(sql) =>
              \E m \in i .. index - 1 :
                  RunAfter(sql, i, m, index) /\ (index - 1 - m) % 2 = 0
    /\ state = "line" =>
         /\ i < index /\ LineAt(sql, i)
         /\ \A j \in i .. index - 1 : sql[j] # Newline
    /\ state = "block" =>
         /\ i + 2 <= index /\ BlockAt(sql, i)
         /\ \A j \in i .. index : j <= Len(sql) => ~Closes(sql, i, j)

Scanning == \E i \in Starts(sql) : Whole(sql, i) /\ Within(i)

CutsSoFar == {i \in Starts(sql) : i < index /\ SemicolonAt(sql, i)}

(* The statements are those of the cuts so far, the buffer what follows. *)
Gathered ==
    /\ Lists(statements, sql, CutsSoFar)
    /\ \E from \in {0} \cup CutsSoFar :
         /\ \A i \in CutsSoFar : i <= from
         /\ buffer = SubSeq(sql, from + 1, index - 1)

SplitTypes ==
    /\ sql \in Seq(Alphabet) /\ index \in 1 .. Len(sql) + 1
    /\ state \in {"normal", "line", "block"} \cup Quotes
    /\ statements \in Seq({statements[k] : k \in 1 .. Len(statements)})
    /\ split \in {"pending", "done", "refused"}

SplitInv ==
    /\ SplitTypes /\ CutsWhereMeant
    /\ IF split = "pending" THEN Scanning /\ Gathered ELSE index > Len(sql)
=============================================================================
