--------------------------- MODULE SplitterProof ---------------------------
(***************************************************************************)
(* split_sql_statements cuts any text, over any alphabet and of any        *)
(* length, where it is meant to be cut.                                    *)
(***************************************************************************)
EXTENDS SqlSplitter, FiniteSetTheorems, SequenceTheorems, TLAPS

(* A text has no empty character, so that "" says there is none. *)
LEMMA Characters ==
    ASSUME NEW s \in Seq(Alphabet), NEW i \in Int
    PROVE  /\ Len(s) \in Nat
           /\ i \in 1 .. Len(s) <=> CharAt(s, i) # ""
           /\ i \in 1 .. Len(s) => /\ CharAt(s, i) = s[i] /\ s[i] \in Alphabet
                                  /\ i <= Len(s)
<1>1. Len(s) \in Nat /\ (i \in 1 .. Len(s) => s[i] \in Alphabet)
    OBVIOUS
<1>2. "" \notin Alphabet
    BY SplitterAssumption
<1>3. i \in 1 .. Len(s) => i <= Len(s)
    BY <1>1
<1> QED
    BY <1>1, <1>2, <1>3 DEF CharAt

(* The starts are a chain, and the least one. *)
LEMMA StartsChain ==
    ASSUME NEW s \in Seq(Alphabet)
    PROVE  /\ 1 \in Starts(s) /\ Starts(s) \subseteq 1 .. Len(s) + 1
           /\ \A i \in Starts(s) : \A e \in i .. Len(s) :
                Ends(s, i, e) => e + 1 \in Starts(s)
<1> DEFINE all == 1 .. Len(s) + 1
           follows == {p \in (1 .. Len(s)) \X (1 .. Len(s)) :
                          p[1] <= p[2] /\ Ends(s, p[1], p[2])}
<1>1. Chains(s) = {S \in SUBSET all :
          1 \in S /\ \A p \in follows : p[1] \in S => p[2] + 1 \in S}
    BY DEF Chains
<1>2. Starts(s) = {i \in all : \A S \in Chains(s) : i \in S}
    BY DEF Starts
<1>3. Len(s) \in Nat
    OBVIOUS
<1>4. 1 \in Starts(s)
    BY <1>1, <1>2, <1>3
<1>5. ASSUME NEW i \in Starts(s), NEW e \in i .. Len(s), Ends(s, i, e)
      PROVE  e + 1 \in Starts(s)
    <2>1. i \in 1 .. Len(s) /\ e \in 1 .. Len(s) /\ i <= e /\ e + 1 \in all
        BY <1>2, <1>3
    <2>2. <<i, e>> \in follows
        BY <1>5, <2>1
    <2>3. ASSUME NEW S \in Chains(s) PROVE e + 1 \in S
        <3>1. i \in S
            BY <1>2
        <3>2. \A p \in follows : p[1] \in S => p[2] + 1 \in S
            BY <1>1
        <3> HIDE DEF follows
        <3> QED
            BY <2>2, <3>1, <3>2
    <2> QED
        BY <1>2, <2>1, <2>3
<1> QED
    BY <1>2, <1>4, <1>5

LEMMA StartsLeast ==
    ASSUME NEW s \in Seq(Alphabet), NEW T \in SUBSET (1 .. Len(s) + 1),
           1 \in T,
           \A i \in T : \A e \in i .. Len(s) : Ends(s, i, e) => e + 1 \in T
    PROVE  Starts(s) \subseteq T
<1> DEFINE follows == {p \in (1 .. Len(s)) \X (1 .. Len(s)) :
                          p[1] <= p[2] /\ Ends(s, p[1], p[2])}
<1>1. ASSUME NEW p \in follows, p[1] \in T PROVE p[2] + 1 \in T
    <2>1. p[2] \in p[1] .. Len(s) /\ Ends(s, p[1], p[2])
        BY Len(s) \in Nat
    <2> QED
        BY <1>1, <2>1
<1>2. T \in Chains(s)
    BY <1>1 DEF Chains
<1> QED
    BY <1>2 DEF Starts

-----------------------------------------------------------------------------
LEMMA EndsOnce ==
    ASSUME NEW s \in Seq(Alphabet), NEW i \in Int, NEW e \in Int, NEW f \in Int,
           i <= e, i <= f, Ends(s, i, e), Ends(s, i, f)
    PROVE  e = f
BY DEF Ends

(* When all that begins before i ends before it, nothing begins within     *)
(* what begins at i.                                                       *)
LEMMA NoneInside ==
    ASSUME NEW s \in Seq(Alphabet), NEW i \in Starts(s), Whole(s, i),
           NEW k \in Starts(s), k > i
    PROVE  \E e \in i .. k - 1 : Ends(s, i, e)
<1> DEFINE T == {j \in 1 .. Len(s) + 1 :
                    \/ j \in Starts(s) /\ j <= i
                    \/ \E e \in i .. j - 1 : Ends(s, i, e)}
<1>1. Len(s) \in Nat /\ Starts(s) \subseteq 1 .. Len(s) + 1 /\ 1 \in Starts(s)
    BY StartsChain
<1>2. 1 \in T
    BY <1>1
<1>3. ASSUME NEW j \in T, NEW e \in j .. Len(s), Ends(s, j, e)
      PROVE  e + 1 \in T
    <2>1. e \in Int /\ e + 1 \in 1 .. Len(s) + 1 /\ j <= e /\ j \in Int /\ i \in Int
        BY <1>1
    <2>2. CASE j \in Starts(s) /\ j < i
        <3>1. PICK f \in j .. i - 1 : Ends(s, j, f)
            BY <2>2 DEF Whole
        <3>2. e = f
            BY <1>3, <2>1, <3>1, EndsOnce
        <3>3. e + 1 \in Starts(s)
            BY <1>3, <2>2, StartsChain
        <3> QED
            BY <2>1, <3>1, <3>2, <3>3
    <2>3. CASE j = i
        <3>1. e \in i .. (e + 1) - 1 /\ Ends(s, i, e)
            BY <1>3, <2>1, <2>3
        <3> QED
            BY <2>1, <3>1
    <2>4. CASE \E f \in i .. j - 1 : Ends(s, i, f)
        <3>1. PICK f \in i .. j - 1 : Ends(s, i, f)
            BY <2>4
        <3>2. f \in i .. (e + 1) - 1
            BY <2>1
        <3> QED
            BY <2>1, <3>1, <3>2
    <2> QED
        BY <1>1, <2>1, <2>2, <2>3, <2>4
<1>4. Starts(s) \subseteq T
    <2> HIDE DEF T
    <2>1. T \in SUBSET (1 .. Len(s) + 1)
        BY DEF T
    <2> QED
        BY <1>2, <1>3, <2>1, StartsLeast
<1> QED
    BY <1>1, <1>4

(* What begins at i ends at e, and e + 1 is the next start. *)
LEMMA NextStart ==
    ASSUME NEW s \in Seq(Alphabet), NEW i \in Starts(s), Whole(s, i),
           NEW e \in i .. Len(s), Ends(s, i, e)
    PROVE  e + 1 \in Starts(s) /\ Whole(s, e + 1)
<1>1. Len(s) \in Nat /\ Starts(s) \subseteq 1 .. Len(s) + 1
    BY StartsChain
<1>2. e + 1 \in Starts(s)
    BY StartsChain
<1>3. ASSUME NEW k \in Starts(s), k < e + 1
      PROVE  \E f \in k .. e : Ends(s, k, f)
    <2>1. k \in Int /\ i \in Int /\ e \in Int
        BY <1>1
    <2>2. CASE k < i
        <3>1. PICK f \in k .. i - 1 : Ends(s, k, f)
            BY <2>2 DEF Whole
        <3> QED
            BY <2>1, <3>1
    <2>3. CASE k = i
        BY <2>1, <2>3
    <2>4. CASE k > i
        <3>1. PICK f \in i .. k - 1 : Ends(s, i, f)
            BY <2>4, NoneInside
        <3>2. f = e
            BY <2>1, <3>1, EndsOnce
        <3> QED
            BY <1>3, <2>1, <3>1, <3>2
    <2> QED
        BY <2>1, <2>2, <2>3, <2>4
<1>4. e = (e + 1) - 1
    BY <1>1
<1> QED
    BY <1>2, <1>3, <1>4 DEF Whole

-----------------------------------------------------------------------------
(* A later cut changes no earlier piece. *)
LEMMA PiecesStay ==
    ASSUME NEW s, NEW cuts \in SUBSET Nat, NEW e \in Nat, \A i \in cuts : i < e,
           NEW f \in cuts
    PROVE  Piece(s, cuts \cup {e}, f) = Piece(s, cuts, f)
<1>1. {i \in cuts \cup {e} : i < f} = {i \in cuts : i < f}
    OBVIOUS
<1> QED
    BY <1>1 DEF Piece

LEMMA LastPiece ==
    ASSUME NEW s, NEW cuts \in SUBSET Nat, NEW e \in Nat, \A i \in cuts : i < e,
           NEW from \in {0} \cup cuts, \A i \in cuts : i <= from
    PROVE  Piece(s, cuts \cup {e}, e) = Trim(SubSeq(s, from + 1, e - 1))
<1>1. {i \in cuts \cup {e} : i < e} = cuts
    <2>1. ~(e < e) /\ \A i \in cuts : i < e
        OBVIOUS
    <2> QED
        BY <2>1, Zenon
<1>2. /\ from \in {0} \cup cuts /\ \A y \in {0} \cup cuts : from >= y
      /\ \A x \in {0} \cup cuts :
           (\A y \in {0} \cup cuts : x >= y) => x = from
    OBVIOUS
<1>3. Max({0} \cup cuts) = from
    BY <1>2 DEF Max
<1> QED
    BY <1>1, <1>3 DEF Piece

(* What follows the last of the cuts joins the list of their pieces.       *)
LEMMA ListsNext ==
    ASSUME NEW s, NEW cuts \in SUBSET Nat, IsFiniteSet(cuts),
           NEW e \in Nat, \A i \in cuts : i < e,
           NEW S, NEW list \in Seq(S), Lists(list, s, cuts),
           NEW piece \in S, piece = Piece(s, cuts \cup {e}, e)
    PROVE  Lists(IF piece = <<>> THEN list ELSE Append(list, piece),
                 s, cuts \cup {e})
<1> DEFINE kept == {f \in cuts : Piece(s, cuts, f) # <<>>}
           all  == cuts \cup {e}
           now  == {f \in all : Piece(s, all, f) # <<>>}
<1>1. /\ Len(list) = Cardinality(kept)
      /\ \A f \in kept : list[Cardinality({g \in kept : g <= f})]
                             = Piece(s, cuts, f)
    BY DEF Lists
<1>2. \A f \in cuts : Piece(s, all, f) = Piece(s, cuts, f)
    BY PiecesStay
<1>3. CASE piece = <<>>
    <2>1. now = kept
        BY <1>2, <1>3
    <2> QED
        BY <1>1, <1>2, <1>3, <2>1 DEF Lists
<1>4. CASE piece # <<>>
    <2>1. now = kept \cup {e} /\ e \notin kept
        <3>1. e \notin cuts
            OBVIOUS
        <3>2. Piece(s, all, e) # <<>>
            BY <1>4
        <3>3. \A f \in cuts : f \in now <=> f \in kept
            BY <1>2
        <3>4. now \subseteq all /\ kept \subseteq cuts /\ e \in now
            BY <3>2
        <3> HIDE DEF now, kept
        <3> QED
            BY <3>1, <3>3, <3>4
    <2>2. IsFiniteSet(kept) /\ Cardinality(kept) \in Nat
        <3>1. kept \subseteq cuts
            OBVIOUS
        <3> HIDE DEF kept
        <3> QED
            BY <3>1, FS_Subset, FS_CardinalityType
    <2>3. Cardinality(now) = Cardinality(kept) + 1
        <3> HIDE DEF kept, now
        <3> QED
            BY <2>1, <2>2, FS_AddElement
    <2>4. /\ Len(Append(list, piece)) = Len(list) + 1
          /\ Append(list, piece)[Len(list) + 1] = piece
          /\ \A k \in 1 .. Len(list) : Append(list, piece)[k] = list[k]
        OBVIOUS
    <2> HIDE DEF now
    <2>5. {g \in now : g <= e} = now
        <3>1. \A g \in now : g <= e
            BY <2>1
        <3> QED
            BY <3>1, Zenon
    <2>6. ASSUME NEW f \in kept
          PROVE  /\ {g \in now : g <= f} = {g \in kept : g <= f}
                 /\ Cardinality({g \in kept : g <= f}) \in 1 .. Len(list)
        <3> DEFINE upTo == {g \in kept : g <= f}
        <3>1. {g \in now : g <= f} = upTo
            <4>1. ~(e <= f)
                OBVIOUS
            <4> HIDE DEF kept
            <4> QED
                BY <2>1, <4>1, Zenon
        <3>2. upTo \subseteq kept /\ f \in upTo
            OBVIOUS
        <3>3. IsFiniteSet(upTo) /\ Cardinality(upTo) <= Cardinality(kept)
            <4> HIDE DEF upTo, kept
            <4> QED
                BY <2>2, <3>2, FS_Subset
        <3>4. Cardinality(upTo) \in Nat /\ Cardinality(upTo) # 0
            <4> HIDE DEF upTo
            <4> QED
                BY <3>2, <3>3, FS_CardinalityType, FS_EmptySet
        <3> QED
            <4>1. Cardinality(upTo) \in 1 .. Len(list)
                <5> HIDE DEF upTo
                <5> QED
                    BY <1>1, <2>2, <3>3, <3>4
            <4> QED
                BY <3>1, <4>1
    <2>7. ASSUME NEW f \in now
          PROVE  Append(list, piece)[Cardinality({g \in now : g <= f})]
                     = Piece(s, all, f)
        <3>1. CASE f = e
            BY <1>1, <2>3, <2>4, <2>5, <3>1
        <3>2. CASE f \in kept
            BY <1>1, <1>2, <2>4, <2>6, <3>2
        <3> QED
            BY <2>1, <3>1, <3>2
    <2> QED
        BY <1>1, <1>4, <2>3, <2>4, <2>7 DEF Lists, now
<1> QED
    BY <1>3, <1>4

LEMMA ListsAppend ==
    ASSUME NEW list, list \in Seq({list[k] : k \in 1 .. Len(list)}),
           NEW piece, NEW longer, longer = Append(list, piece)
    PROVE  longer \in Seq({longer[k] : k \in 1 .. Len(longer)})
<1> DEFINE S == {list[k] : k \in 1 .. Len(list)} \cup {piece}
           T == {longer[k] : k \in 1 .. Len(longer)}
<1>1. list \in Seq(S)
    BY SeqMonotonic
<1>2. piece \in S
    OBVIOUS
<1>3. /\ longer \in Seq(S) /\ Len(longer) = Len(list) + 1 /\ Len(list) \in Nat
      /\ \A k \in 1 .. Len(list) : longer[k] = list[k]
      /\ longer[Len(list) + 1] = piece
    <2> HIDE DEF S
    <2> QED
        BY <1>1, <1>2, AppendProperties, LenProperties
<1>4. \A x \in S : x \in T
    BY <1>3
<1> HIDE DEF S, T
<1> QED
    BY <1>3, <1>4, SeqMonotonic DEF T

-----------------------------------------------------------------------------
LEMMA ScanBegins == ScanInit => SplitInv
<1> SUFFICES ASSUME ScanInit PROVE SplitInv
    OBVIOUS
<1>1. sql \in Seq(Alphabet) /\ Len(sql) \in Nat
    <2>1. sql \in Seq(Alphabet)
        BY SplitterAssumption, Zenon DEF ScanInit
    <2> QED
        BY <2>1
<1>2. 1 \in Starts(sql) /\ Starts(sql) \subseteq 1 .. Len(sql) + 1
    BY <1>1, StartsChain
<1>3. SplitTypes /\ CutsWhereMeant
    BY <1>1 DEF SplitTypes, CutsWhereMeant, ScanInit
<1>4. Scanning
    <2>1. Whole(sql, 1)
        BY <1>2 DEF Whole
    <2>2. Within(1)
        BY DEF Within, ScanInit, Quotes
    <2> QED
        BY <1>2, <2>1, <2>2 DEF Scanning
<1>5. Gathered
    <2>1. CutsSoFar = {}
        <3>1. \A i \in Starts(sql) : ~(i < index)
            BY <1>1, <1>2 DEF ScanInit
        <3> QED
            BY <3>1, Zenon DEF CutsSoFar
    <2>2. Lists(<<>>, sql, {})
        BY FS_EmptySet DEF Lists
    <2>3. SubSeq(sql, 0 + 1, 1 - 1) = <<>>
        BY <1>1, SubSeqEmpty
    <2> QED
        BY <2>1, <2>2, <2>3 DEF Gathered, ScanInit
<1> QED
    BY <1>3, <1>4, <1>5 DEF SplitInv, ScanInit

IsCut(k) == k \in Starts(sql) /\ SemicolonAt(sql, k)

(* What is taken joins the buffer, if it holds no cut. *)
LEMMA TakeGathers ==
    ASSUME SplitTypes, Gathered, split = "pending",
           NEW n \in Nat, index + n <= Len(sql) + 1,
           NEW next \in {"normal", "line", "block"} \cup Quotes, Take(n, next),
           \A k \in index .. index + n - 1 : ~IsCut(k)
    PROVE  SplitTypes' /\ CutsWhereMeant' /\ Gathered'
<1>1. sql \in Seq(Alphabet) /\ Len(sql) \in Nat /\ index \in 1 .. Len(sql) + 1
    BY DEF SplitTypes
<1>2. /\ sql' = sql /\ index' = index + n /\ state' = next
      /\ statements' = statements /\ split' = "pending"
      /\ buffer' = buffer \o SubSeq(sql, index, index + n - 1)
    BY DEF Take
<1>3. SplitTypes' /\ CutsWhereMeant'
    BY <1>1, <1>2 DEF SplitTypes, CutsWhereMeant
<1>4. Starts(sql) \subseteq 1 .. Len(sql) + 1
    BY <1>1, StartsChain
<1>5. CutsSoFar' = CutsSoFar
    <2>1. ASSUME NEW k \in Starts(sql), k < index + n, SemicolonAt(sql, k)
          PROVE  k < index
        <3>1. k \in Int /\ IsCut(k)
            BY <1>1, <1>4, <2>1 DEF IsCut
        <3> QED
            BY <1>1, <2>1, <3>1
    <2>2. \A k \in Starts(sql) : k < index => k < index + n
        BY <1>1, <1>4
    <2>3. CutsSoFar' = {k \in Starts(sql) : k < index + n /\ SemicolonAt(sql, k)}
        BY <1>2 DEF CutsSoFar
    <2>4. \A k \in Starts(sql) : k < index + n /\ SemicolonAt(sql, k)
              <=> k < index /\ SemicolonAt(sql, k)
        BY <2>1, <2>2
    <2> QED
        BY <2>3, <2>4, Zenon DEF CutsSoFar
<1>6. PICK from \in {0} \cup CutsSoFar :
          (\A i \in CutsSoFar : i <= from) /\ buffer = SubSeq(sql, from + 1, index - 1)
    BY DEF Gathered
<1>7. from \in 0 .. index - 1
    BY <1>1, <1>4 DEF CutsSoFar
<1>8. SubSeq(sql, from + 1, index - 1) \o SubSeq(sql, index, index + n - 1)
          = SubSeq(sql, from + 1, index + n - 1)
    <2>1. /\ from + 1 \in 1 .. Len(sql) + 1
          /\ index - 1 \in (from + 1) - 1 .. Len(sql)
          /\ index + n - 1 \in index - 1 .. Len(sql)
        BY <1>1, <1>7
    <2> QED
        <3>1. SubSeq(sql, from + 1, index - 1)
                  \o SubSeq(sql, (index - 1) + 1, index + n - 1)
                  = SubSeq(sql, from + 1, index + n - 1)
            BY <1>1, <2>1, ConcatAdjacentSubSeq
        <3>2. (index - 1) + 1 = index
            BY <1>1
        <3> QED
            BY <3>1, <3>2, Zenon
<1>9. buffer' = SubSeq(sql, from + 1, index + n - 1)
    BY <1>2, <1>6, <1>8, Zenon
<1>10. buffer' = SubSeq(sql', from + 1, index' - 1)
    <2>1. sql' = sql /\ index' - 1 = index + n - 1
        BY <1>1, <1>2
    <2> QED
        BY <1>9, <2>1, Zenon
<1>11. Lists(statements', sql', CutsSoFar')
    BY <1>2, <1>5 DEF Gathered
<1> QED
    BY <1>3, <1>5, <1>6, <1>10, <1>11 DEF Gathered

-----------------------------------------------------------------------------
(* What can end the four kinds of things that begin at i. *)
LEMMA ClosesBy ==
    ASSUME NEW s \in Seq(Alphabet), NEW i \in 1 .. Len(s), NEW j \in Int
    PROVE  /\ s[i] \in Quotes =>
                (Closes(s, i, j) <=> /\ j > i /\ s[j] = s[i]
                                     /\ s[i] = "backtick" \/ ~Escaped(s, i, j))
           /\ LineAt(s, i) => (Closes(s, i, j) <=> s[j] = Newline \/ j = Len(s))
           /\ BlockAt(s, i) =>
                (Closes(s, i, j) <=> j >= i + 3 /\ s[j] = "/" /\ s[j - 1] = "*")
           /\ (s[i] \notin Quotes /\ ~LineAt(s, i) /\ ~BlockAt(s, i))
                => (Closes(s, i, j) <=> j = i)
<1>1. CharAt(s, i) = s[i]
    BY DEF CharAt
<1>2. /\ s[i] \in Quotes => ~LineAt(s, i) /\ ~BlockAt(s, i)
      /\ ~(LineAt(s, i) /\ BlockAt(s, i))
    BY <1>1 DEF Quotes, DashesAt, BlockAt, LineAt
<1> QED
    BY <1>2 DEF Closes

LEMMA RunsAgree ==
    ASSUME NEW s, NEW i \in Int, NEW j \in Int,
           NEW m \in i .. j - 1, NEW n \in i .. j - 1,
           RunAfter(s, i, m, j), RunAfter(s, i, n, j)
    PROVE  m = n
<1>1. CASE m < n
    BY <1>1 DEF RunAfter
<1>2. CASE n < m
    BY <1>2 DEF RunAfter
<1> QED
    BY <1>1, <1>2

(* After an even run nothing is escaped. *)
LEMMA EvenRun ==
    ASSUME NEW s, NEW i \in Int, NEW j \in Int, NEW m \in i .. j - 1,
           RunAfter(s, i, m, j), (j - 1 - m) % 2 = 0
    PROVE  ~Escaped(s, i, j)
<1> SUFFICES ASSUME NEW n \in i .. j - 1, RunAfter(s, i, n, j),
                    (j - 1 - n) % 2 = 1
             PROVE  FALSE
    BY DEF Escaped
<1> QED
    BY RunsAgree

(* A cut is no place within what begins at i. *)
LEMMA NoCutInside ==
    ASSUME SplitTypes, NEW i \in Starts(sql), Whole(sql, i), NEW k \in Int, i < k,
           \A j \in i .. k - 1 : ~Closes(sql, i, j)
    PROVE  ~IsCut(k)
<1>1. sql \in Seq(Alphabet)
    BY DEF SplitTypes
<1>2. ASSUME k \in Starts(sql) PROVE FALSE
    <2>1. PICK e \in i .. k - 1 : Ends(sql, i, e)
        BY <1>1, <1>2, NoneInside
    <2> QED
        BY <2>1 DEF Ends
<1> QED
    BY <1>2 DEF IsCut

(* A pass that takes n characters, none of them a cut, is right if it      *)
(* leaves the scanner within something that begins at a start.             *)
LEMMA TakeKeeps ==
    ASSUME SplitInv, index <= Len(sql), NEW n \in {1, 2},
           index + n <= Len(sql) + 1,
           NEW next \in {"normal", "line", "block"} \cup Quotes, Take(n, next),
           \A k \in index .. index + n - 1 : ~IsCut(k),
           NEW i \in Starts(sql), Whole(sql, i), Within(i)'
    PROVE  SplitInv'
<1>1. SplitTypes /\ Len(sql) \in Nat /\ index \in Int
    BY DEF SplitInv, SplitTypes
<1>2. split = "pending"
    BY <1>1 DEF SplitInv
<1>3. SplitTypes' /\ CutsWhereMeant' /\ Gathered'
    BY <1>1, <1>2, TakeGathers DEF SplitInv
<1>4. sql' = sql /\ split' = split
    BY DEF Take
<1>5. Scanning'
    BY <1>4 DEF Scanning
<1> QED
    BY <1>2, <1>3, <1>4, <1>5 DEF SplitInv

-----------------------------------------------------------------------------
(* The passes. *)

LEMMA Position ==
    ASSUME SplitInv, index <= Len(sql)
    PROVE  /\ sql \in Seq(Alphabet) /\ Len(sql) \in Nat /\ index \in 1 .. Len(sql)
           /\ Starts(sql) \subseteq 1 .. Len(sql) + 1
           /\ Char = sql[index] /\ SplitTypes /\ Scanning
<1>1. sql \in Seq(Alphabet) /\ Len(sql) \in Nat /\ index \in 1 .. Len(sql)
    BY DEF SplitInv, SplitTypes
<1>2. Starts(sql) \subseteq 1 .. Len(sql) + 1
    BY <1>1, StartsChain
<1>3. Char = sql[index]
    BY <1>1 DEF Char, CharAt
<1>4. Scanning /\ SplitTypes
    BY <1>1 DEF SplitInv
<1> QED
    BY <1>1, <1>2, <1>3, <1>4

LEMMA CutIsSemicolon ==
    ASSUME NEW k, IsCut(k) PROVE CharAt(sql, k) = ";"
BY DEF IsCut, SemicolonAt

(* A quoted text that begins at i, and is read up to what follows i. *)
LEMMA QuoteBegins ==
    ASSUME SplitTypes, NEW i \in 1 .. Len(sql), sql[i] \in Quotes,
           sql' = sql, index' = i + 1, state' = sql[i]
    PROVE  Within(i)'
<1>1. sql \in Seq(Alphabet) /\ Len(sql) \in Nat
    BY DEF SplitTypes
<1>2. state' # "normal" /\ state' # "line" /\ state' # "block"
    BY DEF Quotes
<1>3. \A j \in i .. i : ~Closes(sql, i, j)
    BY <1>1, ClosesBy
<1>4. RunAfter(sql, i, i, i + 1) /\ ((i + 1) - 1 - i) % 2 = 0
    BY <1>1 DEF RunAfter
<1>5. i \in i .. (i + 1) - 1 /\ i < i + 1 /\ (i + 1) - 1 = i
    BY <1>1
<1> QED
    BY <1>2, <1>3, <1>4, <1>5 DEF Within

LEMMA NoCutAt ==
    ASSUME NEW k,
           CharAt(sql, k) \in Quotes \cup {"#", "-", "/", "*", Newline, Backslash}
    PROVE  ~IsCut(k)
<1>1. CharAt(sql, k) # ";"
    BY DEF Quotes, Newline, Backslash
<1> QED
    BY <1>1, CutIsSemicolon, Zenon

LEMMA CharIs ==
    ASSUME NEW s \in Seq(Alphabet), NEW i \in Int, NEW c, CharAt(s, i) = c, c # ""
    PROVE  i \in 1 .. Len(s) /\ i <= Len(s) /\ s[i] = c
<1>1. CharAt(s, i) # ""
    OBVIOUS
<1> QED
    BY <1>1, Characters, Zenon

LEMMA TakeOne ==
    ASSUME SplitInv, index <= Len(sql), ~IsCut(index),
           NEW next \in {"normal", "line", "block"} \cup Quotes, Take(1, next),
           NEW i \in Starts(sql), Whole(sql, i), Within(i)'
    PROVE  SplitInv'
<1>1. Len(sql) \in Nat /\ index \in 1 .. Len(sql)
    BY Position
<1>2. \A k \in index .. index + 1 - 1 : ~IsCut(k)
    BY <1>1
<1> QED
    BY <1>1, <1>2, TakeKeeps

LEMMA TakeTwo ==
    ASSUME SplitInv, index <= Len(sql), ~IsCut(index),
           index + 1 <= Len(sql), ~IsCut(index + 1),
           NEW next \in {"normal", "line", "block"} \cup Quotes, Take(2, next),
           NEW i \in Starts(sql), Whole(sql, i), Within(i)'
    PROVE  SplitInv'
<1>1. sql \in Seq(Alphabet) /\ Len(sql) \in Nat /\ index \in 1 .. Len(sql)
    BY Position
<1>2. \A k \in index .. index + 2 - 1 : k = index \/ k = index + 1
    BY <1>1
<1>3. \A k \in index .. index + 2 - 1 : ~IsCut(k)
    BY <1>2
<1>4. index + 2 <= Len(sql) + 1
    BY <1>1
<1> QED
    BY <1>1, <1>3, <1>4, TakeKeeps

LEMMA OpenQuoteKeeps ==
    ASSUME SplitInv, OpenQuote PROVE SplitInv'
<1>1. index <= Len(sql) /\ state = "normal" /\ Char \in Quotes /\ Take(1, Char)
    BY DEF OpenQuote, Reads
<1>2. /\ sql \in Seq(Alphabet) /\ Len(sql) \in Nat /\ index \in 1 .. Len(sql)
      /\ Char = sql[index] /\ SplitTypes /\ Scanning
    BY <1>1, Position
<1>3. PICK i \in Starts(sql) : Whole(sql, i) /\ i = index
    BY <1>1, <1>2 DEF Scanning, Within
<1>4. sql' = sql /\ index' = i + 1 /\ state' = sql[i]
    BY <1>1, <1>2, <1>3 DEF Take
<1>5. Within(i)'
    BY <1>1, <1>2, <1>3, <1>4, QuoteBegins
<1>6. ~IsCut(index)
    BY <1>1, NoCutAt DEF Char
<1> QED
    BY <1>1, <1>3, <1>5, <1>6, TakeOne

LEMMA OpenLineKeeps ==
    ASSUME SplitInv, OpenLine PROVE SplitInv'
<1>1. index <= Len(sql) /\ state = "normal"
    BY DEF OpenLine, Reads
<1>2. /\ sql \in Seq(Alphabet) /\ Len(sql) \in Nat /\ index \in 1 .. Len(sql)
      /\ Char = sql[index] /\ SplitTypes /\ Scanning
    BY <1>1, Position
<1>3. PICK i \in Starts(sql) : Whole(sql, i) /\ i = index
    BY <1>1, <1>2 DEF Scanning, Within
<1>4. CASE Char = "#" /\ Take(1, "line")
    <2>1. sql' = sql /\ index' = i + 1 /\ state' = "line"
        BY <1>3, <1>4 DEF Take
    <2>2. sql[i] = "#" /\ \A j \in i .. (i + 1) - 1 : sql[j] # Newline
        <3>1. sql[i] = "#" /\ sql[i] # Newline
            BY <1>2, <1>3, <1>4, Zenon DEF Newline
        <3>2. \A j \in i .. (i + 1) - 1 : j = i
            BY <1>2, <1>3
        <3> QED
            BY <3>1, <3>2, Zenon
    <2>3. Within(i)'
        BY <1>2, <1>3, <2>1, <2>2 DEF Within, Quotes, LineAt
    <2>4. ~IsCut(index)
        BY <1>4, NoCutAt DEF Char
    <2> QED
        BY <1>1, <1>3, <1>4, <2>3, <2>4, TakeOne
<1>5. CASE DashesAt(sql, index) /\ Take(2, "line")
    <2>1. sql' = sql /\ index' = i + 2 /\ state' = "line"
        BY <1>3, <1>5 DEF Take
    <2>2. CharAt(sql, i) = "-" /\ CharAt(sql, i + 1) = "-"
        BY <1>3, <1>5 DEF DashesAt
    <2>3. sql[i] = "-" /\ sql[i + 1] = "-"
        <3>1. i \in Int /\ i + 1 \in Int /\ "-" # ""
            BY <1>2, <1>3
        <3> QED
            BY <1>2, <2>2, <3>1, CharIs, Zenon
    <2>4. \A j \in i .. (i + 2) - 1 : j = i \/ j = i + 1
        BY <1>2, <1>3
    <2>5. \A j \in i .. (i + 2) - 1 : sql[j] # Newline
        BY <2>3, <2>4 DEF Newline
    <2>6. Within(i)'
        BY <1>2, <1>3, <1>5, <2>1, <2>5 DEF Within, Quotes, LineAt
    <2>7. ~IsCut(index) /\ ~IsCut(index + 1)
        BY <1>3, <2>2, NoCutAt
    <2>8. i + 1 <= Len(sql)
        <3>1. i + 1 \in Int /\ "-" # ""
            BY <1>2, <1>3
        <3> QED
            BY <1>2, <2>2, <3>1, CharIs, Zenon
    <2> QED
        BY <1>1, <1>3, <1>5, <2>6, <2>7, <2>8, TakeTwo
<1> QED
    BY <1>4, <1>5 DEF OpenLine

LEMMA OpenBlockKeeps ==
    ASSUME SplitInv, OpenBlock PROVE SplitInv'
<1>1. /\ index <= Len(sql) /\ state = "normal"
      /\ BlockAt(sql, index) /\ Take(2, "block")
    BY DEF OpenBlock, Reads
<1>2. /\ sql \in Seq(Alphabet) /\ Len(sql) \in Nat /\ index \in 1 .. Len(sql)
      /\ SplitTypes /\ Scanning
    BY <1>1, Position
<1>3. PICK i \in Starts(sql) : Whole(sql, i) /\ i = index
    BY <1>1, <1>2 DEF Scanning, Within
<1>4. sql' = sql /\ index' = i + 2 /\ state' = "block"
    BY <1>1, <1>3 DEF Take
<1>5. CharAt(sql, index) = "/" /\ CharAt(sql, index + 1) = "*"
    BY <1>1 DEF BlockAt
<1>6. \A j \in i .. i + 2 : ~Closes(sql, i, j)
    BY <1>1, <1>2, <1>3, ClosesBy
<1>7. Within(i)'
    BY <1>1, <1>2, <1>3, <1>4, <1>6 DEF Within, Quotes
<1>8. ~IsCut(index) /\ ~IsCut(index + 1)
    BY <1>5, NoCutAt
<1>9. index + 1 <= Len(sql)
    <2>1. index + 1 \in Int /\ "*" # ""
        BY <1>2
    <2> QED
        BY <1>2, <1>5, <2>1, CharIs, Zenon
<1> QED
    BY <1>1, <1>3, <1>7, <1>8, <1>9, TakeTwo

(* After the end of what begins at i, the scanner is in the normal state.  *)
LEMMA AfterEnd ==
    ASSUME SplitTypes, NEW i \in Starts(sql), Whole(sql, i),
           NEW e \in i .. Len(sql), Ends(sql, i, e),
           sql' = sql, index' = e + 1, state' = "normal"
    PROVE  e + 1 \in Starts(sql) /\ Whole(sql, e + 1) /\ Within(e + 1)'
<1>1. e + 1 \in Starts(sql) /\ Whole(sql, e + 1)
    BY NextStart DEF SplitTypes
<1>2. Within(e + 1)'
    BY DEF Within, Quotes
<1> QED
    BY <1>1, <1>2

(* A character that begins nothing longer, and is no semicolon. *)
LEMMA PlainKeeps ==
    ASSUME SplitInv, Reads({"normal"}), sql[index] \notin Quotes,
           ~LineAt(sql, index), ~BlockAt(sql, index), ~IsCut(index), Take(1, state)
    PROVE  SplitInv'
<1>1. index <= Len(sql) /\ state = "normal"
    BY DEF Reads
<1>2. /\ sql \in Seq(Alphabet) /\ Len(sql) \in Nat /\ index \in 1 .. Len(sql)
      /\ SplitTypes /\ Scanning
    BY <1>1, Position
<1>3. PICK i \in Starts(sql) : Whole(sql, i) /\ i = index
    BY <1>1, <1>2 DEF Scanning, Within
<1>4. sql' = sql /\ index' = i + 1 /\ state' = "normal"
    BY <1>1, <1>3 DEF Take
<1>5. Ends(sql, i, i)
    <2>1. Closes(sql, i, i)
        BY <1>2, <1>3, ClosesBy
    <2> QED
        BY <1>2, <1>3, <2>1 DEF Ends
<1>6. i + 1 \in Starts(sql) /\ Whole(sql, i + 1) /\ Within(i + 1)'
    BY <1>2, <1>3, <1>4, <1>5, AfterEnd
<1> QED
    BY <1>1, <1>6, TakeOne

LEMMA PlainNormalKeeps ==
    ASSUME SplitInv, Reads({"normal"}), Char \notin Quotes \cup {"#", ";"},
           ~DashesAt(sql, index), ~BlockAt(sql, index), Take(1, state)
    PROVE  SplitInv'
<1>1. Char = sql[index]
    BY Position DEF Reads
<1>2. sql[index] \notin Quotes /\ ~LineAt(sql, index)
    BY <1>1, Zenon DEF LineAt
<1>3. ~IsCut(index)
    BY CutIsSemicolon, Zenon DEF Char
<1> QED
    BY <1>2, <1>3, PlainKeeps, Zenon

LEMMA CloseLineKeeps ==
    ASSUME SplitInv, CloseLine PROVE SplitInv'
<1>1. index <= Len(sql) /\ state = "line" /\ Char = Newline /\ Take(1, "normal")
    BY DEF CloseLine, Reads
<1>2. /\ sql \in Seq(Alphabet) /\ Len(sql) \in Nat /\ index \in 1 .. Len(sql)
      /\ Starts(sql) \subseteq 1 .. Len(sql) + 1
      /\ Char = sql[index] /\ SplitTypes /\ Scanning
    BY <1>1, Position
<1>3. PICK i \in Starts(sql) :
          /\ Whole(sql, i) /\ i < index /\ LineAt(sql, i)
          /\ \A j \in i .. index - 1 : sql[j] # Newline
    BY <1>1, <1>2 DEF Scanning, Within
<1>4. PICK e \in 1 .. Len(sql) : e = index
    BY <1>2
<1>5. sql' = sql /\ index' = e + 1 /\ state' = "normal"
    BY <1>1, <1>4 DEF Take
<1>6. i \in 1 .. Len(sql) /\ e \in i .. Len(sql)
    BY <1>2, <1>3, <1>4
<1>7. Ends(sql, i, e)
    <2>1. sql[e] = Newline
        BY <1>1, <1>2, <1>4, Zenon
    <2>2. Closes(sql, i, e)
        BY <1>2, <1>3, <1>6, <2>1, ClosesBy
    <2>3. ASSUME NEW j \in i .. e - 1 PROVE ~Closes(sql, i, j)
        <3>1. j \in Int /\ j # Len(sql) /\ j \in i .. index - 1
            BY <1>2, <1>4, <1>6
        <3>2. sql[j] # Newline
            BY <1>3, <3>1
        <3> QED
            BY <1>2, <1>3, <1>6, <3>1, <3>2, ClosesBy
    <2> QED
        BY <2>2, <2>3 DEF Ends
<1>8. e + 1 \in Starts(sql) /\ Whole(sql, e + 1) /\ Within(e + 1)'
    BY <1>2, <1>3, <1>5, <1>6, <1>7, AfterEnd
<1>9. ~IsCut(index)
    BY <1>1, NoCutAt DEF Char
<1> QED
    BY <1>1, <1>8, <1>9, TakeOne

LEMMA LineKeeps ==
    ASSUME SplitInv, Reads({"line"}), Char # Newline, Take(1, state)
    PROVE  SplitInv'
<1>1. index <= Len(sql) /\ state = "line"
    BY DEF Reads
<1>2. /\ sql \in Seq(Alphabet) /\ Len(sql) \in Nat /\ index \in 1 .. Len(sql)
      /\ Starts(sql) \subseteq 1 .. Len(sql) + 1
      /\ Char = sql[index] /\ SplitTypes /\ Scanning
    BY <1>1, Position
<1>3. PICK i \in Starts(sql) :
          /\ Whole(sql, i) /\ i < index /\ LineAt(sql, i)
          /\ \A j \in i .. index - 1 : sql[j] # Newline
    BY <1>1, <1>2 DEF Scanning, Within
<1>4. sql' = sql /\ index' = index + 1 /\ state' = "line"
    BY <1>1 DEF Take
<1>5. i \in 1 .. Len(sql)
    BY <1>2, <1>3
<1>6. \A j \in i .. (index + 1) - 1 : sql[j] # Newline
    <2>1. \A j \in i .. (index + 1) - 1 : j \in i .. index - 1 \/ j = index
        BY <1>2, <1>5
    <2> QED
        BY <1>2, <1>3, <2>1, Zenon
<1>7. Within(i)'
    <2>1. i < index + 1
        BY <1>2, <1>3, <1>5
    <2> QED
        BY <1>3, <1>4, <1>6, <2>1 DEF Within, Quotes
<1>8. ~IsCut(index)
    <2>1. ASSUME NEW j \in i .. index - 1 PROVE ~Closes(sql, i, j)
        <3>1. j \in Int /\ j # Len(sql)
            BY <1>2, <1>5
        <3>2. sql[j] # Newline
            BY <1>3, <2>1
        <3> QED
            BY <1>2, <1>3, <1>5, <3>1, <3>2, ClosesBy
    <2> QED
        BY <1>2, <1>3, <2>1, NoCutInside
<1> QED
    BY <1>1, <1>3, <1>7, <1>8, TakeOne

LEMMA CloseBlockKeeps ==
    ASSUME SplitInv, CloseBlock PROVE SplitInv'
<1>1. index <= Len(sql) /\ state = "block" /\ Take(2, "normal")
    BY DEF CloseBlock, Reads
<1>2. /\ sql \in Seq(Alphabet) /\ Len(sql) \in Nat /\ index \in 1 .. Len(sql)
      /\ Starts(sql) \subseteq 1 .. Len(sql) + 1
      /\ Char = sql[index] /\ SplitTypes /\ Scanning
    BY <1>1, Position
<1>3. PICK i \in Starts(sql) :
          /\ Whole(sql, i) /\ i + 2 <= index /\ BlockAt(sql, i)
          /\ \A j \in i .. index : j <= Len(sql) => ~Closes(sql, i, j)
    BY <1>1, <1>2 DEF Scanning, Within, Quotes
<1>4. index + 1 \in 1 .. Len(sql) /\ sql[index + 1] = "/" /\ sql[index] = "*"
    <2>1. index + 1 \in Int /\ "/" # ""
        BY <1>2
    <2> QED
        BY <1>2, <2>1, CharIs, Zenon DEF CloseBlock, Following
<1>5. PICK e \in 1 .. Len(sql) : e = index + 1
    BY <1>4
<1>6. sql' = sql /\ index' = e + 1 /\ state' = "normal"
    BY <1>1, <1>2, <1>5 DEF Take
<1>7. i \in 1 .. Len(sql) /\ e \in i .. Len(sql) /\ e >= i + 3 /\ e - 1 = index
    BY <1>2, <1>3, <1>5
<1>8. Ends(sql, i, e)
    <2>1. sql[e] = "/" /\ sql[e - 1] = "*"
        BY <1>4, <1>5, <1>7, Zenon
    <2>2. Closes(sql, i, e)
        BY <1>2, <1>3, <1>7, <2>1, ClosesBy
    <2>3. \A j \in i .. e - 1 : j <= Len(sql)
        BY <1>2, <1>7
    <2>4. \A j \in i .. e - 1 : ~Closes(sql, i, j)
        BY <1>3, <1>7, <2>3
    <2> QED
        BY <2>2, <2>4 DEF Ends
<1>9. e + 1 \in Starts(sql) /\ Whole(sql, e + 1) /\ Within(e + 1)'
    BY <1>2, <1>3, <1>6, <1>7, <1>8, AfterEnd
<1>10. ~IsCut(index) /\ ~IsCut(index + 1)
    BY NoCutAt DEF CloseBlock, Char, Following
<1>11. index + 1 <= Len(sql)
    BY <1>2, <1>4
<1> QED
    BY <1>1, <1>9, <1>10, <1>11, TakeTwo

LEMMA BlockKeeps ==
    ASSUME SplitInv, Reads({"block"}), ~(Char = "*" /\ Following = "/"),
           Take(1, state)
    PROVE  SplitInv'
<1>1. index <= Len(sql) /\ state = "block"
    BY DEF Reads
<1>2. /\ sql \in Seq(Alphabet) /\ Len(sql) \in Nat /\ index \in 1 .. Len(sql)
      /\ Starts(sql) \subseteq 1 .. Len(sql) + 1
      /\ Char = sql[index] /\ SplitTypes /\ Scanning
    BY <1>1, Position
<1>3. PICK i \in Starts(sql) :
          /\ Whole(sql, i) /\ i + 2 <= index /\ BlockAt(sql, i)
          /\ \A j \in i .. index : j <= Len(sql) => ~Closes(sql, i, j)
    BY <1>1, <1>2 DEF Scanning, Within, Quotes
<1>4. sql' = sql /\ index' = index + 1 /\ state' = "block"
    BY <1>1 DEF Take
<1>5. i \in 1 .. Len(sql)
    BY <1>2, <1>3
<1>6. ASSUME NEW j \in i .. index + 1, j <= Len(sql) PROVE ~Closes(sql, i, j)
    <2>1. CASE j \in i .. index
        BY <1>3, <1>6, <2>1
    <2>2. CASE j = index + 1
        <3>1. j \in 1 .. Len(sql) /\ j - 1 = index /\ j \in Int
            BY <1>2, <1>5, <1>6, <2>2
        <3>2. CharAt(sql, j) = sql[j]
            BY <1>2, <3>1, Characters
        <3>3. ~(sql[j] = "/" /\ sql[j - 1] = "*")
            BY <1>2, <2>2, <3>1, <3>2, Zenon DEF Following
        <3> QED
            BY <1>2, <1>3, <1>5, <3>1, <3>3, ClosesBy
    <2> QED
        BY <1>2, <1>5, <2>1, <2>2
<1>7. Within(i)'
    <2>1. i + 2 <= index + 1
        BY <1>2, <1>3, <1>5
    <2> QED
        BY <1>3, <1>4, <1>6, <2>1 DEF Within, Quotes
<1>8. ~IsCut(index)
    <2>1. \A j \in i .. index - 1 : ~Closes(sql, i, j)
        BY <1>2, <1>3, <1>5
    <2>2. i < index /\ index \in Int
        BY <1>2, <1>3, <1>5
    <2> QED
        BY <1>2, <1>3, <2>1, <2>2, NoCutInside
<1> QED
    BY <1>1, <1>3, <1>7, <1>8, TakeOne

-----------------------------------------------------------------------------
(* Within a quoted text. *)

LEMMA QuotePosition ==
    ASSUME SplitInv, Reads(Quotes)
    PROVE  \E i \in Starts(sql) :
              /\ Whole(sql, i) /\ i \in 1 .. Len(sql) /\ i < index
              /\ sql[i] = state /\ state \in Quotes
              /\ \A j \in i .. index - 1 : ~Closes(sql, i, j)
              /\ state # "backtick" =>
                   \E m \in i .. index - 1 :
                       RunAfter(sql, i, m, index) /\ (index - 1 - m) % 2 = 0
<1>1. index <= Len(sql) /\ state \in Quotes
    BY DEF Reads
<1>2. /\ Len(sql) \in Nat /\ index \in 1 .. Len(sql)
      /\ Starts(sql) \subseteq 1 .. Len(sql) + 1 /\ Scanning
    BY <1>1, Position
<1>3. PICK i \in Starts(sql) : Whole(sql, i) /\ Within(i)
    BY <1>2 DEF Scanning
<1>4. i < index
    BY <1>1, <1>3 DEF Within
<1>5. i \in 1 .. Len(sql)
    BY <1>2, <1>4
<1> QED
    BY <1>1, <1>3, <1>4, <1>5 DEF Within

LEMMA WithinQuote ==
    ASSUME NEW i, sql' = sql, state' = state, state \in Quotes,
           sql[i] = state, i < index',
           \A j \in i .. index' - 1 : ~Closes(sql, i, j),
           (state # "backtick" /\ index' <= Len(sql)) =>
               \E m \in i .. index' - 1 :
                   RunAfter(sql, i, m, index') /\ (index' - 1 - m) % 2 = 0
    PROVE  Within(i)'
<1>1. state # "normal" /\ state # "line" /\ state # "block"
    BY DEF Quotes
<1> QED
    BY <1>1 DEF Within

LEMMA EscapeKeeps ==
    ASSUME SplitInv, Escape PROVE SplitInv'
<1>1. /\ index <= Len(sql) /\ Reads(Quotes) /\ Take(2, state)
      /\ state \in {"single", "double"} /\ Char = Backslash /\ Following # ""
    BY DEF Escape, Escapes, Reads
<1>2. /\ sql \in Seq(Alphabet) /\ Len(sql) \in Nat /\ index \in 1 .. Len(sql)
      /\ Starts(sql) \subseteq 1 .. Len(sql) + 1
      /\ Char = sql[index] /\ SplitTypes
    BY <1>1, Position
<1>3. PICK i \in Starts(sql) :
          /\ Whole(sql, i) /\ i \in 1 .. Len(sql) /\ i < index
          /\ sql[i] = state /\ state \in Quotes
          /\ \A j \in i .. index - 1 : ~Closes(sql, i, j)
          /\ state # "backtick" =>
               \E m \in i .. index - 1 :
                   RunAfter(sql, i, m, index) /\ (index - 1 - m) % 2 = 0
    BY <1>1, QuotePosition
<1>4. PICK m \in i .. index - 1 :
          RunAfter(sql, i, m, index) /\ (index - 1 - m) % 2 = 0
    BY <1>1, <1>3
<1>5. sql' = sql /\ index' = index + 2 /\ state' = state
    BY <1>1 DEF Take
<1>6. sql[index] = Backslash
    BY <1>1, <1>2
<1>7. index + 1 <= Len(sql)
    <2>1. index + 1 \in Int
        BY <1>2
    <2> QED
        BY <1>1, <1>2, <2>1, Characters, Zenon DEF Following
<1>8. ~Closes(sql, i, index)
    <2>1. sql[index] # sql[i]
        BY <1>1, <1>3, <1>6, Zenon DEF Backslash, Quotes
    <2> QED
        BY <1>2, <1>3, <2>1, ClosesBy
<1>9. RunAfter(sql, i, m, index + 1)
    BY <1>2, <1>3, <1>4, <1>6 DEF RunAfter
<1>10. Escaped(sql, i, index + 1)
    <2>1. ((index + 1) - 1 - m) % 2 = 1 /\ m \in i .. (index + 1) - 1
        BY <1>2, <1>3, <1>4
    <2> QED
        BY <1>9, <2>1 DEF Escaped
<1>11. ~Closes(sql, i, index + 1)
    <2>1. sql[i] # "backtick"
        BY <1>1, <1>3, Zenon
    <2>2. index + 1 \in Int
        BY <1>2
    <2> QED
        BY <1>2, <1>3, <1>10, <2>1, <2>2, ClosesBy
<1>12. \A j \in i .. (index + 2) - 1 : ~Closes(sql, i, j)
    <2>1. \A j \in i .. (index + 2) - 1 : j \in i .. index - 1 \/ j = index \/ j = index + 1
        BY <1>2, <1>3
    <2> QED
        BY <1>3, <1>8, <1>11, <2>1
<1>13. \E n \in i .. index' - 1 :
           RunAfter(sql, i, n, index') /\ (index' - 1 - n) % 2 = 0
    <2>1. CASE sql[index + 1] = Backslash
        <3>1. m \in i .. index' - 1 /\ (index' - 1 - m) % 2 = 0
            BY <1>2, <1>3, <1>4, <1>5
        <3>2. RunAfter(sql, i, m, index')
            BY <1>2, <1>3, <1>5, <1>9, <2>1 DEF RunAfter
        <3> QED
            BY <3>1, <3>2
    <2>2. CASE sql[index + 1] # Backslash
        <3>1. index + 1 \in i .. index' - 1 /\ (index' - 1 - (index + 1)) % 2 = 0
            BY <1>2, <1>3, <1>5
        <3>2. RunAfter(sql, i, index + 1, index')
            BY <1>2, <1>3, <1>5, <2>2 DEF RunAfter
        <3> QED
            BY <3>1, <3>2
    <2> QED
        BY <2>1, <2>2
<1>14. Within(i)'
    <2>1. i < index'
        BY <1>2, <1>3, <1>5
    <2>2. \A j \in i .. index' - 1 : ~Closes(sql, i, j)
        BY <1>5, <1>12, Zenon
    <2> QED
        BY <1>3, <1>5, <1>13, <2>1, <2>2, WithinQuote, Zenon
<1>15. ~IsCut(index) /\ ~IsCut(index + 1)
    <2>1. ~IsCut(index)
        BY <1>1, NoCutAt DEF Char
    <2>2. /\ \A j \in i .. (index + 1) - 1 : ~Closes(sql, i, j)
          /\ i < index + 1 /\ index + 1 \in Int
        BY <1>2, <1>3, <1>12
    <2> QED
        BY <1>2, <1>3, <2>1, <2>2, NoCutInside
<1>16. state \in {"normal", "line", "block"} \cup Quotes
    BY <1>3
<1> QED
    BY <1>1, <1>3, <1>7, <1>14, <1>15, <1>16, TakeTwo

LEMMA QuoteKeeps ==
    ASSUME SplitInv, Quote PROVE SplitInv'
<1>1. index <= Len(sql) /\ Reads(Quotes) /\ Char = state
    BY DEF Quote, Reads
<1>2. /\ sql \in Seq(Alphabet) /\ Len(sql) \in Nat /\ index \in 1 .. Len(sql)
      /\ Starts(sql) \subseteq 1 .. Len(sql) + 1
      /\ Char = sql[index] /\ SplitTypes
    BY <1>1, Position
<1>3. PICK i \in Starts(sql) :
          /\ Whole(sql, i) /\ i \in 1 .. Len(sql) /\ i < index
          /\ sql[i] = state /\ state \in Quotes
          /\ \A j \in i .. index - 1 : ~Closes(sql, i, j)
          /\ state # "backtick" =>
               \E m \in i .. index - 1 :
                   RunAfter(sql, i, m, index) /\ (index - 1 - m) % 2 = 0
    BY <1>1, QuotePosition
<1>4. PICK e \in i .. Len(sql) : e = index
    BY <1>2, <1>3
<1>5. Ends(sql, i, e)
    <2>1. sql[i] = "backtick" \/ ~Escaped(sql, i, index)
        <3>1. ASSUME sql[i] # "backtick" PROVE ~Escaped(sql, i, index)
            <4>1. PICK m \in i .. index - 1 :
                      RunAfter(sql, i, m, index) /\ (index - 1 - m) % 2 = 0
                BY <1>3, <3>1, Zenon
            <4>2. i \in Int /\ index \in Int
                BY <1>2, <1>3
            <4> QED
                BY <4>1, <4>2, EvenRun, Zenon
        <3> QED
            BY <3>1
    <2>2. sql[index] = sql[i] /\ sql[i] \in Quotes
        BY <1>1, <1>2, <1>3, Zenon
    <2>3. Closes(sql, i, index)
        <3>1. index > i /\ index \in Int
            BY <1>2, <1>3
        <3> QED
            BY <1>2, <1>3, <2>1, <2>2, <3>1, ClosesBy, Zenon
    <2> QED
        BY <1>3, <1>4, <2>3, Zenon DEF Ends
<1>6. ~IsCut(index)
    BY <1>1, <1>3, NoCutAt DEF Char
<1>7. CASE Following = state /\ Take(2, state)
    <2>1. state # ""
        BY <1>3 DEF Quotes
    <2>2. index + 1 <= Len(sql) /\ sql[index + 1] = state
        <3>1. index + 1 \in Int
            BY <1>2
        <3> QED
            BY <1>2, <1>7, <2>1, <3>1, CharIs, Zenon DEF Following
    <2>3. PICK k \in 1 .. Len(sql) : k = e + 1
        BY <1>2, <1>3, <1>4, <2>2
    <2>4. k \in Starts(sql) /\ Whole(sql, k)
        BY <1>2, <1>3, <1>5, <2>3, NextStart
    <2>5. Within(k)'
        <3>1. sql' = sql /\ index' = k + 1 /\ state' = state
            BY <1>2, <1>4, <1>7, <2>3 DEF Take
        <3>2. sql[k] = state
            BY <1>4, <2>2, <2>3
        <3> QED
            BY <1>2, <1>3, <3>1, <3>2, QuoteBegins
    <2>6. ~IsCut(index + 1)
        BY <1>3, <1>7, NoCutAt DEF Following
    <2>7. state \in {"normal", "line", "block"} \cup Quotes
        BY <1>3
    <2> QED
        BY <1>1, <1>6, <1>7, <2>2, <2>4, <2>5, <2>6, <2>7, TakeTwo
<1>8. CASE Take(1, "normal")
    <2>1. sql' = sql /\ index' = e + 1 /\ state' = "normal"
        BY <1>4, <1>8 DEF Take
    <2>2. e + 1 \in Starts(sql) /\ Whole(sql, e + 1) /\ Within(e + 1)'
        BY <1>2, <1>3, <1>5, <2>1, AfterEnd
    <2> QED
        BY <1>1, <1>6, <1>8, <2>2, TakeOne
<1> QED
    BY <1>7, <1>8 DEF Quote

LEMMA QuotedKeeps ==
    ASSUME SplitInv, Reads(Quotes), Char # state, ~Escapes, Take(1, state)
    PROVE  SplitInv'
<1>1. index <= Len(sql)
    BY DEF Reads
<1>2. /\ sql \in Seq(Alphabet) /\ Len(sql) \in Nat /\ index \in 1 .. Len(sql)
      /\ Starts(sql) \subseteq 1 .. Len(sql) + 1
      /\ Char = sql[index] /\ SplitTypes
    BY <1>1, Position
<1>3. PICK i \in Starts(sql) :
          /\ Whole(sql, i) /\ i \in 1 .. Len(sql) /\ i < index
          /\ sql[i] = state /\ state \in Quotes
          /\ \A j \in i .. index - 1 : ~Closes(sql, i, j)
    BY QuotePosition
<1>4. sql' = sql /\ index' = index + 1 /\ state' = state
    BY DEF Take
<1>5. \A j \in i .. index' - 1 : ~Closes(sql, i, j)
    <2>1. ~Closes(sql, i, index)
        <3>1. sql[index] # sql[i] /\ sql[i] \in Quotes
            BY <1>2, <1>3, Zenon
        <3> QED
            BY <1>2, <1>3, <3>1, ClosesBy
    <2>2. \A j \in i .. index' - 1 : j \in i .. index - 1 \/ j = index
        BY <1>2, <1>3, <1>4
    <2> QED
        BY <1>3, <2>1, <2>2, Zenon
<1>6. ASSUME state # "backtick", index' <= Len(sql)
      PROVE  \E m \in i .. index' - 1 :
                 RunAfter(sql, i, m, index') /\ (index' - 1 - m) % 2 = 0
    <2>1. Following # ""
        <3>1. index + 1 \in 1 .. Len(sql) /\ index + 1 \in Int
            BY <1>2, <1>4, <1>6
        <3> QED
            BY <1>2, <3>1, Characters, Zenon DEF Following
    <2>2. sql[index] # Backslash
        <3>1. state \in {"single", "double"}
            BY <1>3, <1>6 DEF Quotes
        <3> QED
            BY <1>2, <2>1, <3>1, Zenon DEF Escapes
    <2>3. index \in i .. index' - 1 /\ (index' - 1 - index) % 2 = 0
        BY <1>2, <1>3, <1>4
    <2>4. RunAfter(sql, i, index, index')
        BY <1>2, <1>3, <1>4, <2>2 DEF RunAfter
    <2> QED
        BY <2>3, <2>4
<1>7. Within(i)'
    <2>1. i < index'
        BY <1>2, <1>3, <1>4
    <2> QED
        BY <1>3, <1>4, <1>5, <1>6, <2>1, WithinQuote, Zenon
<1>8. ~IsCut(index)
    BY <1>2, <1>3, NoCutInside
<1>9. state \in {"normal", "line", "block"} \cup Quotes
    BY <1>3
<1> QED
    BY <1>1, <1>3, <1>7, <1>8, <1>9, TakeOne

-----------------------------------------------------------------------------
(* Cutting: the buffer becomes the piece that ends at the position.        *)
LEMMA StatementLists ==
    ASSUME SplitTypes, Gathered, Statement, NEW e \in Nat, e = index
    PROVE  /\ Lists(statements', sql, CutsSoFar \cup {e})
           /\ statements' \in Seq({statements'[k] : k \in 1 .. Len(statements')})
<1>1. sql \in Seq(Alphabet) /\ Len(sql) \in Nat /\ index \in 1 .. Len(sql) + 1
    BY DEF SplitTypes
<1>2. Starts(sql) \subseteq 1 .. Len(sql) + 1
    BY <1>1, StartsChain
<1>3. CutsSoFar \in SUBSET Nat /\ \A i \in CutsSoFar : i < e
    BY <1>1, <1>2 DEF CutsSoFar
<1>4. IsFiniteSet(CutsSoFar)
    <2>1. CutsSoFar \subseteq 1 .. Len(sql) + 1
        BY <1>2 DEF CutsSoFar
    <2>2. 1 \in Int /\ Len(sql) + 1 \in Int
        BY <1>1
    <2>3. IsFiniteSet(1 .. Len(sql) + 1)
        BY <2>2, FS_Interval, Zenon
    <2> QED
        BY <2>1, <2>3, FS_Subset
<1>5. PICK from \in {0} \cup CutsSoFar :
          (\A i \in CutsSoFar : i <= from) /\ buffer = SubSeq(sql, from + 1, index - 1)
    BY DEF Gathered
<1>6. Trim(buffer) = Piece(sql, CutsSoFar \cup {e}, e)
    BY <1>3, <1>5, LastPiece
<1> DEFINE S == {statements[k] : k \in 1 .. Len(statements)} \cup {Trim(buffer)}
<1>7. statements \in Seq({statements[k] : k \in 1 .. Len(statements)})
    BY DEF SplitTypes
<1>8. statements \in Seq(S) /\ Trim(buffer) \in S
    BY <1>7, SeqMonotonic
<1>9. Lists(statements, sql, CutsSoFar)
    BY DEF Gathered
<1>10. Lists(IF Trim(buffer) = <<>> THEN statements
             ELSE Append(statements, Trim(buffer)), sql, CutsSoFar \cup {e})
    <2> HIDE DEF S
    <2> QED
        BY <1>3, <1>4, <1>6, <1>8, <1>9, ListsNext
<1>11. statements' \in Seq({statements'[k] : k \in 1 .. Len(statements')})
    <2>1. CASE statements' = statements
        BY <1>7, <2>1
    <2>2. CASE statements' = Append(statements, Trim(buffer))
        BY <1>7, <2>2, ListsAppend
    <2> QED
        BY <2>1, <2>2 DEF Statement
<1> QED
    BY <1>10, <1>11 DEF Statement

LEMMA CutKeeps ==
    ASSUME SplitInv, Cut PROVE SplitInv'
<1>0. Char = ";"
    BY DEF Cut
<1>1. /\ index <= Len(sql) /\ state = "normal"
      /\ Statement /\ buffer' = <<>> /\ index' = index + 1
      /\ sql' = sql /\ state' = state /\ split' = split
    BY DEF Cut, Reads
<1>2. /\ sql \in Seq(Alphabet) /\ Len(sql) \in Nat /\ index \in 1 .. Len(sql)
      /\ Starts(sql) \subseteq 1 .. Len(sql) + 1
      /\ Char = sql[index] /\ SplitTypes /\ Scanning
    BY <1>1, Position
<1>3. split = "pending" /\ Gathered
    BY <1>1, <1>2 DEF SplitInv
<1>4. PICK i \in Starts(sql) : Whole(sql, i) /\ i = index
    BY <1>1, <1>2 DEF Scanning, Within
<1>5. Lists(statements', sql, CutsSoFar \cup {i})
          /\ statements' \in Seq({statements'[k] : k \in 1 .. Len(statements')})
    BY <1>1, <1>2, <1>3, <1>4, StatementLists
<1>6. SemicolonAt(sql, i)
    BY <1>0, <1>4, Zenon DEF Char, SemicolonAt
<1>7. CutsSoFar' = CutsSoFar \cup {i}
    <2>1. CutsSoFar' = {k \in Starts(sql) : k < i + 1 /\ SemicolonAt(sql, k)}
        BY <1>1, <1>4 DEF CutsSoFar
    <2>2. CutsSoFar = {k \in Starts(sql) : k < i /\ SemicolonAt(sql, k)}
        BY <1>4 DEF CutsSoFar
    <2>3. \A k \in Starts(sql) : k < i + 1 <=> k < i \/ k = i
        BY <1>2
    <2> QED
        BY <1>6, <2>1, <2>2, <2>3
<1>8. Gathered'
    <2>1. buffer' = SubSeq(sql', i + 1, index' - 1)
        <3>1. i + 1 \in Int /\ index' - 1 \in Int /\ index' - 1 < i + 1
            BY <1>1, <1>2, <1>4
        <3> QED
            BY <1>1, <3>1, SubSeqEmpty
    <2>2. i \in CutsSoFar' /\ \A k \in CutsSoFar' : k <= i
        <3>1. \A k \in CutsSoFar : k <= i
            BY <1>2, <1>4 DEF CutsSoFar
        <3> QED
            BY <1>2, <1>4, <1>7, <3>1
    <2>3. Lists(statements', sql', CutsSoFar')
        BY <1>1, <1>5, <1>7
    <2> QED
        BY <2>1, <2>2, <2>3 DEF Gathered
<1>9. Scanning'
    <2>1. sql[i] \notin Quotes /\ ~LineAt(sql, i) /\ ~BlockAt(sql, i)
        <3>1. CharAt(sql, i) = ";" /\ sql[i] = ";"
            BY <1>0, <1>2, <1>4, Zenon DEF Char
        <3> QED
            BY <3>1 DEF Quotes, LineAt, DashesAt, BlockAt
    <2>2. Ends(sql, i, i)
        <3>1. Closes(sql, i, i)
            BY <1>2, <1>4, <2>1, ClosesBy
        <3> QED
            BY <1>2, <1>4, <3>1 DEF Ends
    <2>3. i + 1 \in Starts(sql) /\ Whole(sql, i + 1) /\ Within(i + 1)'
        BY <1>1, <1>2, <1>4, <2>2, AfterEnd
    <2> QED
        BY <1>1, <2>3 DEF Scanning
<1>10. SplitTypes'
    BY <1>1, <1>2, <1>3, <1>5 DEF SplitTypes
<1> QED
    BY <1>1, <1>3, <1>8, <1>9, <1>10 DEF SplitInv, CutsWhereMeant

-----------------------------------------------------------------------------
(* The end of the text. *)
LEMMA ReturnKeeps ==
    ASSUME SplitInv, Return PROVE SplitInv'
<1>1. /\ index > Len(sql) /\ split = "pending" /\ sql' = sql /\ index' = index
      /\ state' = state
    BY DEF Return
<1>2. /\ sql \in Seq(Alphabet) /\ Len(sql) \in Nat /\ index \in 1 .. Len(sql) + 1
      /\ SplitTypes /\ Scanning /\ Gathered
    BY <1>1 DEF SplitInv, SplitTypes
<1>3. Starts(sql) \subseteq 1 .. Len(sql) + 1
    BY <1>2, StartsChain
<1>4. PICK i \in Starts(sql) : Whole(sql, i) /\ Within(i)
    BY <1>2 DEF Scanning
<1>5. PICK e \in Nat : e = index /\ e = Len(sql) + 1
    BY <1>1, <1>2
<1>6. CASE state \in Quotes \cup {"block"}
    <2>1. split' = "refused" /\ statements' = statements
        BY <1>6 DEF Return
    <2>2. i < index /\ \A j \in i .. index - 1 : ~Closes(sql, i, j)
        <3>1. CASE state \in Quotes
            BY <1>4, <3>1 DEF Within
        <3>2. CASE state = "block"
            <4>1. i + 2 <= index /\ \A j \in i .. index : j <= Len(sql) => ~Closes(sql, i, j)
                BY <1>4, <3>2 DEF Within, Quotes
            <4> QED
                BY <1>2, <1>3, <1>5, <4>1
        <3> QED
            BY <1>6, <3>1, <3>2
    <2>3. i \in Starts(sql) \ {Len(sql) + 1} /\ \A j \in i .. Len(sql) : ~Ends(sql, i, j)
        <3>1. \A j \in i .. Len(sql) : ~Ends(sql, i, j)
            BY <1>2, <1>3, <1>5, <2>2 DEF Ends
        <3> QED
            BY <1>2, <1>3, <1>5, <2>2, <3>1
    <2>4. ~Terminated(sql, Starts(sql))
        BY <2>3 DEF Terminated
    <2> QED
        BY <1>1, <1>2, <2>1, <2>4 DEF SplitInv, SplitTypes, CutsWhereMeant
<1>7. CASE state \notin Quotes \cup {"block"}
    <2>1. split' = "done" /\ Statement
        BY <1>7 DEF Return
    <2>2. Whole(sql, e)
        <3>1. CASE state = "normal"
            BY <1>4, <1>5, <3>1 DEF Within
        <3>2. CASE state = "line"
            <4>1. /\ i < index /\ LineAt(sql, i)
                  /\ \A j \in i .. index - 1 : sql[j] # Newline
                BY <1>4, <3>2 DEF Within, Quotes
            <4>2. i \in 1 .. Len(sql) /\ Len(sql) \in i .. Len(sql) /\ Len(sql) = index - 1
                BY <1>2, <1>3, <1>5, <4>1
            <4>3. Closes(sql, i, Len(sql))
                BY <1>2, <4>1, <4>2, ClosesBy
            <4>4. ASSUME NEW j \in i .. Len(sql) - 1 PROVE ~Closes(sql, i, j)
                <5>1. j \in Int /\ j # Len(sql) /\ j \in i .. index - 1
                    BY <1>2, <4>2
                <5>2. sql[j] # Newline
                    BY <4>1, <5>1
                <5> QED
                    BY <1>2, <4>1, <4>2, <5>1, <5>2, ClosesBy
            <4>5. Ends(sql, i, Len(sql))
                BY <4>3, <4>4 DEF Ends
            <4>6. Whole(sql, Len(sql) + 1)
                BY <1>2, <1>4, <4>2, <4>5, NextStart
            <4> QED
                BY <1>5, <4>6
        <3>3. state \in {"normal", "line", "block"} \cup Quotes
            BY <1>2 DEF SplitTypes
        <3> QED
            BY <1>7, <3>1, <3>2, <3>3
    <2>3. Terminated(sql, Starts(sql))
        <3> SUFFICES ASSUME NEW k \in Starts(sql), k # Len(sql) + 1
                     PROVE  \E f \in k .. Len(sql) : Ends(sql, k, f)
            BY DEF Terminated
        <3>1. k < e
            BY <1>2, <1>3, <1>5
        <3>2. PICK f \in k .. e - 1 : Ends(sql, k, f)
            BY <2>2, <3>1 DEF Whole
        <3>3. f \in k .. Len(sql)
            BY <1>2, <1>3, <1>5
        <3> QED
            BY <3>2, <3>3
    <2>4. /\ Lists(statements', sql, CutsSoFar \cup {e})
          /\ statements' \in Seq({statements'[k] : k \in 1 .. Len(statements')})
        BY <1>2, <1>5, <2>1, StatementLists
    <2>5. CutsSoFar \cup {e} = Cuts(sql, Starts(sql))
        <3>1. \A k \in Starts(sql) : k < index \/ k = e
            BY <1>2, <1>3, <1>5
        <3>2. /\ CutsSoFar = {k \in Starts(sql) : k < index /\ SemicolonAt(sql, k)}
              /\ Cuts(sql, Starts(sql))
                     = {k \in Starts(sql) : SemicolonAt(sql, k)} \cup {e}
            BY <1>5 DEF CutsSoFar, Cuts
        <3> QED
            BY <3>1, <3>2
    <2>6. SplitTypes'
        BY <1>1, <1>2, <2>1, <2>4 DEF SplitTypes
    <2>7. CutsWhereMeant'
        BY <1>1, <2>1, <2>3, <2>4, <2>5 DEF CutsWhereMeant
    <2> QED
        BY <1>1, <2>1, <2>6, <2>7 DEF SplitInv
<1> QED
    BY <1>6, <1>7

(* The scanner's invariant holds of every text. *)
THEOREM SplitInvHolds == ScanSpec => []SplitInv
<1>1. ASSUME SplitInv, ScanNext PROVE SplitInv'
    <2>1. CASE OpenQuote
        BY <1>1, <2>1, OpenQuoteKeeps
    <2>2. CASE OpenLine
        BY <1>1, <2>2, OpenLineKeeps
    <2>3. CASE OpenBlock
        BY <1>1, <2>3, OpenBlockKeeps
    <2>4. CASE Cut
        BY <1>1, <2>4, CutKeeps
    <2>5. CASE Escape
        BY <1>1, <2>5, EscapeKeeps
    <2>6. CASE Quote
        BY <1>1, <2>6, QuoteKeeps
    <2>7. CASE CloseLine
        BY <1>1, <2>7, CloseLineKeeps
    <2>8. CASE CloseBlock
        BY <1>1, <2>8, CloseBlockKeeps
    <2>9. CASE Plain
        BY <1>1, <2>9, PlainNormalKeeps, QuotedKeeps, LineKeeps, BlockKeeps
           DEF Plain
    <2>10. CASE Return
        BY <1>1, <2>10, ReturnKeeps
    <2> QED
        BY <1>1, <2>1, <2>2, <2>3, <2>4, <2>5, <2>6, <2>7, <2>8, <2>9, <2>10
           DEF ScanNext
<1>2. ASSUME SplitInv, UNCHANGED scanVars PROVE SplitInv'
    <2>1. /\ sql' = sql /\ index' = index /\ state' = state /\ buffer' = buffer
          /\ statements' = statements /\ split' = split
        BY <1>2 DEF scanVars
    <2>2. SplitTypes' <=> SplitTypes
        BY <2>1 DEF SplitTypes
    <2>3. CutsWhereMeant' <=> CutsWhereMeant
        BY <2>1 DEF CutsWhereMeant
    <2>4. Scanning' <=> Scanning
        BY <2>1 DEF Scanning, Within
    <2>5. Gathered' <=> Gathered
        BY <2>1 DEF Gathered, CutsSoFar
    <2> QED
        BY <1>2, <2>1, <2>2, <2>3, <2>4, <2>5 DEF SplitInv
<1> QED
    BY <1>1, <1>2, ScanBegins, PTL DEF ScanSpec

THEOREM CutsAreMeant == ScanSpec => []CutsWhereMeant
<1>1. SplitInv => CutsWhereMeant
    BY DEF SplitInv
<1> QED
    BY <1>1, SplitInvHolds, PTL
=============================================================================
