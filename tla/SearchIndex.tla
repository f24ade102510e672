---------------------------- MODULE SearchIndex ----------------------------
(***************************************************************************)
(* TABLE of GUSearch: makeItable reads a file of lines, each the name of a *)
(* document followed by its keywords, and adds them to the inverted index  *)
(* iTable, which lives as long as the application.                         *)
(*                                                                         *)
(* A line is a sequence of words and single spaces, and no two words stand *)
(* side by side.                                                           *)
(***************************************************************************)
EXTENDS Integers, SequencesExt

CONSTANTS
    Term,        \* words
    File,        \* the files that can be read
    MaxTables    \* how many TABLE commands there are

Space == " "
Empty == ""      \* what is between two spaces

ASSUME TermAssumption == Term \cap {Space, Empty} = {}
ASSUME FileAssumption ==
    \A f \in File :
        /\ f \in Seq(Seq(Term \cup {Space}))
        /\ \A n \in DOMAIN f : \A i \in 2 .. Len(f[n]) : Space \in {f[n][i-1], f[n][i]}

VARIABLES
    iTable,      \* documents by keyword
    tabled       \* files read so far

indexVars == <<iTable, tabled>>

\* The loop that finds a delimiter and erases what is before it: the pieces that end
\* with a delimiter, and the rest of the line.
Cut(s, c) ==
    IF c = Space THEN [pieces |-> Append(s.pieces, s.rest), rest |-> Empty]
                 ELSE [s EXCEPT !.rest = c]
CutLine(l) ==
    LET cut[i \in 0 .. Len(l)] ==
            IF i = 0 THEN [pieces |-> <<>>, rest |-> Empty] ELSE Cut(cut[i-1], l[i])
    IN  cut[Len(l)]

\* Without a delimiter, substr and erase are called with -1: the document is the whole
\* line, and nothing is erased.
docV(l) == LET c == CutLine(l) IN IF c.pieces = <<>> THEN c.rest ELSE c.pieces[1]

\* The rest of a line is not a keyword.  The faulty variant takes it for one.
KeywordsAndRest(l) ==
    LET c == CutLine(l) IN IF c.pieces = <<>> THEN <<>> ELSE Append(Tail(c.pieces), c.rest)
Keywords(l) == LET p == CutLine(l).pieces IN IF p = <<>> THEN <<>> ELSE Tail(p)

\* One more document for a keyword, whether or not it is there already.
Post(t, k, d) ==
    [x \in DOMAIN t \cup {k} |->
        IF x # k THEN t[x] ELSE IF k \in DOMAIN t THEN Append(t[k], d) ELSE <<d>>]

\* A document posted for each of its keywords, the lines of a file one after the other.
PostLine(t, l) ==
    LET post[i \in 0 .. Len(Keywords(l))] ==
            IF i = 0 THEN t ELSE Post(post[i-1], Keywords(l)[i], docV(l))
    IN  post[Len(Keywords(l))]

makeItable(t, f) ==
    LET table[n \in 0 .. Len(f)] == IF n = 0 THEN t ELSE PostLine(table[n-1], f[n])
    IN  table[Len(f)]

IndexInit ==
    /\ iTable = [k \in {} |-> <<>>]
    /\ tabled = <<>>

\* TABLE <file>; a file that cannot be opened has no lines.
Table(f) ==
    /\ Len(tabled) < MaxTables
    /\ iTable' = makeItable(iTable, f)
    /\ tabled' = Append(tabled, f)

IndexNext == \E f \in File : Table(f)
IndexSpec == IndexInit /\ [][IndexNext]_indexVars

-----------------------------------------------------------------------------
(* Properties.                                                             *)

\* Where k occurs as a keyword in file f, as positions of the space behind it: there is
\* another space before it, and the first of all spaces ends the document's name.
InLine(l, k) ==
    {i \in DOMAIN l :
        /\ l[i] = Space
        /\ \E j \in 1 .. i - 1 : l[j] = Space
        /\ k = IF l[i-1] = Space THEN Empty ELSE l[i-1]}

Document(l) == IF l[1] = Space THEN Empty ELSE l[1]
Postings(f, k) ==
    FlattenSeq([n \in DOMAIN f |-> [j \in 1 .. Cardinality(InLine(f[n], k)) |-> Document(f[n])]])

\* The index holds, for each keyword of the files read, the documents in the order and
\* as often as the keyword occurs in them, in every reading of a file anew; a last word
\* without a space behind it is not a keyword, nothing between two spaces is one.
IndexIsInverted ==
    \A k \in Term \cup {Empty} :
        FlattenSeq([i \in DOMAIN tabled |-> Postings(tabled[i], k)])
            = IF k \in DOMAIN iTable THEN iTable[k] ELSE <<>>

=============================================================================
