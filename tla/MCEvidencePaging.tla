--------------------------- MODULE MCEvidencePaging ---------------------------
(* A small instance of EvidencePaging: two Sources whose Publications have  *)
(* short, long and oversized texts, and budgets of a few bytes.             *)
EXTENDS EvidencePaging

CONSTANTS c1, s1, s2

Short == <<1, 4>>
Long == <<3, 7, 8>>
Huge == <<4, 8, 12, 16>>

MCTexts == {Short, Long, Huge}

MCContents == {<<Short, Long, Short, Short>>, <<Long, Huge>>}

\* Ordinary Publications, and ones that a reader trips over: of s1, made from other
\* bytes or with a label too long for discovery; of s2, with too long a mode.
MCPublications ==
    LET Ordinary ==
            {[rows |-> t, sound |-> TRUE, label |-> MaxLabel, mode |-> MaxMode] : t \in MCContents}
        Odd(sound, label, mode) ==
            [rows |-> <<Short, Long, Short, Short>>, sound |-> sound, label |-> label,
             mode |-> mode]
    IN  [s \in Sources |-> Ordinary \cup
            IF s = s1 THEN {Odd(FALSE, 1, 1), Odd(TRUE, MaxLabel + 1, 0)}
            ELSE {Odd(TRUE, 1, MaxMode + 1)}]

\* The entries of s2 have so much metadata that one with an excerpt is too large.
MCMetadata == [s \in Sources |-> IF s = s1 THEN 1 ELSE 6]

RowsOf(d, s) ==
    [i \in DOMAIN Rows(d, s) |-> [source |-> s, revision |-> d[s].revision, index |-> i]]

\* An order of its own for each tool, and a query that misses what is Huge.
MCSelected(d, r) ==
    LET Hit(item) == TextOf(d, item) # Huge
        Entry(s) == IF d[s].revision = 0 THEN << >>
                    ELSE <<[source |-> s, revision |-> d[s].revision, index |-> 0]>>
    IN  CASE r.tool = "catalog" -> Entry(s2) \o Entry(s1)
          [] r.tool = "source_search" -> SelectSeq(RowsOf(d, r.source), Hit)
          [] OTHER -> RowsOf(d, s1) \o SelectSeq(RowsOf(d, s2), Hit)

\* A scan loads every active row of its scope.
MCScanned(d, r) ==
    IF r.tool = "source_search" THEN RowsOf(d, r.source) ELSE RowsOf(d, s1) \o RowsOf(d, s2)

MCRequests ==
    LET Call(tool, route, s, i, n) ==
            [tool |-> tool, route |-> route, source |-> s, revision |-> 1, index |-> i, size |-> n]
    IN  {Call("search", "fts", s1, 1, 2), Call("search", "scan", s1, 1, 2),
         Call("search", "scan", s1, 1, 5), Call("source_search", "fts", s1, 1, 3),
         Call("source_search", "scan", s1, 1, 4), Call("catalog", "fts", s1, 1, 1),
         Call("browse", "fts", s1, 1, 2), Call("browse", "fts", s2, 1, 3),
         Call("read", "fts", s1, 1, 4), Call("read", "fts", s1, 2, 4)}

=============================================================================
