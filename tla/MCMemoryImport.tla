--------------------------- MODULE MCMemoryImport ---------------------------
(* Small instances of MemoryImport for TLC. *)
EXTENDS MemoryImport, TLC

Plain == [id |-> "r1", session |-> "", mission |-> "", persona |-> "",
          supersedes |-> "", text |-> FALSE, embedding |-> FALSE, valid |-> TRUE]

\* A row with most fields; two with vectors; one that supersedes the first.
Full == [Plain EXCEPT !.session = "s", !.mission = "m", !.persona = "p",
                      !.text = TRUE]
Embedded == [Plain EXCEPT !.embedding = TRUE]
Other == [Embedded EXCEPT !.id = "r2"]
Newer == [Plain EXCEPT !.id = "r2", !.session = "s", !.supersedes = "r1"]

\* Both clients post one row; they post different ones; the superseded row
\* comes later in the same file, and twice in another client's; a file is
\* not accepted.
MCPostings ==
    { [a |-> <<Full>>, b |-> <<Full>>],
      [a |-> <<Embedded>>, b |-> <<Other>>],
      [a |-> <<Newer, Plain>>, b |-> <<Plain, Plain>>],
      [a |-> <<Full, [Other EXCEPT !.valid = FALSE]>>, b |-> <<Newer>>] }

MCDeletable == {Memory("r1")}
=============================================================================
