------------------------------ MODULE MCElfLoad ------------------------------
(***************************************************************************)
(* Files of up to three headers for a chip with seven octets of memory,    *)
(* the last two of them flash: whole ones, ones cut short within a segment *)
(* or within the headers, and ones in which something begins behind the    *)
(* end.  Blocks are of two octets and the keyhole is four octets wide, so  *)
(* that a segment takes up to three CMD53s.                                *)
(***************************************************************************)
EXTENDS ElfLoad

Size == 6

P(k, o, n, a) == [kind |-> k, off |-> o, size |-> n, addr |-> a]

\* Programs: segments apart, adjoining and overlapping, empty ones, ones in flash
\* and ones that are not to be loaded, in every order.
Segments == {P("load", 1, 2, 1), P("load", 3, 3, 2), P("load", 4, 0, 3),
             P("load", 0, 2, 6), P("noload", 2, 2, 4), P("load", 5, 1, 5), P("load", 1, 5, 1)}

\* Board configuration files: with and without the sections, doubled and empty.
Sections == {P("board", 1, 2, 1), P("board", 2, 1, 3), P("regdom", 3, 3, 1),
             P("regdom", 2, 1, 6), P("regdom", 4, 0, 2), P("other", 5, 1, 5)}

Headers(S) == UNION {[1..n -> S] : n \in 0..3}

File(bcf, parts) ==
  [size |-> Size, bcf |-> bcf, table |-> 1, heads |-> Len(parts), parts |-> parts]

WholeFiles == {File(FALSE, parts) : parts \in Headers(Segments)}
                \cup {File(TRUE, parts) : parts \in Headers(Sections)}

\* Files cut short: the last segment is not all there, or begins behind the end; the
\* last header is not there, or none of them is.
CutFiles ==
  {[f EXCEPT !.size = n] : f \in WholeFiles, n \in {4, 5}}
    \cup {[f EXCEPT !.heads = Len(f.parts) - 1] : f \in {f \in WholeFiles : f.parts # <<>>}}
    \cup {[f EXCEPT !.heads = 0, !.table = Size + 1] : f \in WholeFiles}

MCFiles == WholeFiles \cup CutFiles

===============================================================================
