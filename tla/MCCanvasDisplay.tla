--------------------------- MODULE MCCanvasDisplay ---------------------------
(***************************************************************************)
(* CanvasDisplay with stripes of 2 rows, in three sessions.                *)
(***************************************************************************)
EXTENDS CanvasDisplay

MCChunk == 2

View(a, b, isfar) == [r1 |-> a, r2 |-> b, far |-> isfar]

\* A matrix of 7 rows.  Far views: all of it from above its first row to below
\* its last (four stripes), one that ends inside it, one that lies entirely
\* above it.  Near views: one inside it, one across its last row.
Tall == [nrows |-> 7, swap |-> "copy",
         views |-> {View(-2, 9, TRUE), View(1, 6, TRUE), View(-5, -2, TRUE),
                    View(2, 4, FALSE), View(6, 8, FALSE)}]

\* The same with the exchanging swap, whose buffers keep more of the past.
TallExchanged == [nrows |-> 7, swap |-> "exchange",
                  views |-> {View(-2, 9, TRUE), View(2, 4, FALSE)}]

\* A matrix of 3 rows is below 2 * Chunk and is drawn in full when far.
Short == [nrows |-> 3, swap |-> "exchange",
          views |-> {View(-2, 5, TRUE), View(0, 2, TRUE), View(1, 3, FALSE),
                     View(-1, 1, FALSE)}]

MCSessions == {Tall, TallExchanged, Short}
=============================================================================
