------------------------------ MODULE ColorIndex ------------------------------
(***************************************************************************)
(* Which colour an entry gets: load_matrix computes the range of the       *)
(* values and the norms of rows and columns; draw_matrix scales a value by *)
(* them and takes the colour at that fraction of the colormap, with no     *)
(* test that there is one.                                                 *)
(*                                                                         *)
(* Values are whole numbers.  Norms are kept as sums of squares, and a     *)
(* scaled value as a ratio or as the square root of one.  The doubles of   *)
(* the code multiply by rounded reciprocals: where the exact place is a    *)
(* whole number the product may fall short of it, and the cut to int takes *)
(* the place before; FallsShort says where.  Elsewhere the rounding is far *)
(* smaller than the distance to the next whole number.                     *)
(* The smallest positive double, with which max_val starts, is 0 here: it  *)
(* disappears in every difference but that with 0 itself.                  *)
(***************************************************************************)
EXTENDS PackedMatrix

CONSTANTS
    MapSize,      \* colormap.size
    FallsShort    \* scalings whose product falls short of a whole number

ASSUME MapSizeAssumption == MapSize \in Nat \ {0}

\* The value times MapSize - 1, over the range and over the roots of the row's
\* and the column's sum of squares: such a product falls short of a whole
\* number that is not 0, and never when there is nothing to divide by.
Scalings == [value : Nat, range : Nat, rows : Nat, columns : Nat]

ASSUME RoundingAssumption ==
    \A s \in FallsShort :
        /\ s \in Scalings
        /\ s.range # 1 \/ s.rows # 1 \/ s.columns # 1
        /\ \E i \in 1 .. s.value * (MapSize - 1) :
              i * i * (s.range * s.range * s.rows * s.columns)
                  = s.value * (MapSize - 1) * (s.value * (MapSize - 1))

VARIABLES
    seen,                  \* entries the loop over _m has passed
    stats_ready,           \* load_matrix has returned: something may be drawn
    max_val, min_val,      \* matrix_stats
    rnorm, cnorm,          \* squares of the norms
    norm_boxes,            \* live variables norm_rows and norm_columns
    normalization_state,
    colormap_invert

stats == <<seen, stats_ready, max_val, min_val, rnorm, cnorm>>
colorvars == <<matrix, stats, norm_boxes, normalization_state, colormap_invert>>

----------------------------------------------------------------------------
Smallest == 0
Larger(v, w) == IF v < w THEN w ELSE v
Smaller(v, w) == IF w < v THEN w ELSE v

\* min_val starts with the largest double, to which the 0 here is a stand-in
\* until there is an entry.
ColorInit ==
    /\ matrix \in Matrices
    /\ seen = {}
    /\ stats_ready = FALSE
    /\ max_val = Smallest /\ min_val = 0
    /\ rnorm = [r \in Rows |-> 0] /\ cnorm = [c \in Columns |-> 0]
    /\ norm_boxes = {}
    /\ normalization_state = "none"
    /\ colormap_invert = FALSE

\* The loop over rows and the entries of a row, in the order of the arrays.
Before(e, f) == e[1] < f[1] \/ (e[1] = f[1] /\ e[2] < f[2])
IsNext(e) == e \notin seen /\ \A f \in DOMAIN matrix : Before(f, e) => f \in seen

CountEntry ==
    /\ ~stats_ready
    /\ \E e \in DOMAIN matrix :
          LET val == matrix[e]
          IN  /\ IsNext(e)
              /\ seen' = seen \cup {e}
              /\ max_val' = Larger(max_val, val)
              /\ min_val' = IF seen = {} THEN val ELSE Smaller(min_val, val)
              /\ rnorm' = [rnorm EXCEPT ![e[1]] = @ + val * val]
              /\ cnorm' = [cnorm EXCEPT ![e[2]] = @ + val * val]
    /\ UNCHANGED <<matrix, stats_ready, norm_boxes, normalization_state, colormap_invert>>

StatsDone ==
    /\ ~stats_ready
    /\ seen = DOMAIN matrix
    /\ stats_ready' = TRUE
    /\ UNCHANGED <<matrix, seen, max_val, min_val, rnorm, cnorm, norm_boxes,
                   normalization_state, colormap_invert>>

\* A check box with glui_callback.
NormBox ==
    /\ stats_ready
    /\ \E box \in {"rows", "columns"} :
          norm_boxes' = IF box \in norm_boxes THEN norm_boxes \ {box} ELSE norm_boxes \cup {box}
    /\ normalization_state' = StateOf(norm_boxes')
    /\ UNCHANGED <<matrix, stats, colormap_invert>>

InvertColormap ==
    /\ stats_ready
    /\ colormap_invert' = ~colormap_invert
    /\ UNCHANGED <<matrix, stats, norm_boxes, normalization_state>>

ColorNext == CountEntry \/ StatsDone \/ NormBox \/ InvertColormap

ColorSpec == ColorInit /\ [][ColorNext]_colorvars

----------------------------------------------------------------------------
\* draw_matrix_dispatch: one value only gets a range of one below it.  Without
\* a positive value max_val is the smallest double, above every min_val.
AllEqual == max_val > Smallest /\ max_val = min_val

\* The variants named next to a definition are slips it must not contain; the
\* runs check that each breaks a property.
LowestIsZero == 0
Lowest == IF AllEqual THEN max_val - 1 ELSE min_val

\* What the cut to int loses to rounding.
Lost(scaling) == IF scaling \in FallsShort THEN 1 ELSE 0

\* The value's place in the colormap, (int)(v*(colormap.size-1)), without
\* norms.  If all values are 0 it is 0, divided by the smallest double.
RangeScaling(e) ==
    [value |-> matrix[e] - Lowest, range |-> max_val - Lowest, rows |-> 1, columns |-> 1]
Ranged(e) ==
    IF max_val = Lowest THEN 0
    ELSE ((matrix[e] - Lowest) * (MapSize - 1)) \div (max_val - Lowest)
             - Lost(RangeScaling(e))

\* With norms: the squares of what the value is divided by.  Where their
\* product is 0 the value is 0, times infinity, and its place is undefined.
RowSquare(e) == IF normalization_state \in {"row", "row_column"} THEN rnorm[e[1]] ELSE 1
ColumnSquare(e) ==
    IF normalization_state \in {"column", "row_column"} THEN cnorm[e[2]] ELSE 1
NormSquare(e) == RowSquare(e) * ColumnSquare(e)
Defined(e) == NormSquare(e) # 0

\* The conversion to int cuts towards 0, from either side.
Size(v) == IF v < 0 THEN -v ELSE v
Top(e) == Size(matrix[e]) * (MapSize - 1)
NormScaling(e) ==
    [value |-> Size(matrix[e]), range |-> 1, rows |-> RowSquare(e), columns |-> ColumnSquare(e)]
WholeRoot(e) ==
    CHOOSE i \in 0 .. Top(e) :
        /\ i * i * NormSquare(e) <= Top(e) * Top(e)
        /\ Top(e) * Top(e) < (i + 1) * (i + 1) * NormSquare(e)
NormedSize(e) == WholeRoot(e) - Lost(NormScaling(e))
Normed(e) == IF matrix[e] < 0 THEN -NormedSize(e) ELSE NormedSize(e)

Place(e) == IF normalization_state = "none" THEN Ranged(e) ELSE Normed(e)

InvertedOneOff(place) == MapSize - place
Inverted(place) == MapSize - 1 - place

colormap_entry(e) == IF colormap_invert THEN Inverted(Place(e)) ELSE Place(e)

----------------------------------------------------------------------------
\* Properties.

ColorTypeOK ==
    /\ matrix \in Matrices /\ seen \subseteq DOMAIN matrix
    /\ stats_ready \in BOOLEAN /\ colormap_invert \in BOOLEAN
    /\ max_val \in Nat /\ min_val \in Int
    /\ rnorm \in [Rows -> Nat] /\ cnorm \in [Columns -> Nat]
    /\ norm_boxes \subseteq {"rows", "columns"}
    /\ normalization_state \in {"none", "row", "column", "row_column"}

InMap(e) == colormap_entry(e) \in 0 .. (MapSize - 1)

\* draw_matrix takes a colour of the map: for every value without norms, and
\* with norms for every value that is not negative, unless its norm is 0.
ColorsInMap ==
    stats_ready =>
        \A e \in DOMAIN matrix :
            (normalization_state = "none" \/ (matrix[e] >= 0 /\ Defined(e))) => InMap(e)

\* The statistics stay what they may be, and the index computed from them stays
\* inside the map.
ColorInv == ColorTypeOK /\ ColorsInMap

\* A larger value gets no lower colour, among values with the same norms,
\* whatever the rounding does to either.  And without norms, if some value is
\* positive: the greatest has the map's last colour or, when rounded, the one
\* before; the last one for certain when all are equal; and a least below it
\* has the first.
ColorsFollowValues ==
    stats_ready =>
        /\ \A e, f \in DOMAIN matrix :
              (/\ RowSquare(e) = RowSquare(f) /\ ColumnSquare(e) = ColumnSquare(f)
               /\ Defined(e) /\ matrix[e] <= matrix[f])
                  => Place(e) <= Place(f)
        /\ (normalization_state = "none" /\ max_val > Smallest) =>
              \A e \in DOMAIN matrix :
                  /\ matrix[e] = max_val => Place(e) \in {MapSize - 2, MapSize - 1}
                  /\ AllEqual => Place(e) = MapSize - 1
                  /\ (matrix[e] = min_val /\ min_val < max_val) => Place(e) = 0

\* draw_matrix_dispatch's comment: "shows the high end of the colormap if the
\* values are all equal".  The code contradicts it: max_val starts at the
\* smallest positive double, so values that are all negative or all 0 have a
\* range that is not 0 and are its low end.
EqualValuesShowHighEnd ==
    (stats_ready /\ normalization_state = "none"
        /\ \A e, f \in DOMAIN matrix : matrix[e] = matrix[f]) =>
            \A e \in DOMAIN matrix : Place(e) = MapSize - 1

===============================================================================
