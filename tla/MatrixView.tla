------------------------------ MODULE MatrixView ------------------------------
(***************************************************************************)
(* What of the matrix is shown where.  The canvas draws each entry through *)
(* the permutations; the data panel, a window of its own, tells which      *)
(* entry is under the cursor.  The canvas looks columns up in cperm, the   *)
(* panel in icperm; the panel gets its text when the canvas is drawn and   *)
(* shows it when it is drawn itself, each when GLUT gets to it.            *)
(*                                                                         *)
(* The whole matrix is in view and is drawn by one call of display().      *)
(***************************************************************************)
EXTENDS PackedMatrix

CONSTANTS
    RowFiles,         \* what a file given with --rperm may hold
    ColumnFiles,      \* the same with --cperm
    Leftover          \* what the panel's fields may hold before they are assigned

Text == [row : Int, col : Int, val : Int]

ASSUME FilesAssumption ==
    RowFiles \subseteq [Rows -> Rows] /\ ColumnFiles \subseteq [Columns -> Columns]
ASSUME LeftoverAssumption == Leftover \subseteq Text /\ Leftover # {}

VARIABLES
    files,               \* permutation files given: "rows", "columns"
    irperm,              \* row of the matrix at each row of the display
    icperm, cperm,       \* the same for columns, and its inverse
    checked,             \* live variables perm_rows and perm_columns
    permutation_state,
    data_panel_visible,
    cursor,              \* data_cursor: display row y and column x
    text,                \* data_panel: row, col, val
    picture,             \* points of the canvas
    panel,               \* what the panel's window shows
    posted               \* windows with a redisplay posted

loaded == <<matrix, files, irperm, icperm, cperm>>
vars == <<matrix, files, irperm, icperm, cperm, checked, permutation_state,
          data_panel_visible, cursor, text, picture, panel, posted>>

----------------------------------------------------------------------------
\* load_permutations: cperm[p] = c for each c, over zeros; a column the file
\* does not name keeps its 0.
\* The variants named next to a definition are slips it must not contain; the
\* runs check that each breaks a property.
LastThatNames(f, S, p) ==
    CHOOSE c \in S : f[c] = p /\ \A d \in S : f[d] = p => d <= c
Inverse(f, S, unnamed) ==
    [p \in Columns |-> IF \E c \in S : f[c] = p THEN LastThatNames(f, S, p) ELSE unnamed]

InverseOfAllButLast(f) == Inverse(f, 0 .. (NCols - 2), 0)
InverseOf(f) == Inverse(f, Columns, 0)

\* A vector that was not loaded is empty.
Empty == [i \in {} |-> 0]

\* matrix_canvas::draw reads these through permutation_state.
RowsPermuted == permutation_state \in {"row", "row_column"}
ColumnsPermuted == permutation_state \in {"column", "row_column"}

RowAt(y) == IF RowsPermuted THEN irperm[y] ELSE y
ColumnAt(x) == IF ColumnsPermuted THEN icperm[x] ELSE x
PlaceOf(j) == IF ColumnsPermuted THEN cperm[j] ELSE j

\* draw_matrix: row by row of the display, every entry of the matrix's row.
Drawn == {[x |-> PlaceOf(e[2]), y |-> e[1], row |-> RowAt(e[1]), col |-> e[2]] :
             e \in {d \in Rows \X Columns : <<RowAt(d[1]), d[2]>> \in DOMAIN matrix}}

\* matrix_canvas::key, 'o': write_svg has a loop of its own, which tests the
\* permutation state at every entry and gives the circle cx = pi, cy = pj.
CirclePlace(j) == IF ColumnsPermuted THEN cperm[j] ELSE j
Circles ==
    UNION { {[x |-> pi, y |-> CirclePlace(j), row |-> RowAt(pi), col |-> j] :
                j \in {k \in Columns : <<RowAt(pi), k>> \in DOMAIN matrix}} : pi \in Rows }

matrix_value(r, c) == IF <<r, c>> \in DOMAIN matrix THEN matrix[<<r, c>>] ELSE 0

\* draw's call of data_panel.update.
Inspected ==
    LET r == RowAt(cursor.y)
        c == ColumnAt(cursor.x)
    IN  [row |-> r, col |-> c, val |-> matrix_value(r, c)]

Init ==
    /\ matrix \in Matrices
    /\ files \in SUBSET {"rows", "columns"}
    /\ irperm \in IF "rows" \in files THEN RowFiles ELSE {Empty}
    /\ icperm \in IF "columns" \in files THEN ColumnFiles ELSE {Empty}
    /\ cperm = IF "columns" \in files THEN InverseOf(icperm) ELSE Empty
    /\ checked = {}
    /\ permutation_state = "none"
    /\ data_panel_visible = TRUE
    /\ cursor = [x |-> 0, y |-> 0]
    /\ text \in Leftover
    /\ picture = {}
    /\ panel \in Leftover
    /\ posted = {"canvas", "panel"}

----------------------------------------------------------------------------
\* glut_2d_canvas::display of the canvas, with draw.  data_panel.update posts
\* a redisplay of the panel: it makes its own window current to do so.
CurrentWindow == "canvas"
UpdatedWindow == "panel"

Display ==
    /\ "canvas" \in posted
    /\ picture' = Drawn
    /\ IF data_panel_visible
         THEN text' = Inspected /\ posted' = (posted \ {"canvas"}) \cup {UpdatedWindow}
         ELSE posted' = posted \ {"canvas"} /\ UNCHANGED text
    /\ UNCHANGED <<loaded, checked, permutation_state, data_panel_visible, cursor, panel>>

\* matrix_data_panel::display; GLUT draws no hidden window.
DisplayPanel ==
    /\ "panel" \in posted
    /\ data_panel_visible
    /\ panel' = text
    /\ posted' = posted \ {"panel"}
    /\ UNCHANGED <<loaded, checked, permutation_state, data_panel_visible, cursor, text,
                   picture>>

\* Arrow keys, clicks and drags of the cursor, see Interaction.
MoveCursor ==
    /\ \E x \in Columns, y \in Rows : cursor' = [x |-> x, y |-> y]
    /\ posted' = posted \cup {"canvas"}
    /\ UNCHANGED <<loaded, checked, permutation_state, data_panel_visible, text, picture,
                   panel>>

\* A check box: GLUI writes the live variable, posts a redisplay of the canvas
\* and calls glui_callback.  main makes a box only for a file that was given.
Boxes == files

CheckBox ==
    /\ \E box \in Boxes :
          checked' = IF box \in checked THEN checked \ {box} ELSE checked \cup {box}
    /\ permutation_state' = StateOf(checked')
    /\ posted' = posted \cup {"canvas"}
    /\ UNCHANGED <<loaded, data_panel_visible, cursor, text, picture, panel>>

\* matrix_canvas::menu, toggle cursor.  Only showing the panel posts it.
OnlyPanel == {"panel"}
PostedByShow == {"canvas", "panel"}

ShowPanel ==
    /\ ~data_panel_visible
    /\ data_panel_visible' = TRUE
    /\ posted' = posted \cup PostedByShow
    /\ UNCHANGED <<loaded, checked, permutation_state, cursor, text, picture, panel>>

HidePanel ==
    /\ data_panel_visible
    /\ data_panel_visible' = FALSE
    /\ posted' = posted \cup {"canvas"}
    /\ UNCHANGED <<loaded, checked, permutation_state, cursor, text, picture, panel>>

\* The window system asks for either window.
Expose ==
    /\ \E window \in {"canvas", "panel"} : posted' = posted \cup {window}
    /\ UNCHANGED <<loaded, checked, permutation_state, data_panel_visible, cursor, text,
                   picture, panel>>

Handler == MoveCursor \/ CheckBox \/ ShowPanel \/ HidePanel \/ Expose

Next == Display \/ DisplayPanel \/ Handler

Spec == Init /\ [][Next]_vars /\ WF_vars(Display) /\ WF_vars(DisplayPanel)

----------------------------------------------------------------------------
\* Properties.

TypeOK ==
    /\ matrix \in Matrices
    /\ files \subseteq {"rows", "columns"}
    /\ irperm \in RowFiles \cup {Empty}
    /\ icperm \in ColumnFiles \cup {Empty}
    /\ cperm \in [Columns -> Columns] \cup {Empty}
    /\ checked \subseteq {"rows", "columns"}
    /\ permutation_state \in {"none", "row", "column", "row_column"}
    /\ data_panel_visible \in BOOLEAN
    /\ cursor \in [x : Columns, y : Rows]
    /\ text \in Text /\ panel \in Text
    /\ picture \subseteq [x : Columns, y : Rows, row : Rows, col : Columns]
    /\ posted \subseteq {"canvas", "panel"}

\* No permutation is used that was not loaded: the vectors are empty then, and
\* draw indexes them without a test.
LoadedBeforeUse ==
    /\ RowsPermuted => "rows" \in files
    /\ ColumnsPermuted => "columns" \in files

\* Nothing is posted that GLUT will draw.
AtRest == "canvas" \notin posted /\ (data_panel_visible => "panel" \notin posted)

\* A file that names everything once.
IsPermutation(f) == \A p \in DOMAIN f : \E c \in DOMAIN f :
    f[c] = p /\ \A d \in DOMAIN f : f[d] = p => d = c

\* When everything posted is drawn, the panel tells of the entry drawn under
\* the cursor: its row and column in the file, and its value, or 0 where the
\* picture has none.  The column file has to be a permutation.
PanelAgrees ==
    (AtRest /\ data_panel_visible /\ IsPermutation(icperm)) =>
        LET under == {d \in picture : d.x = cursor.x /\ d.y = cursor.y}
        IN  /\ \A d \in under : d.row = panel.row /\ d.col = panel.col
            /\ under # {} => panel.val = matrix[<<panel.row, panel.col>>]
            /\ under = {} => panel.val = 0

\* Permutations move the entries about, they neither hide nor double one.
NothingHidden ==
    ("canvas" \notin posted /\ IsPermutation(irperm) /\ IsPermutation(icperm)) =>
        /\ \A e \in DOMAIN matrix : \E d \in picture : <<d.row, d.col>> = e
        /\ \A d, f \in picture : (d.x = f.x /\ d.y = f.y) \/ (d.row = f.row /\ d.col = f.col)
                                    => d = f

\* The canvas and the panel do not redraw each other for ever: once the user
\* lets go, everything posted gets drawn.
ViewSettles == <>[][~Handler]_vars => <>[]AtRest

\* write_svg's file: "Functions to save the current view as an SVG file."  What
\* `o' saves while no redraw is due is what the canvas shows.  The code
\* contradicts it: a circle's cx is the row and its cy the column.
SvgShowsView == "canvas" \notin posted => Circles = picture

===============================================================================
