# vismatrix: specifications, model checking and proofs

vismatrix shows a sparse matrix as coloured points in a GLUT/OpenGL window. It is a
single-threaded, event-driven C++ program: `main` loads a matrix, optional
permutations and labels, builds the window, the data panel and the GLUI controls, and
gives control to `glutMainLoop`, which from then on calls handlers. Nothing runs in
parallel; what is hard is the order in which handlers run between two calls of the
display handler, handlers that call each other, and loaders that work in place on
arrays sized from what a file announces.

This directory holds TLA+ modules of these parts, TLC configurations that check them on
small instances, and TLAPS proofs of the main results for every instance. Paths below
are relative to the repository's root directory.

## Inventory

| component | source | state | operations | modelled |
|---|---|---|---|---|
| display loop and sweep | `src/glut_2d_canvas.cc`, `src/matrix_canvas.cc` `draw`, `draw_matrix` | `display_finished`, `frame`, the two buffers, view and look | `display` and every handler that asks for a redisplay | `CanvasDisplay` |
| matrix loader | `src/yasmic/util/load_crm_matrix.hpp` | the arrays rows, cols, vals; pass counters; warning | `load_crm_graph_type`, `load_matrix_to_crm` | `CrmLoad`, `MatrixLoad` |
| packing and sorting | `src/yasmic/compressed_row_matrix.hpp` | the arrays, work array `wa`, `cur_elem` | `pack_storage`, `sort_storage`, `matrix_value`, the nonzero iterator | `PackStorage`; the iterator in `Symmetrize` |
| window layout | `src/matrix_canvas.cc` `reshape`, `show_data_panel`, `hide_data_panel` | window size, stored size, panel visible/mapped, viewport, call stack | resize, menu commands | `PanelLayout` |
| loading pipeline | `matrix_canvas::load_matrix`, `nonzero_union.hpp`, `transpose_matrix.hpp` | `_m`, statistics, norms | load, symmetrize, pack, statistics | `Symmetrize`, `Pipeline`; statistics in `ColorIndex` |
| file name dispatch | `load_crm_matrix` | none | choose a reader | `MatrixReaders` |
| readers | `ifstream_matrix`, `binary_ifstream_*`, `cluto_ifstream_matrix`, `graph_ifstream_matrix` | stream position, line buffer, current entry | detect the format, iterate | `MatrixReaders` |
| drawing and inspection | `draw_matrix*`, `matrix_data_panel.cc`, `colormaps.hpp` | permutations, normalisation, colormap, the panel's text | draw, panel update and display | `MatrixView`, `ColorIndex` |
| interaction | `motion`, `mouse_click`, `special_key`, `matrix_data_cursor.hpp` | two drag states, cursor, pan, zoom | mouse, keys | `Interaction` |
| permutation and label files | `load_permutations`, `load_labels`, `util/file.hpp` | stream position, the vectors, the labels | test for gzip, read | `PermutationFiles` |
| controls, startup | `src/vismatrix.cc` | live variables of the check boxes | `glui_callback`, `main` | check boxes in `MatrixView` and `ColorIndex`; `main` in `Windows` and `PermutationFiles` |
| window dispatch | `glut_window.hpp`, GLUI's callbacks in `glui.cpp` | map from window to object, current window | every GLUT callback | `Windows` |
| coordinate arithmetic | `gl_util.cc`, `set_zoom`, `set_center` | projection, zoom, centre | pixel to matrix and back | not modelled, see below |
| SVG export | `matrix_canvas_svg_output.cc` | none | write | positions in `MatrixView` |
| command line, vendored code | TCLAP, GLUI, Boost | | | not modelled, see below |

How they interact. `main` calls `load_matrix` (reader -> loader -> optional symmetrize
-> pack -> sort -> statistics), `load_permutations`, `load_labels`, then
`post_constructor`, which shows the panel and so calls `reshape`. Afterwards GLUT calls
`display`, `reshape`, `motion`, `mouse_click`, `special_key`, `key` and `menu`, and GLUI
calls `glui_callback`. They share the fields of one `matrix_canvas`: `display` reads
what all others write; `display_finished` and `frame` are the only memory from one
`display` to the next. `reshape`, `show_data_panel` and `hide_data_panel` call each
other.

What makes each component correct:

* *sweep*: it is never stuck half way, never runs past the matrix, ends when the user
  lets go, and what stands in the window is one picture of one view;
* *loader*: it stays inside its arrays whatever the file holds, accepts exactly the
  files whose header fits their entries, and leaves compressed row storage of them;
* *packing*: in-place merging reads before it overwrites, marks of one row do not leak
  into the next, and afterwards a lookup gives the sum of the entries of a position;
* *layout*: after every event, nested calls included, stored size, viewport and panel
  agree with the window, and handling an event ends;
* *interaction*: the cursor stays in the matrix, no drag outlives the buttons, and a
  drag that takes over from another does not jump;
* *drawing and inspection*: panel and picture name the same entry whatever the
  permutation, no entry is hidden, colours come from the map and follow the values, and
  the two windows do not redraw each other for ever;
* *pipeline*: what is shown is the sum of the file's entries, or A + A^T; packing, which
  tests nothing, is handed compressed rows;
* *readers*: both passes of the loader see the same entries, those that were written, in
  the rows their lines say; a CLUTO file is taken for what it is; reading ends;
* *permutation and label files*: both permutations or none, each vector what its file
  says and `cperm` the inverse of `icperm`, a label for every line;
* *window dispatch*: what is done to the current window reaches the window meant,
  whatever changed is drawn again, and the windows do not resize each other for ever.

The hazards behind these, each at its source line, are listed in `PROJECT.json`.

## Modules

### CanvasDisplay (display loop)

`matrix_canvas::draw` paints a matrix of at least 2 * 16384 rows, seen from so far that
the view spans 16384 or more, in stripes of 16384 rows, one per call of `display`.
`draw` sets `display_finished` to false while stripes are left; `display` then swaps the
buffers, posts itself again and next time continues, with `frame` one higher, without
clearing.

A buffer is the set of `<<row, view, look>>` painted since it was last cleared. A *view*
is what `world_extents` returns, floored, for the rows (`r1`, `r2`), and whether it is
far; zoom, pan, aspect and window size act on drawing only through it. A *look* is
everything else `draw` reads: colours, permutation, normalisation, alpha, cursor.
`Display` is `glut_2d_canvas::display` with `draw` inside. The other actions are the
handlers, in two groups that the code treats differently:

* `StartsOver`: `motion` and the `update_screen` cases of `menu` set `display_finished`;
* `CarriesOn`: colormap entries, arrow keys, mouse clicks, GLUI controls, resizes and
  exposures post a redisplay only.

`mixed` is a history variable: a handler of the second group changed view or look inside
the sweep in progress. In the code such a sweep does leave stripes of two pictures in
the window; the properties of the picture are stated for sweeps that were not mixed, and
those about the control state (`SweepScheduled`, `FrameInMatrix`, `ComesToRest`) for all.
What `glutSwapBuffers` does to the back buffer is the platform's choice; it is fixed for a
*session*, like the matrix and the views that can be reached, and a run may have several
sessions. The loop leaves out display row `floor(y2)`, as the code does.

### CompressedRows, CrmLoad and MatrixLoad (loader)

`CompressedRows` says what the loader is given and, without a state of its own, which
slot compressed row storage has for each entry; the loader and the symmetrizing branch
share it.

`CrmLoad` has one step per loop iteration: reading the degree file, the counting pass,
`partial_sum`, the placing pass (which moves the row starts as cursors), the reverse copy
that recovers them. A step that would index outside an array goes to `pc = "undefined"`,
so that "stays inside the arrays" is a property and not an assumption. The degree file
may be absent, text or binary, of any size; the character tested for binary content is
read at the end of the file, never assigned, and so the test has either outcome, where
the comment there has the first 100 characters decide.

`MatrixLoad` is the promise: one step from file to rows or to a rejection, and nothing for
a file with a wrong degree file beside it, which the loader trusts.
`LoadRefinement` gives the refinement mapping (rows are read off the arrays once the load
is done) and the property `ImplementsMatrixLoad`, which includes that every load ends.

### PackStorage (packing, sorting, lookup)

`pack_storage` element by element on the arrays in place, with `wa`, then
`sort_storage`, in which `std::sort` is any permutation of a row's slots that puts the
columns in order, then `matrix_value` as an operator. `Unused` is -1 for
`numeric_limits::max()`: neither is a slot.

### PanelLayout (layout)

One step per call and return: the recursion `reshape` -> `hide_data_panel` -> `reshape`
is what the module is about. Every frame on the stack is a `reshape` waiting for
`hide_data_panel`, so the stack is its depth. `get_viewport_area` of GLUI (the window
less the controls' subwindow at the bottom) is included since the layout depends on it.
The size given to the data panel is the one requested from GLUT; the projection set up
by `glut_2d_canvas::reshape` is arithmetic and left out.

### Interaction (mouse and keys)

One action per branch of `mouse_click`, `motion` and `special_key`, with the data
cursor's handlers and `glut_2d_canvas`'s behind them. The cursor has one drag state
(`state`), the canvas another (`mouse_state`); both measure from `mouse_begin`. Cursor
positions are whole numbers of half entries, enough for the half entry a click adds and
for the cut to an integer. Where in the matrix a pixel lies is any point of `World`, and
a drag moves the cursor any small distance in the pointer's direction: the arithmetic of
projection and zoom is abstract. `grip` is a history variable: the panned point less the
pointer when the last button went down. The program is assumed to be told of every
release of a button, which GLUT's pointer grab gives. What the handlers ask of the
display is in `CanvasDisplay`.

### MatrixView (what is shown where)

The canvas draws an entry of column j at `cperm[j]`; the panel looks column x of the
display up in `icperm`, and both rows in `irperm`. `load_permutations` builds the one
from the other, and the two have to agree in every permutation state. The canvas and the
panel are two windows: `draw` sets the panel's text and posts the panel, which shows the
text when GLUT draws it. `posted` is the set of windows with a redisplay due.
`Leftover` is what the panel's fields hold before `draw` first assigns them (the
constructor does not). A permutation file may name a row twice, but all its numbers are
in range; the reading of the file is `PermutationFiles`. The whole matrix is in view
and drawn by one `display`; partial views and stripes are the subject of
`CanvasDisplay`. `Circles` is what `write_svg` (key `o`) writes of the same view, with
row and column exchanged; `SvgShowsView` says what it should be.

### ColorIndex (which colour)

The statistics of `load_matrix`, one entry of the matrix at a time (`CountEntry`, in the
order of the arrays), then the scaling in `draw_matrix` for every combination of the
normalisation boxes and for the inverted map. `PackedMatrix` is the matrix that this
module and `MatrixView` draw from. Values are whole numbers, norms are
kept as sums of squares, and a scaled value is a ratio or the square root of one. The
code multiplies by rounded reciprocals instead of dividing, and cuts the product to int:
where the exact product is a whole number the double may be below it, and the colour is
the one before. 49 in a range of 49 gets colour 62 of 0 to 63. `FallsShort` is the set of
scalings (value, range, squares of the norms) to which this happens, any set for the
proofs, with what `RoundingAssumption` says of it: the exact product is whole and not 0,
and there is something to divide by. Where the exact product is not whole, it is further
from the next whole number than the rounding. `Smallest` = 0 stands for
`numeric_limits<double>::min()`, with which `max_val` starts.

### Symmetrize and Pipeline (from file to matrix)

With `--symmetrize`, `load_matrix` copies the loaded rows away, enlarges the arrays and
has `load_matrix_to_crm`, the function that reads files, read the union of the matrix and
its transpose into them. `Symmetrize` takes this entry by entry: `it` is the iterator of
the union, which runs over the compressed rows twice, skips empty rows by comparing row
ends, and exchanges row and column in the second half. `ai` is not enlarged when `nrows`
grows to `ncols`, and the iterator is dereferenced before it is compared with its end;
both are in the model, as steps to `pc = "undefined"`.

`Pipeline` composes the outcome of `CrmLoad` (compressed rows, or a rejection on which
`main` ends), the steps of `Symmetrize` and those of `PackStorage`
(`INSTANCE PackStorage WITH loaded <- mlarge`) on the same arrays, in the order of
`load_matrix`. `SymmetrizingIsLoading` states that the symmetrizing branch is `CrmLoad`
over the entries of the union, step by step: the refinement mapping is the instance
`UnionLoad`.

### PermutationFiles (permutations and labels)

`load_permutations` and `load_labels` read up to four files. Each is opened, given to
`gzip_header`, which takes two characters from the stream if the library has any ready
(`delivered`, fixed for a behaviour), and rewound only if it is compressed; `TextLeft` is
what it leaves of a plain one. Permutations
are then read from the file stream while the loop tests the filtering stream above it,
so that a short file is not noticed: the remaining places get `Garbage`. Labels are read
from the filtering stream; an empty or untested file taken for compressed never reaches
its end (`LabelsStuck`). A number cut short by the two characters is another number: a
line is therefore the sequence of the numbers it reads as from its first character on,
from its second on, and so forth, and `WithoutFirst` is `Tail`. `file` is the file being
read, or the question `main` asks next; `used` counts the lines of the stream from which
operator `>>` has taken a number, the next number being the first of `NumbersAhead`.

### Windows (the three windows and the current one)

`main` builds canvas, panel and controls one action at a time (`Start`), then GLUT's loop
(`Loop`: the callbacks due, of whichever window) and the user (`User`) take turns. A
callback finds its own window current and may leave another one so; `posted`, `resized`
and `context` record what was asked of which window and with whose projection it will be
drawn. GLUI's part, which calls `reshape`, `special_key` and `mouse_click` of the canvas
and draws the controls, is included as far as it calls back or changes the current
window. Whether GLUT announces every size it is given or changes only is a parameter,
`Announcing`. `PanelLayout` has the heights; widths alone decide here.

### MatrixReaders (which reader, and what it delivers)

`Reader` is `load_crm_matrix`'s choice by hint and extension. The actions are the CLUTO
reader's detection of the format, header and lines in turn, and then, for every reader,
the iterator under the two passes of `load_matrix_to_crm`: entries are taken from the
line in the buffer (`TakeEntry`) or the next line is fetched (`FetchLine`), rows being
counted by lines. A file is a sequence of lines of tokens; `Word` is a token that is no
number and sets the fail bit. A file that is given to its reader compressed is one such
token. `Written` gives the file that writing a matrix in a format produces, for the
round trip in `ReadsWhatWasWritten`; `WrittenAssumption` says that a session that names a
format holds such a file, under a name or hint of that format, and compressed only where
its reader decompresses. Constructors that are told the size or the format
are not called by the program and are left out.

### The modules of the runs

An `MC` module gives a module's constants their values. Four more put two of them into
one run: `MCLoading` (`CrmLoad`, `MatrixReaders`), `MCHandlers` (`PanelLayout`,
`Interaction`), `MCDrawing` (`MatrixView`, `ColorIndex`) and `MCStartup` (`Windows`,
`PermutationFiles`), with the fairness of both. The program's own order is kept: main
reads the permutation files where `Windows` loads and ends with them when one is missing;
the statistics of the matrix that is drawn come first; a call of `reshape` returns before
the mouse is heard. Beyond that the two of a pair act on different state (`MCDrawing` has
the matrix in common), so nothing is gained by interleaving every step of the one with
every step of the other, and each behaviour follows one of them: `user` says which, and
in `MCLoading` one of the two files is always the same.

## Runs

| run | instance | shows |
|---|---|---|
| `Display` | stripes of 2, two looks; 7 rows with five views and a copying swap, 7 rows with two views and an exchanging one, 3 rows (below the striping limit) | `SweepScheduled`, `FrameInMatrix`, `WholePicture`, `NoStripeLost`, `ComesToRest` |
| `Loading` | `CrmLoad`: all files of 0..2 rows, up to 3 entries in or out of bounds, headers announcing 0..3; 1..2 rows and 2 entries with degree files of 1..3 numbers below, at and above the binary size. `MatrixReaders`: every matrix of up to 2 x 2, 1 x 3, and 2 x 0, of values 0, 1, 3 in each of the eight formats that can hold it, compressed and not in the three flat ones; stray files of up to three lines under every name | `StaysInArrays`, `AcceptsWellFormed`, `StorageIsExact`, refinement of `MatrixLoad`; same entries in both passes, the round trip, rows are lines, detection, reading ends |
| `Pack` | all matrices of up to 3 rows, 2 columns, up to 4 entries | packing reads ahead of its writes, rows come out increasing, a lookup gives the total |
| `Handlers` | `PanelLayout`: windows around each threshold, controls of 40 pixels. `Interaction`: 2 x 2 matrix, four pixels, three buttons and modifiers, pan and zoom of one step | stored size, viewport and panel agree with the window; where there is room, the recursion is one call deep (`OneNestedCall`) and ends (`EventsEnd`); cursor bounds, drags against buttons, grip |
| `LayoutSmall` | `PanelLayout` as above | violation of `SmallWindowHidesPanel`: unbounded recursion in a low window |
| `Drawing` | `MatrixView`: three matrices of 2 x 3, two row files and two column files, given or not. `ColorIndex`: all matrices with entries in two rows and two columns, of values -2, -1, 0, 1, 3, 49, map of 64 colours | panel against picture, permutations, redisplays come to rest; colours in the map and the statistics while they are gathered (`ColorInv`), colours following the values |
| `ViewSvg` | `MatrixView` as above | violation of `SvgShowsView`: the SVG file shows the transpose |
| `ColorsEqual` | `ColorIndex` as above, in two columns | violation of `EqualValuesShowHighEnd`: a matrix of zeros has the low end of the map |
| `Pipeline` | all matrices of 2 x 2 with up to 3 entries, 3 x 3, 3 x 2 and 1 x 2 with two, 2 x 3 with one; symmetrized or not | arrays, the ignored result and what packing is handed (`PipeInv`), the sum shown, refinement of `CrmLoad`, the load ends |
| `Startup` | `Windows`: two widths, controls or none, both kinds of GLUT. `PermutationFiles`: 2 x 2, 2 x 3 and 3 x 2; sixteen permutation files and ten label files in all pairs | both or none, vectors against what is left of the files and against each other, labels against lines, reading ends; nothing stays stale, the panel's projection, the windows settle |
| `Files` | `PermutationFiles` as above | violation of `FilesUsedAsGiven`: a file with too few numbers is loaded, and the first number or label is cut or lost |
| `Detection` | `MatrixReaders` as above | violation of `ShortLineIsSparseGraph`: a sparse graph with an empty first row is taken for a dense matrix |

Bounds. *Display*: 7 rows in stripes of 2 give four stripes, the last a short one; the
views cover a sweep over the whole matrix, one that ends inside it, one above the matrix
(no stripe), and near views inside and across the last row; any view can replace any
other in mid-sweep. *CrmLoad*: two rows suffice for entries of one row to be written into
another's slots; three entries for a duplicate and a stranger; every header that
announces too few or too many is there. *Pack*: two columns make any two entries of a
row duplicates or out of order; three rows let a gap opened in the first be carried over
two; values are powers of two, so that a sum tells its summands, with one pair that
cancels. *PanelLayout*: sizes below, at and above each threshold of `reshape`, for the window's height
and for the height stored beside controls and panel; `MaxDepth` = 4
calls stand for the program's stack, one more than any recursion that ends needs.
*Interaction*: two rows and columns have a border on each side and an entry to move to; clicks
land before the first entry, on it and beyond the last; four pixels allow moves along
each axis and both; `MaxPan` and `MaxZoom` stop panning and zooming one step from the
start, the drag states do not depend on how far they are. *MatrixView*: with three columns a
permutation can differ from its inverse; among the matrices are one with an empty row and
column and a full one; one file of each kind names something twice, so that the
condition in `PanelAgrees` and `NothingHidden` is needed; every value is different.
*ColorIndex*: one, several, equal, negative and zero values in one row or column; 3 gives
norms whose quotients are not whole; 49 a product that is rounded below a whole number
(`MCFallsShort` has every such scaling of these matrices, as IEEE doubles compute them);
64 is the size of the program's colormaps.
*Pipeline*: empty rows at the beginning, between and at the end, duplicates, entries on
the diagonal and in transposed pairs; a taller and a wider matrix and one without
entries, the cases in which the branch grows or leaves the arrays. *PermutationFiles*:
numbers of one to four digits against the two characters the gzip test takes; repeated,
missing and too many numbers, blank lines, compressed and absent files; one file for
both permutations. *Windows*: two widths tell a size that changed from one that did not,
and the first may differ from what `main` announces. *MatrixReaders*: 1 x 3 and 2 x 2 have odd
and even row lengths, which the detection tells apart; 3 is a value that is no column of
the smaller matrices; 2 x 0 is written as empty lines; stray lines are empty, odd, with a word, or with a column 0.
`CHECK_DEADLOCK FALSE` where the program really stops: the load or packing is done, or
the stack is used up, the files are read, or the user has quit.

Fairness. `CanvasDisplay`: weak fairness of `Display` only, since GLUT calls the display
handler when a redisplay is posted; the user owes nothing, so `ComesToRest` is stated for
behaviours in which handlers eventually stop. `CrmLoad`: weak fairness of the next step,
the loader is a sequential call; `Pipeline`,
`PermutationFiles` and `MatrixReaders` the same, for the calls `main` makes before the
loop. `PanelLayout`: weak fairness of the steps of a call in
progress, none of the events. `MatrixView`: weak fairness of the two display handlers,
since GLUT draws a visible window for which a redisplay is posted, and of no handler of
the user's; `ViewSettles` is stated for behaviours in which these stop. `Windows`: weak
fairness of `Start` (`main` goes on) and `Loop` (GLUT calls the callbacks that are due),
none of `User`; `WindowsSettle` is stated for behaviours in which the user stops.

Type invariants and the auxiliary invariants `SweepIsPrefix`, `OneFrameWhole`,
`CursorsInOwnRow`, `SlotsWrittenOnce`, `MarksOwnRow`, `PanelFits`, `DragFromPointer`,
`LoadedBeforeUse` and `StartedRight` are proved below for every value
of the constants and are not repeated in the runs. In modules without such a proof they
are parts of the run's `Inv` or `PipeInv`. `Inv` and `ReadingEnds` are the names of two
properties each, of `PermutationFiles` in the run `Startup` and of `MatrixReaders` in the
run `Loading`.

## Findings

Each is what a comment, the help or a message of the program says, stated as a property
that the run shows violated by what the code does. The quotations are in `PROJECT.json`.

* `LayoutSmall` (`SmallWindowHidesPanel`): `a && b || c` in `reshape` recurses for a low
  window even with the panel hidden; the comment says "if the window is too small, then
  hide it!". The same happens in windows that pass that test: the menus call
  `reshape(width, height)` with the stored height, which `reshape` has reduced by controls
  and panel. In a window of 109 pixels with controls of 40 and a panel of 50 it is 19, so
  an aspect ratio uses up the stack, as does toggling the cursor.
* `ViewSvg` (`SvgShowsView`): `write_svg` gives a circle the display row as `cx` and the
  column as `cy`, while `draw_matrix` has x for columns and the border of the file has,
  too. The file's header says that it saves "the current view".
* `ColorsEqual` (`EqualValuesShowHighEnd`): `max_val` starts at the smallest positive
  double, so that equal values that are not positive get the low end of the map. The
  comment says that equal values show the high end.
* `Files` (`FilesUsedAsGiven`): the loop that reads a permutation tests another stream for
  its end than it reads from and counts its rounds, not numbers. The refusal "only
  contains ... entries" is never reached, and a file with too few numbers is loaded. And
  `gzip_header` takes two characters from a plain file and nobody puts them back, so that
  the first number or label is cut short, or is gone and every row takes the next one's.
  The help says that the indices reorder the rows, and that the strings are the row
  labels. The trace of the run is the short file's; the property's parts, `RowsFollowFile`
  and `LabelsAreLines`, are each violated on their own as well, the first also by files
  with numbers enough.
* `Detection` (`ShortLineIsSparseGraph`): a row is tested token by token before its tokens
  are counted, and an empty row has one that cannot be converted, so that a sparse graph
  whose first row is empty is taken for a dense matrix; so is one with a column, in that
  row, beyond the second number of the header. The comment on the algorithm says that a
  first line with fewer tokens than that number makes a sparse graph, which it puts before
  the test for invalid integers; those it says make a dense graph, an outcome this test
  does not have.
The properties of the passing runs name the condition under which they hold, so that the
exceptions can be read off them. The last column has what the repository says otherwise:
a finding's run, or the place of a comment that no run is about.

| property | exception | said otherwise |
|---|---|---|
| `OneNestedCall`, `EventsEnd` | a window too low, or, for the menus, without 20 pixels beside controls and panel | `LayoutSmall` |
| `ColorsInMap` | a negative value under normalisation takes its colour from in front of the map: with norms nothing is subtracted | `matrix_canvas.cc:193`, "scale v to the range [0,1]" |
| `ColorsInMap` | with a norm of 0 the index is undefined | |
| `ColorsFollowValues` | equal values that are not positive get the low end of the map | `ColorsEqual` |
| `ColorsFollowValues` | the greatest value may have the last colour but one, by rounding | |
| `AcceptsWellFormed`, `StorageIsExact`, `StaysInArrays` | a text degree file may be read as binary, and counts then as a wrong one: `seekg` at line 222 leaves the stream at its end, and no character is tested | `load_crm_matrix.hpp:204-207`, the first 100 characters are tested |
| `AcceptsWellFormed`, `StorageIsExact`, `StaysInArrays` | the counts of a degree file are trusted | |
| `LoadingStaysInArrays` | symmetrizing a matrix with more columns than rows, or without entries, leaves the arrays | |
| `RowsFollowRest`, `LabelsFollowRest` | say it of what the gzip test leaves of a plain file | `Files` |
| `RowsFollowRest`, `WritesInVector` | a permutation file with too few numbers is accepted | `Files` |
| `DetectionRight` | a sparse graph with an empty first row, or columns beyond its number of entries in it, is taken for a dense matrix | `Detection` |
| `DetectionRight` | a dense matrix of odd width whose odd values are columns is taken for a sparse graph, and a sparse graph whose first row has half of the entries may be taken for a dense matrix | |
| `ReadingEnds` (`MatrixReaders`) | a word in the header of a CLUTO file: the loop over the header does not end | |
| `ReadingEnds` (`PermutationFiles`) | an empty or untested label file taken for compressed | |
| `PanelHasItsContext` | a GLUT that announces changes of size only: a panel that was hidden is drawn in the canvas's projection | |

## Proofs

`CanvasDisplayProofs`, for every height of matrix and stripe, set of views and looks:

* `TypeCorrect`: `TypeOK`.
* `SweepIsScheduled` (`SweepScheduled`) and `FrameStaysInMatrix` (`FrameInMatrix`). The
  invariant is `SweepInv`, which adds to them that an undisturbed unfinished sweep has a stripe left for the
  present `frame` and view. `FrameInMatrix` survives a view changed in mid-sweep because
  the guard `r2 != r2end` is evaluated in the `display` that set the flag, while a
  handler of the second group leaves `frame` and the matrix alone.
* `PictureIsWhole` (`WholePicture`), `SweepShowsPrefix` (`SweepIsPrefix`),
  `StripesAreKept` (`NoStripeLost`), `OneFrameIsWhole` (`OneFrameWhole`). The invariant is `PictureInv`: with a copying swap the two buffers
  are equal and hold the stripes 0 to `frame`; with an exchanging one each stripe is in
  one of them (`StripesKept`), since the buffer drawn on goes to the front and the one
  that was in front is kept as the back one. The step is that the rows of the next stripe
  begin where the last one ended, and that no stripe is left exactly when the sweep's end
  is reached.

`CrmLoadProofs`, for every set of files, so for any number of rows and entries:

* `TypeCorrect`, `LoadStaysInArrays`, `LoadAcceptsWellFormed`, `LoadCursorsInOwnRow`,
  `LoadStorageIsExact`, `LoadWritesSlotsOnce`.
* The invariants are `PassInv` (what the warning and the counters say about the entries
  seen) and `StorageInv` (what `ai` holds in each loop: in the counting pass the number
  of entries of the row above seen so far; during `partial_sum` the row starts up to `i`
  and the counts after it; in the placing pass each row's start plus the entries of it
  already placed; during the reverse copy the starts above `i`). The slot of entry k,
  its row's start plus its place in the row, is defined by cardinalities; the lemmas show
  that different entries have different slots, all below nnz.
* `LoadImplementsMatrixLoad`: under the mapping of `LoadRefinement`, the loader is
  `MatrixLoad` without its liveness. Every step before the last one leaves what is read
  off the arrays alone; the last step of the reverse copy completes the starts, and then
  `StorageInv` gives each row's slots. The two descriptions of the rows meet in the
  lemmas `PlaceIsRanked` (the place of an entry in its row is the number of entries of
  the row before it), `RowEntriesCount` and `RowsAreEntries`; that a place has an entry
  is a least-number argument. `AcceptsWellFormed` carries the error exits.

`CrmLoadProofs`, of `MatrixReaders`, for every set of sessions, so for any lines of any
tokens under any name and hint:

* `ReadersTypeCorrect` (`ReadTypeOK`), `PassesDeliverTheSame` (`PassesAgree`), the two
  together `ReadersAreSafe` (`Inv`), `RowsFollowLines` (`RowsAreLines`), `WrittenIsRead`
  (`ReadsWhatWasWritten`) and `FormatIsFound` (`DetectionRight`).
* `ReaderInv` adds to the types what each stage leaves to the next, and that the entries
  delivered belong to rows that are not after the present one. Entries and columns of the
  three flat readers have no type in it: of a stray file their joined lines may hold
  anything. Of a written one `FlatInv` says what they are.
* That both passes deliver the same does not depend on what a reader delivers, only on
  each pass beginning in one state (`Fresh`, which `StartPass` makes of whatever the
  detection has left) and each step being determined by the state (`After`). Instead of
  the states passed, which would be a history, the invariant speaks of sets closed under
  `After`. In the first pass, `FirstInv`: every closed set with `Fresh` has the present
  state. At its end, one more such set is closed, so every closed set with `Fresh` leads
  to the end that was seen; this is `SecondInv`, which each step of the second pass
  keeps. That the entries of the second pass are a prefix of those of the first is the
  closed set of the states whose entries extend the present ones (`SecondPassFollows`).
* `LinesInv` is for `RowsAreLines`. The entries of rows before r are the first `Before(r)`
  ones, a row that is over has as many entries as its line has readable ones, and what is
  left in the line buffer is the present row's line without the tokens of the entries
  taken from it. A step that fetches a line closes the row; a step that takes an entry
  lengthens the present row by the next place of its line (`EntryPlaced`).
* `ReadsWhatWasWritten` needs to know what writing gives. `Ends(S, n)` is how long the
  first n of a sequence of sequences are together, and `Flattened` says where in
  `FlattenSeq(S)` each of them stands; both are proved from the existence and uniqueness
  of the joined sequence, by induction over numbers. `IsCoding` says that some tokens are
  those of some entries, a fixed number (`WidthIn`) for each; it holds of a cell, and
  `CodingJoined` carries it to a row and from the rows to the whole matrix (`RowWritten`,
  `AllWritten`). `HeadingType`, `LinesWritten`, `HeaderWritten` and `FlatBody` say what
  the lines of a written file, its header and the rest of a flat one hold.
* At the end of a pass line by line, `LinesInv` already says that row i has the entries
  of line i + 2, so those of the written row (`EntryFound`), and that all rows together
  are `WrittenEntries` follows from `Flattened` (`LinesRead`); an empty line at the end is
  a row without entries, which no matrix has. For the flat formats `FlatInv` says that
  the entries delivered are the first ones written and that the buffer holds the tokens
  of the others. The header then gives the matrix's sizes (`SizesRead`), by which
  `load_matrix_to_crm` accepts both passes (`WrittenAccepted`).
* `DetectInv` is for `DetectionRight`: while lines are tested, the format is one of the
  two whose headers have two numbers; of a sparse graph no line was tested yet, and of a
  dense matrix none, or the number of columns is even. `LineJudged` says what the test
  makes of a line of such a file: a row of a dense matrix with an even number of columns
  that could be sparse has as many tokens as there are columns (`PairsCounted`), so it
  does not decide for the sparse graph.

`PackStorageProofs`, for every set of matrices (their shape is the assumption):

* `TypeCorrect`, `PackReadsAhead`, `PackMarksOwnRow`, `RowsComeOutSorted`, and
  `PackedValuesAreTotals` (`ValuesAreTotals`).
* The invariant of the first four is `PackInv`: `TypeOK`, and `LoopInv` (what row and slots the loop stands
  at), `AheadInv` (the write position is not above the read position, and the row starts
  still to be read are the old ones), `MarkInv` (`wa` marks the slots of the row being
  packed and no others), `RowsInv` (the rows packed so far hold every column once) and
  `SortInv` (those sorted so far increase strictly). That a packed row has no column
  twice follows from `MarkInv`: a column without a mark is not in the row yet.
* `PackedValuesAreTotals` needs more, `SumInv`: a row, packed as far as the loaded
  matrix's slot n, is `Gathered`: the value in each of its slots is the sum of the row's
  entries before n that have the slot's column, and a column has a slot exactly if there
  is such an entry. A new element begins a sum that was 0, a duplicate lengthens one,
  moving a row down and sorting it carry the sums along (a permutation of the slots takes
  columns and values together), and a packed row is not touched by the next one because
  of `AheadInv`. At the end the slots and the positions that have an entry are in
  bijection, slot by slot in the order of rows and columns, so they are as many.

`HandlerProofs`, of `PanelLayout`, for all sets of window sizes and every height of controls and panel:

* `LayoutTypeCorrect`, `LayoutAgrees` (`AreaFitsWindow`), `PanelFitsWindow` (`PanelFits`),
  `RecursionIsShallow` (`OneNestedCall`). The invariant is `LayoutInv`: these properties and `CallInv`, which
  adds that the call in progress has the window's width, that GLUT shows the panel
  exactly when the flag says so, and that no nested call finds it visible.
* `RecursionIsShallow` speaks of the window, not of the height `reshape` is called with:
  GLUT's resize to at least 4 * `Offset`, or any event in a window with 4 * `Offset` beside
  controls and panel (`RoomForEvent`), takes one nested call at most and leaves the stack
  alone. The step is that the stored height of such a window, from which the menus and
  the nested call start, is at least 4 * `Offset` whether the panel is shown or not
  (`RoomStored`), which needs `AreaFitsWindow`.

`HandlerProofs`, of `Interaction`, for every matrix size and all pixels:

* `MouseTypeCorrect`, `CursorStaysInMatrix`, `DragsNeedButtons` (`DragNeedsButton`),
  `DragsStartFromPointer` (`DragFromPointer`), `DragsFollowPointer` (`GripKept`). `GripKept` alone is not inductive: the step that
  pans needs that `mouse_begin` is the pointer's last position, also after the cursor's
  drag was ended by the release of another button; `DragInv` is their conjunction.

`DrawingProofs`, of `MatrixView`, for all matrices and permutation files:

* `TypeCorrect`, `UsesWhatIsLoaded`, `PanelTellsTruth`, `PictureIsComplete`.
* The invariant is `ViewInv`: `TypeOK`, `LoadedInv` (the state of the check boxes names
  only files given, and `cperm` is what `load_permutations` makes of `icperm`) and
  `ShownInv` (a window for which nothing is posted shows what it would if drawn now).
  The lemmas on permutations show that `cperm` and `icperm` are inverse of each other
  when the file names every column once; the column `load_permutations` leaves in a
  place is the last that names it, which exists by the least-number argument on the
  distance from the end.

`DrawingProofs`, of `ColorIndex`, for every matrix and every length of the colormap:

* `ColorsStayInMap` (`ColorInv`): the index computed from the statistics is inside the map
  in every case that `ColorsInMap` does not except. The invariant says what the
  statistics are over the entries `seen`: `max_val` bounds their values, a row's or
  column's sum of squares bounds each of its squares. The index is then a quotient of a
  number and a bound of it, scaled to the map, and its whole part is below the map's end.
* `ColorsGrowWithValues` (`ColorsFollowValues`), for every `FallsShort` that
  `RoundingAssumption` allows: the scaling grows with the value, and so does its whole
  part; where rounding takes one from it the exact product is whole (`LostFromWhole`,
  `LostFromRoot`), so a smaller value's whole part was at least one lower already.
  Without a value to divide by nothing is lost, which is why equal positive values have
  the last colour; the greatest of several may have the one before.

`PipelineProofs`, of `Symmetrize` and `Pipeline`, for every set of loaded matrices,
symmetrized or not:

* `PipeTypeCorrect` (`PipeTypeOK`), `SecondLoadSucceeds` (`IgnoredResultIsTrue`),
  `PipelineStaysInArrays` (`LoadingStaysInArrays`), `PackingGetsCompressedRows`
  (`HandsOnCompressedRows`), and the four together, `PipelineIsSafe` (`PipeInv`).
* The invariant is `PipelineInv`. Of the iterator it says that before its end it stands
  on an entry and on the row that holds the entry's slot (`AtEntry`), and that it has
  passed as many entries as were counted (`Taken`): all of the matrix, then all of the
  transpose. That the next entry's row is found however many empty ones are skipped, and
  the end only after the last entry, is a least-number argument on row ends. `StageInv`
  says which arrays each stage works on, `WalkInv` where the iterator and the loop index
  are, `RowsInv` what the row starts are in each loop, in the terms of `CompressedRows`
  for a file of the union's entries.
* `SymmetrizingImplementsLoading` (`SymmetrizingIsLoading`): under the mapping of
  `UnionLoad`, every step of the branch is the same step of `CrmLoad` on a file of the
  union's entries or changes nothing of it, and the branch begins where `CrmLoad` does.

* `ShowsTheSum` (`ShowsSum`): the value shown is the sum of the file's entries. It joins
  three parts. `ContentsInv` adds to `PipelineInv` what is in the slots: while the union
  is placed, the entries taken so far are in theirs (`Placed`); once `mlarge` is handed to
  `pack_storage`, it holds the matrix as loaded, or a file of the union's entries in
  compressed rows (`IsMatrixOf`, `IsUnionOf`). Packing it is then an instance of
  `PackStorageProofs` (`P`), whose assumption on the shape of a matrix `HandsOnCompressedRows`
  provides, so `PackedValuesAreTotals` says that the value shown is the sum over the slots
  of `mlarge`. The last part is about sums: the slots of the union are its entries in
  another order (`SumToRenamed`), and its entries are those of the matrix followed by
  those of the transpose (`SumToSplit`).

`CompressedRowsProofs` has the lemmas that this, `PackStorageProofs` and `CrmLoadProofs` share: how the number
of entries of a row grows along the file, that rows follow each other without a gap, that
different entries have different slots, and what one round of each loop does to a
row-start array that holds counts, sums or cursors. It also has what is known of `SumTo`,
a sum over a range of slots, defined by a recursive function. Its step is proved from the
uniqueness and existence of the running sum (`RunningUnique`, `RunningExists`); what
changing a summand, splitting or reordering does to a sum follows by induction, stated
for the set of numbers it holds for (`AllNaturals`), which needs no operator parameter.

`StartupProofs`, of `Windows`, for every set of widths and both kinds of GLUT:

* `TypeCorrect`, `StartsRight` (`StartedRight`), `NothingStaysStale` (`NothingStale`),
  `PanelKeepsItsContext` (`PanelHasItsContext`).
* The invariant is `WindowsInv`: `TypeOK`, `SetUpInv` (how far `main` has come and what
  each step has left set up, so that in the loop every object is its own window's),
  `DrawnInv` (a stale window is posted, or it is the panel and hidden, or about to be
  posted by the canvas) and `ContextInv` (with a GLUT that announces every size, a panel that is shown
  in another context has a reshape callback to come). The properties say nothing of the
  time before the loop; the invariant has to.

`StartupProofs`, of `PermutationFiles`, for files of any length and content:

* `FilesTypeCorrect` (`FilesTypeOK`), `BothOrNone` (`AllOrNothing`),
  `VectorsNameEachOther` (`VectorsAgree`), `ColumnsFitVector` (`WritesInVector`),
  `OneFileOneOrder` (`BothFromOneFile`), `RowsFollowWhatIsLeft` (`RowsFollowRest`),
  `LabelsFollowWhatIsLeft` (`LabelsFollowRest`), and `FilesAreSafe` (`Inv`).
* The invariant is `FilesInv`: `OrderInv` (the files are read in `main`'s order, and
  nothing is loaded before both names were tried), `StreamInv` (the text in the stream is
  what the test leaves of the file, and as long as no read has failed, the lines used hold
  exactly r numbers), `RowsInv` and `ColumnsInv` (after r numbers a vector has the file's
  numbers, as far as it has them, at its first r places, and `cperm` names for each place
  the last of the first r columns put there, or 0), `LabelsInv` (the labels are the lines
  read so far) and `FlagsInv`. `StreamInv` is needed for every other part: what a short
  file leaves in the vectors, and whether a number is read twice, is decided there. The
  lemma `NextAhead` says that the least line of `NumbersAhead` holds the next number in
  the sense of `IsNth`, which counts; so the rows follow the numbers of what is left of
  the file, as far as there are any.

Assumptions used: the named `ASSUME`s of the modules and nothing else.

Model-checked only:

* liveness (`ComesToRest`, `EventsEnd`, `ViewSettles`, `WindowsSettle`, `LoadingEnds`,
  both `ReadingEnds`, and that every load ends in `ImplementsMatrixLoad`), which is out of
  the prover's reach. Every safety invariant and action property of a passing run is
  stated by a theorem.

## Not modelled

* TCLAP, Boost, GLUI's widgets, the extension header `glext.h`: third-party code, which
  is nearly all of the repository's lines. Of GLUI, the viewport computation and the
  dispatch of callbacks are modelled, since the layout and the current window depend on
  them. Command line parsing is pure input.
* Headers of `src/yasmic` and `src/util` that the program does not include, and
  functions of the included ones that it does not call (matrix products, norms, guessing
  of file types, constructors that are told a matrix's size).
* Floating point (projection, zoom, alpha, text placement in `gl_util.cc`): its outcome
  enters as a view, a look or a point; that of the colour index as `FallsShort`.
* Characters: a number cut off in the middle of a file occurs only as the gzip test
  causes it.
* Integer overflow of row numbers near 2^31; indices below 0, which a file that counts
  from 1 has when it says 0: `MatrixReaders` delivers them, `CrmLoad` assumes natural
  ones.
* The last row of a partial view, which the loop of `draw_matrix` leaves out: the model
  leaves it out, too, and no property speaks of it.

## Plan

1. `CanvasDisplay` as an implementation of an abstract sweep that shows one picture,
   for undisturbed sweeps.
