----------------------------- MODULE MCDownload -----------------------------
(* The files of Download for model checking.                               *)
EXTENDS Download

(* No file is shorter than a window of three.  The first is longer than    *)
(* a round of four block numbers, and no last window holds number zero.    *)
Long == <<7, 3, 3>>

(* The same for a window of two and a round of three block numbers.        *)
Shorter == <<5, 2>>

(* The first file fits in the window.                                      *)
Short == <<1, 1>>
=============================================================================
