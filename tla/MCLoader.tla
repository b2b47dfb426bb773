------------------------------ MODULE MCLoader ------------------------------
(* An instance of the loader: pages of two words, sections of none, one or *)
(* two pages, files that end inside a page, at its end, in the next page,  *)
(* after the section, and after the buffer.                                *)
EXTENDS Loader

MCSectionPages == {0, 1, 2}
MCFileWords == {1, 2, 3, 6}
=============================================================================
