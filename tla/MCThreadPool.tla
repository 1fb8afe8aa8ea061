---------------------------- MODULE MCThreadPool ----------------------------
(* Three workers against four items: an item may have to wait for every    *)
(* worker, and several workers may sleep at once.                          *)
EXTENDS ThreadPool

CONSTANTS i1, i2, i3, i4
MCItems4 == {i1, i2, i3, i4}
=============================================================================
