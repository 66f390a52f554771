----------------------------- MODULE MCKlMalloc -----------------------------
(* A heap of three pages above 64 KB and requests of two small classes     *)
(* (three cells of 1 KB a page, one of 2 KB) and two big sizes (3000 takes *)
(* one page, 5000 two).                                                    *)
EXTENDS KlMalloc

MCHeapBase == 16 * PAGE_SIZE
MCHeapLimit == 19 * PAGE_SIZE
=============================================================================
