---------------------------- MODULE MCFramePool ----------------------------
(***************************************************************************)
(* Model-checking wrapper for FramePool: the refinement of the first-fit  *)
(* allocator by the bitmap pool.                                           *)
(***************************************************************************)
EXTENDS FramePool

\* The abstract allocator, its allocated set read off the bitmaps.
Abstract == INSTANCE FrameAllocator WITH allocated <- UsedFrames

\* Every pool_alloc sets the bit of the lowest free frame of the whole pool
\* (the block scan, the cached first index and the word/bit scan together
\* implement first fit), pool_free clears one, and the panic happens exactly
\* when every frame is in use.  Broken by a stale or over-advanced first.
FirstFitRefinement == Abstract!Spec

====
