------------------------------ MODULE MCNovel ------------------------------
(* A novel of two chapters of 1201 words: two sections of 600 and 601 words. *)
EXTENDS NovelPipeline
=============================================================================
