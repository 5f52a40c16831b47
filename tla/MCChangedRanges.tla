--------------------------- MODULE MCChangedRanges ---------------------------
(* Sources and files of up to five lines; at most four numbers are collected. *)
EXTENDS ChangedRanges
=============================================================================
