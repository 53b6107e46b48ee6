--------------------------- MODULE MCHuffmanTable ---------------------------
(* Model-checking instance of HuffmanTable.                                *)
EXTENDS HuffmanTable

TwoTypes == {"CODES", "LENS"}
=============================================================================
