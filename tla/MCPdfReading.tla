---------------------------- MODULE MCPdfReading ----------------------------
(* Two documents at once, three pages at most, OCR limited to two of them.  *)
EXTENDS PdfReading

MCDocs == {"d1", "d2"}
=============================================================================
