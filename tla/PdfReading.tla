----------------------------- MODULE PdfReading -----------------------------
(***************************************************************************)
(* Reading a PDF: text layer, OCR and tables                               *)
(* (src/analysis/extractor/legacy_helpers.py, ocr.py, tables.py,           *)
(* pdf_extractor.py, driven by src/tasks.py:665-693).                      *)
(*                                                                         *)
(* Each document is read by worker threads of its own task, so two         *)
(* readings interleave.  They share the globals of legacy_helpers: the     *)
(* facade swaps functions in for the time of a call and puts back what it  *)
(* found, without a lock.  The name that decides which function OCR goes   *)
(* through, extract_text_from_scanned, is the state here; the others are   *)
(* swapped for the same object or for a wrapper of the same function.      *)
(* Camelot and the OCR engine are external: their answers are chosen.      *)
(***************************************************************************)
EXTENDS Integers, Sequences, FiniteSets

CONSTANTS Docs,          \* the documents read at the same time
          MaxOcrPages,   \* MAX_OCR_PAGES
          StopAfter,     \* pages before OCR may stop early (5)
          MaxPages       \* bound of the model: pages of a document

ASSUME ReadingAssumption ==
    /\ MaxOcrPages \in Nat \ {0}
    /\ StopAfter \in Nat
    /\ MaxPages \in Nat \ {0}

\* A text layer is empty (< 50 characters), short (50 to 200), rich (> 200),
\* made of undecodable glyph tokens, or not readable at all.
Layers == {"empty", "short", "rich", "glyph", "broken"}
Flavors == {"stream", "lattice"}
Binding == {"legacy", "facade"}

VARIABLES
    doc,       \* doc[d]: [layer, pages, batch]: batch when pdf2image takes no page range
    pc,        \* pc[d]: where the thread of d stands
    global,    \* what legacy_helpers.extract_text_from_scanned is bound to
    found,     \* found[d]: the binding d found before swapping
    calls,     \* calls[d]: the OCR functions active in d's thread, outermost first
    camelot,   \* camelot[d]: the Camelot reads running for d
    page,      \* page[d]: OCR pages done
    enough,    \* enough[d]: the OCR text shows both statements and the liabilities
    got        \* got[d]: [text, tables] delivered so far

vars == <<doc, pc, global, found, calls, camelot, page, enough, got>>

DocKinds == [layer: Layers, pages: 0..MaxPages, batch: BOOLEAN]

Init ==
    /\ doc \in [Docs -> DocKinds]
    /\ pc = [d \in Docs |-> "check"]
    /\ global = "legacy"
    /\ found = [d \in Docs |-> "legacy"]
    /\ calls = [d \in Docs |-> <<>>]
    /\ camelot = [d \in Docs |-> {}]
    /\ page = [d \in Docs |-> 0]
    /\ enough = [d \in Docs |-> FALSE]
    /\ got = [d \in Docs |-> [text |-> "none", tables |-> "none"]]

\* is_scanned_pdf: with a short layer or less the images decide nothing, both
\* tests ask for fewer than 50 characters; an unreadable file counts as a scan.
IsScanned(k) == k.layer \in {"empty", "glyph", "broken"}

\* Mutant: the name is looked up when it is called.
OcrBodyLookedUp(binding) == IF binding = "facade" THEN "facade" ELSE "body"

\* The function that the facade's OCR entry runs: the reference taken when
\* ocr.py was imported, not the global it is swapped into.
OcrBody(binding) == "body"

\* The thread of d goes on at l; the rest of its state is as given.
Goto(d, l) == pc' = [pc EXCEPT ![d] = l]

\* _extract_document_text: is_scanned_pdf decides how the text is read.
Check(d) ==
    /\ pc[d] = "check"
    /\ Goto(d, IF IsScanned(doc[d]) THEN "ocr" ELSE "text")
    /\ UNCHANGED <<doc, global, found, calls, camelot, page, enough, got>>

\* extract_text: the text layer, "" when the file cannot be read.
ReadTextLayer(d) ==
    /\ pc[d] = "text"
    /\ got' = [got EXCEPT ![d].text = "layer"]
    /\ Goto(d, "tables:find")
    /\ UNCHANGED <<doc, global, found, calls, camelot, page, enough>>

-----------------------------------------------------------------------------
(* Swapping globals: _patched_legacy finds the old value, sets the new one  *)
(* and puts the old one back when the call is over.                         *)

FindBinding(d) ==
    /\ pc[d] = "tables:find"
    /\ found' = [found EXCEPT ![d] = global]
    /\ Goto(d, "tables:set")
    /\ UNCHANGED <<doc, global, calls, camelot, page, enough, got>>

SetBinding(d) ==
    /\ pc[d] = "tables:set"
    /\ global' = "facade"
    /\ Goto(d, "stream")
    /\ UNCHANGED <<doc, found, calls, camelot, page, enough, got>>

PutBack(d) ==
    /\ pc[d] = "tables:restore"
    /\ global' = found[d]
    /\ Goto(d, "done")
    /\ UNCHANGED <<doc, found, calls, camelot, page, enough, got>>

-----------------------------------------------------------------------------
(* OCR *)

\* The facade's entry: it swaps and calls the function OcrBody names.
EnterOcr(d) ==
    /\ pc[d] = "ocr"
    /\ calls' = [calls EXCEPT ![d] = Append(@, "facade")]
    /\ Goto(d, "ocr:call")
    /\ UNCHANGED <<doc, global, found, camelot, page, enough, got>>

CallBody(d) ==
    /\ pc[d] = "ocr:call"
    /\ IF OcrBody(global) = "body"
       THEN /\ calls' = [calls EXCEPT ![d] = Append(@, "body")]
            /\ Goto(d, "pages")
       ELSE /\ calls' = calls
            /\ Goto(d, "ocr")
    /\ UNCHANGED <<doc, global, found, camelot, page, enough, got>>

\* The pages converted after one more call of convert_from_path: all of them up
\* to the page limit, or one more.
PagesConverted(d) ==
    IF doc[d].batch
    THEN IF doc[d].pages > MaxOcrPages THEN MaxOcrPages ELSE doc[d].pages
    ELSE page[d] + 1

MorePages(d) == page[d] < MaxOcrPages /\ page[d] < doc[d].pages

\* One round of the page loop: conversion, recognition and the lines that the
\* layout adds.  A page may fail, and a failed conversion ends the loop; what is
\* recognised may complete the early-stop signal, which only page-wise conversion
\* looks at.
OcrPage(d) ==
    /\ pc[d] = "pages"
    /\ MorePages(d)
    /\ page' = [page EXCEPT ![d] = PagesConverted(d)]
    /\ \E signal \in BOOLEAN : enough' = [enough EXCEPT ![d] = @ \/ signal]
    /\ got' = [got EXCEPT ![d] = IF doc[d].layer \in {"short", "rich"}
                                 THEN [@ EXCEPT !.tables = "ocr"]
                                 ELSE [@ EXCEPT !.text = "ocr"]]
    /\ Goto(d, IF doc[d].batch \/ (page'[d] >= StopAfter /\ enough'[d])
               THEN "pages:over" ELSE "pages")
    /\ UNCHANGED <<doc, global, found, calls, camelot>>

\* No page left, the page limit, or a conversion error.
OcrOver(d) ==
    /\ \/ pc[d] = "pages:over"
       \/ pc[d] = "pages"
    /\ Goto(d, IF IsScanned(doc[d]) THEN "done" ELSE "tables:restore")
    /\ calls' = [calls EXCEPT ![d] = <<>>]
    /\ UNCHANGED <<doc, global, found, camelot, page, enough, got>>

-----------------------------------------------------------------------------
(* Tables *)

\* Where a read in time, or one that timed out, is waited for.
Waiting(f) == IF f = "stream" THEN "stream:wait" ELSE "lattice:wait"
Late(f) == IF f = "stream" THEN "stream:late" ELSE "lattice:late"

StartCamelot(d, f) ==
    /\ pc[d] = f
    /\ camelot' = [camelot EXCEPT ![d] = @ \union {f}]
    /\ Goto(d, Waiting(f))
    /\ UNCHANGED <<doc, global, found, calls, page, enough, got>>

\* Mutant: the flavor is tried again.
FallbackAgain(d, f) == f

\* What follows a flavor that brought no financial table: the other flavor,
\* then OCR, through whatever the global name is bound to by now.
Fallback(d, f) ==
    CASE f = "stream"          -> "lattice"
      [] global = "facade"       -> "ocr"
      [] OTHER                 -> "body"

\* The read ends in time: financial tables, none, or an exception.
CamelotAnswers(d, f) ==
    /\ pc[d] = Waiting(f)
    /\ camelot' = [camelot EXCEPT ![d] = @ \ {f}]
    /\ \E tables \in BOOLEAN :
          /\ got' = [got EXCEPT ![d].tables = IF tables THEN "camelot" ELSE @]
          /\ Goto(d, IF tables THEN "tables:restore" ELSE Fallback(d, f))
    /\ UNCHANGED <<doc, global, found, calls, page, enough>>

\* Mutant: an executor that is not waited for.
AfterTimeoutAtOnce(d, f) == Fallback(d, f)

\* After 45 s the result is given up, but the executor's "with" block still
\* waits for its thread before the loop continues.
AfterTimeout(d, f) == Late(f)

CamelotTimesOut(d, f) ==
    /\ pc[d] = Waiting(f)
    /\ Goto(d, AfterTimeout(d, f))
    /\ UNCHANGED <<doc, global, found, calls, camelot, page, enough, got>>

CamelotReturnsLate(d, f) ==
    /\ pc[d] = Late(f)
    /\ camelot' = [camelot EXCEPT ![d] = @ \ {f}]
    /\ Goto(d, Fallback(d, f))
    /\ UNCHANGED <<doc, global, found, calls, page, enough, got>>

\* Without the facade's binding the table reader runs the original directly.
CallOriginal(d) ==
    /\ pc[d] = "body"
    /\ calls' = [calls EXCEPT ![d] = <<"body">>]
    /\ Goto(d, "pages")
    /\ UNCHANGED <<doc, global, found, camelot, page, enough, got>>

-----------------------------------------------------------------------------
ReadFlavor(d) ==
    \E f \in Flavors :
       \/ StartCamelot(d, f)
       \/ CamelotAnswers(d, f)
       \/ CamelotTimesOut(d, f)
       \/ CamelotReturnsLate(d, f)

Read(d) ==
    \/ Check(d)
    \/ ReadTextLayer(d)
    \/ FindBinding(d)
    \/ SetBinding(d)
    \/ PutBack(d)
    \/ EnterOcr(d)
    \/ CallBody(d)
    \/ CallOriginal(d)
    \/ OcrPage(d)
    \/ OcrOver(d)
    \/ ReadFlavor(d)

AllRead == (\A d \in Docs : pc[d] = "done") /\ UNCHANGED vars

Next == (\E d \in Docs : Read(d)) \/ AllRead

Spec == Init /\ [][Next]_vars

\* The threads run on, and a Camelot read ends, in time or late.
FairSpec == Spec /\ \A d \in Docs : WF_vars(Read(d))

-----------------------------------------------------------------------------
Labels ==
    {"check", "text", "ocr", "ocr:call", "pages", "pages:over", "body", "tables:find", "tables:set",
     "tables:restore", "done"}
    \union Flavors \union {Waiting(f) : f \in Flavors} \union {Late(f) : f \in Flavors}

TypeOK ==
    /\ doc \in [Docs -> DocKinds]
    /\ pc \in [Docs -> Labels]
    /\ global \in Binding
    /\ found \in [Docs -> Binding]
    /\ \A d \in Docs : calls[d] \in Seq({"facade", "body"})
    /\ camelot \in [Docs -> SUBSET Flavors]
    /\ page \in [Docs -> 0..MaxPages]
    /\ enough \in [Docs -> BOOLEAN]
    /\ got \in [Docs -> [text: {"none", "layer", "ocr"},
                         tables: {"none", "camelot", "ocr"}]]

\* However two readings interleave their swaps, and even when one of them
\* leaves the facade's function bound for good, an OCR call goes through the
\* facade at most once and ends in the original function, never in itself
\* (ocr.py:8, tables.py:25-47).
OcrNeverReenters ==
    \A d \in Docs : calls[d] \in {<<>>, <<"facade">>, <<"body">>, <<"facade", "body">>}

\* A Camelot read that timed out is never still running while the next flavor
\* or OCR works on the same document (legacy_helpers.py:1229-1245).
OneReadPerDocument ==
    \A d \in Docs :
       /\ Cardinality(camelot[d]) <= 1
       /\ calls[d] # <<>> => camelot[d] = {}

\* Every document that is being read is read to the end: text, then tables.
EventuallyRead == \A d \in Docs : <>(pc[d] = "done")
=============================================================================
