--------------------------- MODULE PdfReading_proofs ---------------------------
(***************************************************************************)
(* Proofs about PdfReading: for any number of documents, any page limit    *)
(* and any interleaving of their readers, OCR never reenters itself and a  *)
(* document has one reader at a time.                                      *)
(***************************************************************************)
EXTENDS PdfReading, FiniteSetTheorems, SequenceTheorems, TLAPS

\* What the position of a thread says of the OCR calls and the table reads that
\* are active for its document.
Idle ==
    {"check", "text", "ocr", "tables:find", "tables:set", "stream", "lattice", "body",
     "tables:restore", "done"}

Active(label, chain, reads) ==
    /\ label \in Idle => chain = <<>> /\ reads = {}
    /\ label = "ocr:call" => chain = <<"facade">> /\ reads = {}
    /\ label \in {"pages", "pages:over"} =>
            chain \in {<<"body">>, <<"facade", "body">>} /\ reads = {}
    /\ label \in {"stream:wait", "stream:late"} => chain = <<>> /\ reads = {"stream"}
    /\ label \in {"lattice:wait", "lattice:late"} => chain = <<>> /\ reads = {"lattice"}

Positions ==
    Idle \union {"ocr:call", "pages", "pages:over", "stream:wait", "stream:late",
                 "lattice:wait", "lattice:late"}
Chains == {<<>>, <<"facade">>, <<"body">>, <<"facade", "body">>}

\* The inductive invariant.
Placed ==
    /\ pc \in [Docs -> Positions]
    /\ calls \in [Docs -> Chains]
    /\ camelot \in [Docs -> SUBSET Flavors]
    /\ \A d \in Docs : Active(pc[d], calls[d], camelot[d])

\* What is appended to a sequence of one element is its second element.
LEMMA Second ==
    ASSUME NEW S, NEW s \in Seq(S), NEW e \in S, Len(s) = 1
    PROVE  /\ Append(s, e) \in Seq(S)
           /\ Len(Append(s, e)) = 2
           /\ Append(s, e)[1] = s[1]
           /\ Append(s, e)[2] = e
<1>1. Append(s, e) \in Seq(S) /\ Len(Append(s, e)) = Len(s) + 1
  BY AppendProperties
<1>2. Append(s, e)[Len(s) + 1] = e
  BY AppendProperties
<1>3. \A i \in 1 .. Len(s) : Append(s, e)[i] = s[i]
  BY AppendProperties
<1> QED
  BY <1>1, <1>2, <1>3

\* A call of the original inside a call of the replacement is a chain of both.
LEMMA Chained == Append(<<"facade">>, "body") = <<"facade", "body">>
<1> DEFINE Parts == {"facade", "body"}
           one   == <<"facade">>
           two   == <<"facade", "body">>
           grown == Append(one, "body")
<1>1. one \in Seq(Parts)
  OBVIOUS
<1>2. Len(one) = 1
  OBVIOUS
<1>3. one[1] = "facade"
  OBVIOUS
<1>4. two \in Seq(Parts)
  OBVIOUS
<1>5. Len(two) = 2
  OBVIOUS
<1>6. two[1] = "facade"
  OBVIOUS
<1>7. two[2] = "body"
  OBVIOUS
<1>8. "body" \in Parts
  OBVIOUS
<1> HIDE DEF one, two, Parts
<1>9. /\ grown \in Seq(Parts) /\ Len(grown) = 2
      /\ grown[1] = "facade" /\ grown[2] = "body"
  BY <1>1, <1>2, <1>3, <1>8, Second
<1> HIDE DEF grown
<1>10. \A i \in 1 .. 2 : grown[i] = two[i]
  BY <1>6, <1>7, <1>9
<1>11. grown = two
  BY <1>4, <1>5, <1>9, <1>10, SeqEqual
<1> QED
  BY <1>11 DEF grown, one, two

\* A step of one reader to a new position leaves the others where they are.
LEMMA OneMoves ==
    ASSUME Placed, NEW d \in Docs, NEW l \in Positions, NEW c \in Chains,
           NEW r \in SUBSET Flavors, Active(l, c, r),
           pc' = [pc EXCEPT ![d] = l], calls' = [calls EXCEPT ![d] = c],
           camelot' = [camelot EXCEPT ![d] = r]
    PROVE  Placed'
<1>1. /\ pc' \in [Docs -> Positions]
      /\ calls' \in [Docs -> Chains]
      /\ camelot' \in [Docs -> SUBSET Flavors]
  BY DEF Placed
<1>2. ASSUME NEW e \in Docs PROVE Active(pc'[e], calls'[e], camelot'[e])
  <2>1. CASE e = d
    BY <2>1 DEF Placed
  <2>2. CASE e # d
    BY <2>2 DEF Placed
  <2> QED
    BY <2>1, <2>2
<1> QED
  BY <1>1, <1>2 DEF Placed

\* Calls and table reads that a step does not name stay as they were.
LEMMA Kept ==
    ASSUME Placed, NEW d \in Docs
    PROVE  /\ calls[d] \in Chains /\ camelot[d] \in SUBSET Flavors
           /\ calls = [calls EXCEPT ![d] = calls[d]]
           /\ camelot = [camelot EXCEPT ![d] = camelot[d]]
  BY DEF Placed

\* The steps that only move a thread between positions of one kind.
LEMMA MovesOn ==
    ASSUME Placed, NEW d \in Docs, NEW l \in Positions,
           Active(l, calls[d], camelot[d]), Goto(d, l), UNCHANGED <<calls, camelot>>
    PROVE  Placed'
  BY Kept, OneMoves DEF Goto

\* A step of a reader keeps the invariant.
LEMMA ReadKeeps == ASSUME Placed, NEW d \in Docs, Read(d) PROVE Placed'
<1> USE DEF Flavors
<1>0. /\ Active(pc[d], calls[d], camelot[d])
      /\ calls[d] \in Chains /\ camelot[d] \in SUBSET Flavors
      /\ \A x \in Chains : calls' = [calls EXCEPT ![d] = x] => calls'[d] = x
  BY Kept DEF Placed
<1>1. CASE Check(d)
  <2>1. pc[d] = "check" /\ UNCHANGED <<calls, camelot>>
    BY <1>1 DEF Check
  <2>2. \E l \in {"ocr", "text"} : Goto(d, l)
    BY <1>1 DEF Check
  <2> QED
    BY <1>0, <2>1, <2>2, MovesOn DEF Active, Idle, Positions
<1>2. CASE ReadTextLayer(d)
  BY <1>0, <1>2, MovesOn DEF ReadTextLayer, Active, Idle, Positions
<1>3. CASE FindBinding(d)
  BY <1>0, <1>3, MovesOn DEF FindBinding, Active, Idle, Positions
<1>4. CASE SetBinding(d)
  BY <1>0, <1>4, MovesOn DEF SetBinding, Active, Idle, Positions
<1>5. CASE PutBack(d)
  BY <1>0, <1>5, MovesOn DEF PutBack, Active, Idle, Positions
<1>6. CASE EnterOcr(d)
  <2>1. /\ pc[d] = "ocr" /\ pc' = [pc EXCEPT ![d] = "ocr:call"]
        /\ calls' = [calls EXCEPT ![d] = Append(calls[d], "facade")]
        /\ camelot' = camelot
    BY <1>6 DEF EnterOcr, Goto
  <2>2. calls[d] = <<>> /\ camelot[d] = {}
    BY <1>0, <2>1 DEF Active, Idle
  <2>3. Append(calls[d], "facade") = <<"facade">>
    BY <2>2
  <2> QED
    BY <2>1, <2>2, <2>3, Kept, OneMoves DEF Active, Idle, Positions, Chains
<1>7. CASE CallBody(d)
  <2>1. /\ pc[d] = "ocr:call" /\ pc' = [pc EXCEPT ![d] = "pages"]
        /\ calls' = [calls EXCEPT ![d] = Append(calls[d], "body")]
        /\ camelot' = camelot
    BY <1>7 DEF CallBody, Goto, OcrBody
  <2>2. calls[d] = <<"facade">> /\ camelot[d] = {}
    BY <1>0, <2>1 DEF Active, Idle
  <2>3. Append(calls[d], "body") = <<"facade", "body">>
    BY <2>2, Chained
  <2> QED
    BY <2>1, <2>2, <2>3, Kept, OneMoves DEF Active, Idle, Positions, Chains
<1>8. CASE CallOriginal(d)
  <2>1. /\ pc[d] = "body" /\ pc' = [pc EXCEPT ![d] = "pages"]
        /\ calls' = [calls EXCEPT ![d] = <<"body">>]
        /\ camelot' = camelot
    BY <1>8 DEF CallOriginal, Goto
  <2>2. camelot[d] = {}
    BY <1>0, <2>1 DEF Active, Idle
  <2> QED
    BY <2>1, <2>2, Kept, OneMoves DEF Active, Idle, Positions, Chains
<1>9. CASE OcrPage(d)
  <2>1. pc[d] = "pages" /\ UNCHANGED <<calls, camelot>>
    BY <1>9 DEF OcrPage
  <2>2. \E l \in {"pages:over", "pages"} : Goto(d, l)
    BY <1>9 DEF OcrPage
  <2> QED
    BY <1>0, <2>1, <2>2, MovesOn DEF Active, Idle, Positions
<1>10. CASE OcrOver(d)
  <2>1. /\ pc[d] \in {"pages", "pages:over"}
        /\ calls' = [calls EXCEPT ![d] = <<>>] /\ camelot' = camelot
    BY <1>10 DEF OcrOver
  <2>2. \E l \in {"done", "tables:restore"} : pc' = [pc EXCEPT ![d] = l]
    BY <1>10 DEF OcrOver, Goto
  <2>3. camelot[d] = {}
    BY <1>0, <2>1 DEF Active
  <2> QED
    BY <2>1, <2>2, <2>3, Kept, OneMoves DEF Active, Idle, Positions, Chains
<1>11. CASE ReadFlavor(d)
  <2>0. PICK f \in Flavors : \/ StartCamelot(d, f) \/ CamelotAnswers(d, f)
                             \/ CamelotTimesOut(d, f) \/ CamelotReturnsLate(d, f)
    BY <1>11 DEF ReadFlavor
  <2>1. Fallback(d, f) \in {"lattice", "ocr", "body"}
    BY DEF Fallback
  <2>2. CASE StartCamelot(d, f)
    <3>1. /\ pc[d] = f /\ pc' = [pc EXCEPT ![d] = Waiting(f)]
          /\ camelot' = [camelot EXCEPT ![d] = camelot[d] \union {f}] /\ calls' = calls
      BY <2>2 DEF StartCamelot, Goto
    <3>2. calls[d] = <<>> /\ camelot[d] \union {f} = {f}
      BY <1>0, <3>1 DEF Active, Idle
    <3>3. Active(Waiting(f), <<>>, {f}) /\ Waiting(f) \in Positions
      BY DEF Waiting, Active, Idle, Positions
    <3> QED
      BY <3>1, <3>2, <3>3, Kept, OneMoves DEF Chains
  <2>3. CASE CamelotAnswers(d, f)
    <3>1. /\ pc[d] = Waiting(f) /\ calls' = calls
          /\ camelot' = [camelot EXCEPT ![d] = camelot[d] \ {f}]
      BY <2>3 DEF CamelotAnswers
    <3>2. \E l \in {"tables:restore", "lattice", "ocr", "body"} : pc' = [pc EXCEPT ![d] = l]
      BY <2>1, <2>3 DEF CamelotAnswers, Goto
    <3>3. calls[d] = <<>> /\ camelot[d] \ {f} = {}
      BY <1>0, <3>1 DEF Active, Idle, Waiting
    <3> QED
      BY <3>1, <3>2, <3>3, Kept, OneMoves DEF Active, Idle, Positions, Chains
  <2>4. CASE CamelotTimesOut(d, f)
    <3>1. pc[d] = Waiting(f) /\ Goto(d, Late(f)) /\ UNCHANGED <<calls, camelot>>
      BY <2>4 DEF CamelotTimesOut, AfterTimeout
    <3>2. calls[d] = <<>> /\ camelot[d] = {f}
      BY <1>0, <3>1 DEF Active, Idle, Waiting
    <3>3. Active(Late(f), <<>>, {f}) /\ Late(f) \in Positions
      BY DEF Late, Active, Idle, Positions
    <3> QED
      BY <3>1, <3>2, <3>3, MovesOn
  <2>5. CASE CamelotReturnsLate(d, f)
    <3>1. /\ pc[d] = Late(f) /\ calls' = calls
          /\ camelot' = [camelot EXCEPT ![d] = camelot[d] \ {f}]
          /\ pc' = [pc EXCEPT ![d] = Fallback(d, f)]
      BY <2>5 DEF CamelotReturnsLate, Goto
    <3>2. calls[d] = <<>> /\ camelot[d] \ {f} = {}
      BY <1>0, <3>1 DEF Active, Idle, Late
    <3> QED
      BY <2>1, <3>1, <3>2, Kept, OneMoves DEF Active, Idle, Positions, Chains
  <2> QED
    BY <2>0, <2>2, <2>3, <2>4, <2>5
<1> QED
  BY <1>1, <1>2, <1>3, <1>4, <1>5, <1>6, <1>7, <1>8, <1>9, <1>10, <1>11 DEF Read

\* The position of a thread tells what is active for its document, whatever the
\* other threads swap meanwhile (tables.py:25-47, ocr.py:8).
THEOREM PositionTells == Spec => []Placed
<1>1. Init => Placed
  <2> SUFFICES ASSUME Init PROVE Placed
    OBVIOUS
  <2>1. /\ pc = [d \in Docs |-> "check"] /\ calls = [d \in Docs |-> <<>>]
        /\ camelot = [d \in Docs |-> {}]
    BY DEF Init
  <2> QED
    BY <2>1 DEF Placed, Active, Idle, Positions, Chains
<1>2. Placed /\ [Next]_vars => Placed'
  <2> SUFFICES ASSUME Placed, [Next]_vars PROVE Placed'
    OBVIOUS
  <2>1. CASE \E d \in Docs : Read(d)
    BY <2>1, ReadKeeps
  <2>2. CASE UNCHANGED vars
    BY <2>2 DEF vars, Placed
  <2> QED
    BY <2>1, <2>2 DEF Next, AllRead
<1> QED
  BY <1>1, <1>2, PTL DEF Spec

\* An OCR call passes the facade at most once and ends in the original function,
\* for any number of documents that are read at once.
THEOREM OcrStaysFlat == Spec => []OcrNeverReenters
<1>1. Placed => OcrNeverReenters
  BY DEF Placed, OcrNeverReenters, Chains
<1> QED
  BY <1>1, PositionTells, PTL

\* A table read that timed out is waited for before anything else reads the same
\* document (legacy_helpers.py:1225-1241).
THEOREM ReadersTakeTurns == Spec => []OneReadPerDocument
<1>1. Placed => OneReadPerDocument
  <2> SUFFICES ASSUME Placed, NEW d \in Docs
               PROVE  Cardinality(camelot[d]) <= 1 /\ (calls[d] # <<>> => camelot[d] = {})
    BY DEF OneReadPerDocument
  <2>1. pc[d] \in Positions /\ Active(pc[d], calls[d], camelot[d])
    BY DEF Placed
  <2>2. camelot[d] \in {{}, {"stream"}, {"lattice"}}
    BY <2>1 DEF Active, Positions
  <2>3. Cardinality(camelot[d]) <= 1
    BY <2>2, FS_EmptySet, FS_Singleton
  <2>4. calls[d] # <<>> => camelot[d] = {}
    BY <2>1 DEF Active, Positions
  <2> QED
    BY <2>3, <2>4
<1> QED
  BY <1>1, PositionTells, PTL
=============================================================================
