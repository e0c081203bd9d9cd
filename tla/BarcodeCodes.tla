---------------------------- MODULE BarcodeCodes ----------------------------
(***************************************************************************)
(* What BarcodesController and parseCodes make of a request: the text is   *)
(* cut into pieces, blanks are dropped, and each piece that is left is a   *)
(* barcode, a complaint, or a repetition of an earlier one.                *)
(*                                                                         *)
(* A text is a sequence of characters: digits, a letter, the blank, and    *)
(* the comma, which stands for the three separators.                       *)
(***************************************************************************)
EXTENDS Naturals, Sequences, FiniteSets, SequencesExt

CONSTANTS MaxText,    \* characters of a request
          MaxCodes    \* MAX_CODES

CodesAssumption == MaxText \in Nat /\ MaxCodes \in Nat \ {0}

Digits == {"1", "2"}
Chars == Digits \cup {"x", " ", ","}

VARIABLES text,      \* the body of the request, or the command's payload
          codes,     \* pieces still to be looked at
          valid, invalid, pc

vars == <<text, codes, valid, invalid, pc>>

-----------------------------------------------------------------------------
\* The pieces between separators.
Pieces(t) ==
  LET Add(ps, c) == IF c = "," THEN Append(ps, << >>)
                    ELSE [ps EXCEPT ![Len(ps)] = Append(@, c)]
  IN  FoldLeft(Add, << << >> >>, t)

NoBlanks(piece) == SelectSeq(piece, LAMBDA c : c # " ")

\* parseTextBody, and what the webhook does with the text of a command.
SplitText(t) ==
  LET kept == SelectSeq(Pieces(t), LAMBDA p : NoBlanks(p) # << >>)
  IN  [i \in DOMAIN kept |-> NoBlanks(kept[i])]

Texts == UNION {[1..n -> Chars] : n \in 0..MaxText}

\* A text or a command is split; the codes of a JSON request come as they are.
Init ==
  /\ text \in Texts
  /\ codes \in {SplitText(text), Pieces(text)}
  /\ valid = << >> /\ invalid = << >> /\ pc = "parse"

AllDigits(code) == \A i \in DOMAIN code : code[i] \in Digits

\* One turn of parseCodes.
ParseCode ==
  LET code == NoBlanks(Head(codes))
      new(list) == code # << >> /\ ~Contains(list, code) IN
  /\ pc = "parse" /\ codes # << >>
  /\ codes' = Tail(codes)
  /\ valid' = IF AllDigits(code) /\ new(valid) THEN Append(valid, code) ELSE valid
  /\ invalid' = IF ~AllDigits(code) /\ new(invalid) THEN Append(invalid, code) ELSE invalid
  /\ UNCHANGED <<text, pc>>

TooMany == Len(valid) > MaxCodes
Nothing == valid = << >> /\ invalid = << >>

\* Faulty: the limit itself is refused.
CheckLimitEarly ==
  /\ pc = "parse" /\ codes = << >>
  /\ pc' = IF Len(valid) >= MaxCodes \/ Nothing THEN "refused" ELSE "accepted"
  /\ UNCHANGED <<text, codes, valid, invalid>>

\* The limit and the empty list, after the loop.
CheckCodes ==
  /\ pc = "parse" /\ codes = << >>
  /\ pc' = IF TooMany \/ Nothing THEN "refused" ELSE "accepted"
  /\ UNCHANGED <<text, codes, valid, invalid>>

Next == ParseCode \/ CheckCodes

Spec == Init /\ [][Next]_vars

\* generateBarcodes: the complaints first, then a page per barcode.
Results ==
  [i \in 1..Len(invalid) |-> [code |-> invalid[i], status |-> "failed"]]
    \o [i \in 1..Len(valid) |-> [code |-> valid[i], status |-> "success"]]

\* buildBarcodeSummary: what the prompt says of the codes that were accepted.
Summary ==
  [total |-> Len(valid), first |-> valid[1], last |-> valid[Len(valid)]]

-----------------------------------------------------------------------------
\* The pieces of the request with something in them, in order.
Asked == SplitText(text)
FirstAt(code) == CHOOSE i \in DOMAIN Asked : Asked[i] = code /\ \A j \in 1..(i - 1) : Asked[j] # code

\* An accepted request gets a result for everything it named, once each: the
\* barcodes in the order they were first named, so that the two the prompt
\* shows are the first and the last of the PDF.
EachCodeOnce == pc = "accepted" =>
  /\ {Results[i].code : i \in DOMAIN Results} = ToSet(Asked)
  /\ \A i, j \in DOMAIN Results : Results[i].code = Results[j].code => i = j
  /\ \A i, j \in DOMAIN valid : i < j => FirstAt(valid[i]) < FirstAt(valid[j])
  /\ valid # << >> => \A i \in DOMAIN valid :
       FirstAt(Summary.first) <= FirstAt(valid[i]) /\ FirstAt(valid[i]) <= FirstAt(Summary.last)

\* A request is refused for one of two reasons, and only for them: it names
\* more different barcodes than the limit, or nothing.
RefusedForCause == pc \in {"accepted", "refused"} =>
  (pc = "refused" <=>
     \/ Asked = << >>
     \/ Cardinality({c \in ToSet(Asked) : AllDigits(c)}) > MaxCodes)

\* The usage text the bot answers with shows two codes with a blank between
\* them: such a command gets both as barcodes.
UsageText == \E i \in 2..(Len(text) - 1) :
  /\ text[i] = " "
  /\ \A j \in DOMAIN text : j # i => text[j] \in Digits
BlanksSeparate == pc = "accepted" /\ UsageText =>
  \A i \in 2..(Len(text) - 1) : text[i] = " " =>
    ToSet(valid) = {SubSeq(text, 1, i - 1), SubSeq(text, i + 1, Len(text))}

=============================================================================
